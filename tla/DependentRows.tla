---------------------------- MODULE DependentRows ----------------------------
(***************************************************************************)
(* What the profile and the metadata projector share: the bounds of a poll,*)
(* the row of the parent account (the account projector writes it), and    *)
(* the test that keeps a projector from bringing back rows which the       *)
(* deactivation of the account has deleted.                                *)
(*                                                                         *)
(* The three projectors of a process run one after another in the same     *)
(* task, but several processes poll: the account projector of one may      *)
(* deactivate the account, and delete its dependent rows, at any point of  *)
(* the other's profile or metadata poll.  Its cascade reads the dependent  *)
(* rows, deletes those it found and commits; it is one step here, since a  *)
(* row committed in between, which it does not delete, is left as if it had*)
(* been committed after it, and the transactions that write these rows do  *)
(* not look at the account again.                                          *)
(***************************************************************************)
EXTENDS Integers, FiniteSets, Sequences

CONSTANTS
  DependentWindow,     \* PROFILE_PROJECTOR_WINDOW, METADATA_PROJECTOR_WINDOW
  DependentBatchLimit  \* PROFILE_PROJECTOR_BATCH_LIMIT, METADATA_PROJECTOR_BATCH_LIMIT

ASSUME DependentWindowAssumption == DependentWindow \in Nat
ASSUME DependentBatchLimitAssumption == DependentBatchLimit \in Nat \ {0}

\* The account's row: not projected yet, live, or deactivated.
Parents == {"absent", "live", "deleted"}

\* The first n rows of ORDER BY seq.
FirstRows(S, n) == {s \in S : Cardinality({t \in S : t < s}) < n}

SeqWindow(seqs, checkpointed) ==
  FirstRows({s \in seqs : s > checkpointed - DependentWindow}, DependentBatchLimit)

Highest(S) == CHOOSE s \in S : \A t \in S : t <= s

\* Faulty variant: the parent is not looked at.
AnyParentFaulty(parent, rowExists, hasCreated) == FALSE

\* Without a row, and with the creation among the pending events, the parent is
\* looked up including deleted ones; a deleted parent skips the aggregate.  The
\* SELECT locks nothing.
SkipsDeletedParent(parent, rowExists, hasCreated) ==
  ~rowExists /\ hasCreated /\ parent = "deleted"

\* The projected row references accounts(id).
ForeignKeyHolds(parent) == parent # "absent"
=============================================================================
