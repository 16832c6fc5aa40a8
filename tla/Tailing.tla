------------------------------- MODULE Tailing -------------------------------
(***************************************************************************)
(* Transactional log tailing, the read side shared by the account, profile *)
(* and metadata projectors.                                                *)
(*                                                                         *)
(* An event table gives every inserted row the next number of a BIGSERIAL  *)
(* column, `seq`, when the row is INSERTed, not when its transaction       *)
(* commits: rows become visible out of seq order, and a rolled back        *)
(* transaction leaves a hole.  A projector polls the table: it reads its   *)
(* checkpoint, fetches the lowest BatchLimit visible rows with             *)
(* seq > checkpoint - Window, and commits the highest seq it read as the   *)
(* new checkpoint.  This module says nothing of what a row contains.       *)
(***************************************************************************)
EXTENDS Integers, FiniteSets

CONSTANTS
  Workers,     \* processes that run the projector (one per server process)
  Window,      \* W: how far below the checkpoint each poll re-reads
  BatchLimit,  \* LIMIT of one poll
  MaxSeq       \* bound of the model: number of rows ever inserted

ASSUME WindowAssumption == Window \in Nat
ASSUME BatchLimitAssumption == BatchLimit \in Nat \ {0}
ASSUME MaxSeqAssumption == MaxSeq \in Nat

VARIABLES
  nextSeq,     \* next value of the sequence behind the seq column
  open,        \* seqs inserted by transactions still in progress
  committed,   \* seqs of the rows other transactions can see
  checkpoint,  \* projection_checkpoints.last_seq (0 when there is no row)
  batch,       \* batch[w]: seqs fetched by the poll of w, {} when none runs
  top,         \* top[w]: max_seq of that poll
  consumed,    \* history: seqs fetched by a poll that committed
  timely       \* history: seqs committed before the polls had left them behind

eventVars == <<nextSeq, open, committed, timely>>
pollVars == <<checkpoint, batch, top, consumed>>
vars == <<nextSeq, open, committed, checkpoint, batch, top, consumed, timely>>

Polling(w) == batch[w] # {}

\* Neither the checkpoint nor a poll in progress is Window or more past s.
AheadOfPolls(s) ==
  /\ s > checkpoint - Window
  /\ \A w \in Workers : Polling(w) => s > top[w] - Window

Init ==
  /\ nextSeq = 1
  /\ open = {}
  /\ committed = {}
  /\ checkpoint = 0
  /\ batch = [w \in Workers |-> {}]
  /\ top = [w \in Workers |-> 0]
  /\ consumed = {}
  /\ timely = {}

-----------------------------------------------------------------------------
(* Writers of the event table.                                             *)

\* INSERT inside a transaction: the row takes its seq and stays invisible.
Insert ==
  /\ nextSeq <= MaxSeq
  /\ open' = open \cup {nextSeq}
  /\ nextSeq' = nextSeq + 1
  /\ UNCHANGED <<committed, timely, pollVars>>

\* INSERT on a plain connection commits by itself (update_account).
AppendCommitted ==
  /\ nextSeq <= MaxSeq
  /\ committed' = committed \cup {nextSeq}
  /\ timely' = IF AheadOfPolls(nextSeq) THEN timely \cup {nextSeq} ELSE timely
  /\ nextSeq' = nextSeq + 1
  /\ UNCHANGED <<open, pollVars>>

Commit(s) ==
  /\ s \in open
  /\ open' = open \ {s}
  /\ committed' = committed \cup {s}
  /\ timely' = IF AheadOfPolls(s) THEN timely \cup {s} ELSE timely
  /\ UNCHANGED <<nextSeq, pollVars>>

Rollback(s) ==
  /\ s \in open
  /\ open' = open \ {s}
  /\ UNCHANGED <<nextSeq, committed, timely, pollVars>>

-----------------------------------------------------------------------------
(* The poll.                                                               *)

\* Faulty variants, used only to show which property notices each fault.
HighestFaulty(S, n) == {s \in S : Cardinality({t \in S : t > s}) < n}
ShortBatchFaulty(S, n) == {s \in S : Cardinality({t \in S : t < s}) < n - 1}
LastWriteFaulty(a, b) == b

\* The n lowest members of S: ORDER BY seq LIMIT n.
Lowest(S, n) == {s \in S : Cardinality({t \in S : t < s}) < n}

DirtyReadFaulty(from, limit) ==
  Lowest({s \in committed \cup open : s > from}, limit)
PlainTailFaulty(from, limit) ==
  Lowest({s \in committed : s > from + Window}, limit)
InclusiveFaulty(from, limit) == Lowest({s \in committed : s >= from}, limit)

find_by_seq_window(from, limit) == Lowest({s \in committed : s > from}, limit)

\* Nothing in the window: the poll commits without touching the checkpoint.
PollEmpty(w) ==
  /\ ~Polling(w)
  /\ find_by_seq_window(checkpoint - Window, BatchLimit) = {}
  /\ UNCHANGED vars

PollRead(w) ==
  LET events == find_by_seq_window(checkpoint - Window, BatchLimit)
  IN  /\ ~Polling(w)
      /\ \E max_seq \in events :
           /\ \A s \in events : s <= max_seq
           /\ batch' = [batch EXCEPT ![w] = events]
           /\ top' = [top EXCEPT ![w] = max_seq]
      /\ UNCHANGED <<checkpoint, consumed, eventVars>>

\* ProjectionCheckpointStore::set keeps the greatest of the two values.
Greatest(a, b) == IF a > b THEN a ELSE b

PollCommit(w) ==
  /\ Polling(w)
  /\ checkpoint' = Greatest(checkpoint, top[w])
  /\ consumed' = consumed \cup batch[w]
  /\ batch' = [batch EXCEPT ![w] = {}]
  /\ top' = [top EXCEPT ![w] = 0]
  /\ UNCHANGED eventVars

\* The transaction of the poll fails, or its process stops.
PollAbort(w) ==
  /\ Polling(w)
  /\ batch' = [batch EXCEPT ![w] = {}]
  /\ top' = [top EXCEPT ![w] = 0]
  /\ UNCHANGED <<checkpoint, consumed, eventVars>>

Next ==
  \/ Insert
  \/ AppendCommitted
  \/ \E s \in open : Commit(s) \/ Rollback(s)
  \/ \E w \in Workers :
       PollEmpty(w) \/ PollRead(w) \/ PollCommit(w) \/ PollAbort(w)

Spec == Init /\ [][Next]_vars

\* The worker polls on every tick and a poll does not fail for ever.
Fairness ==
  \A w \in Workers : WF_vars(PollRead(w)) /\ SF_vars(PollCommit(w))

FairSpec == Spec /\ Fairness

-----------------------------------------------------------------------------
TypeOK ==
  /\ nextSeq \in Nat \ {0}
  /\ open \subseteq 1 .. (nextSeq - 1)
  /\ committed \subseteq 1 .. (nextSeq - 1)
  /\ checkpoint \in Nat
  /\ batch \in [Workers -> SUBSET committed]
  /\ top \in [Workers -> Nat]
  /\ consumed \subseteq committed
  /\ timely \subseteq committed

(* The guarantee of the window: a row that became visible before the       *)
(* checkpoint, or a poll about to move it, was Window seqs past it, is     *)
(* never left behind: some committed poll fetched it, or the next poll can *)
(* still fetch it.  A plain tail (Window = 0) loses every late commit.     *)
NoTimelyRowLost ==
  \A s \in timely : s \in consumed \/ s > checkpoint - Window

\* What the polls in progress must satisfy for that to be preserved.
NoPollSkips ==
  \A s \in timely : \A w \in Workers :
    (s \notin consumed /\ Polling(w)) => (s \in batch[w] \/ s > top[w] - Window)

IInv == TypeOK /\ NoTimelyRowLost /\ NoPollSkips

(* A checkpoint only grows, whatever the order in which the polls of       *)
(* several processes commit.                                               *)
CheckpointNeverRegresses == [][checkpoint' >= checkpoint]_vars

(* A poll that fills its batch, and so may have left visible rows behind,  *)
(* still moves past its starting point by at least BatchLimit - Window.    *)
FullPollAdvances ==
  [][\A w \in Workers :
       (~Polling(w) /\ Cardinality(batch'[w]) >= BatchLimit)
         => top'[w] - checkpoint >= BatchLimit - Window]_vars

(* Every timely row is consumed in the end: again and again there is none  *)
(* left, and a row once consumed stays so.  It needs BatchLimit > Window:  *)
(* otherwise a poll can fetch the same lowest rows for ever.               *)
TimelyRowsConsumed == []<>(timely \subseteq consumed)
=============================================================================
