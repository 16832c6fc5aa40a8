-------------------------- MODULE AccountProjection --------------------------
(***************************************************************************)
(* The account projector composed with the account use cases: the whole    *)
(* loop from a request, through the event log, back to the read model the  *)
(* next request is admitted against.                                       *)
(*                                                                         *)
(* One poll is one database transaction, project_batch: it reads its       *)
(* checkpoint and the window, then takes the accounts of the batch in any  *)
(* order (a HashMap); for each it reads the row, folds the pending events  *)
(* over it and upserts under a savepoint, holding the row lock until the   *)
(* commit; a deactivated account also loses its profile, metadata and      *)
(* follow rows.  The Owner tuple is written to Keto at once, outside the   *)
(* transaction.                                                            *)
(***************************************************************************)
EXTENDS AccountCommands

CONSTANTS
  Window,     \* ACCOUNT_PROJECTOR_WINDOW
  BatchLimit  \* ACCOUNT_PROJECTOR_BATCH_LIMIT

ASSUME WindowAssumption == Window \in Nat
ASSUME BatchLimitAssumption == BatchLimit \in Nat \ {0}

VARIABLES
  checkpoint,  \* last_seq of account_projector
  poll         \* the poll in progress

vars == <<log, rows, dependents, keto, req, now, checkpoint, poll>>

\* writes holds the rows the poll has upserted and not committed yet, removes
\* the kinds of dependent rows it has deleted.
IdlePoll == [pc |-> "idle", batch |-> {}, top |-> 0, todo |-> {}, cur |-> "none",
             entity |-> NoAccount, writes |-> [a \in Accounts |-> NoAccount],
             removes |-> [a \in Accounts |-> {}]]

ProjectionInit ==
  /\ Init
  /\ checkpoint = 0
  /\ poll = IdlePoll

-----------------------------------------------------------------------------
(* Reading the window.                                                     *)

\* Faulty variants, used only to show which property notices each fault.
DirtyReadFaulty(from, limit) ==
  {s \in DOMAIN log : s > from /\ Cardinality({t \in DOMAIN log : from < t /\ t < s}) < limit}
PlainTailFaulty(from, limit) ==
  {s \in CommittedSeqs :
     s > from + Window /\ Cardinality({t \in CommittedSeqs : from + Window < t /\ t < s}) < limit}

Lowest(S, n) == {s \in S : Cardinality({t \in S : t < s}) < n}

find_by_seq_window(from, limit) ==
  Lowest({s \in CommittedSeqs : s > from}, limit)

PollRead ==
  LET events == find_by_seq_window(checkpoint - Window, BatchLimit)
  IN  /\ poll = IdlePoll
      /\ \E max_seq \in events :
           /\ \A s \in events : s <= max_seq
           /\ poll' = [poll EXCEPT !.pc = "read", !.batch = events, !.top = max_seq,
                                   !.todo = {log[s].acc : s \in events}]
      /\ UNCHANGED <<commandVars, checkpoint>>

PollEmpty ==
  /\ poll = IdlePoll
  /\ find_by_seq_window(checkpoint - Window, BatchLimit) = {}
  /\ UNCHANGED vars

-----------------------------------------------------------------------------
(* One account of the batch.                                               *)

Envelopes(a) == EventsOf(a, poll.batch)

CreatedInWindow(a) == \E e \in Envelopes(a) : e.kind = "Created"

\* find_by_id_unfiltered: no row when it is deleted, and an expired suspension
\* comes back as an active account.
Existing(a) ==
  IF Exists(rows[a]) /\ ~rows[a].deleted THEN account_from_row(rows[a], now)
  ELSE NoAccount

\* Versions are positive, so without a row every event is pending.
Pending(a) == {e \in Envelopes(a) : e.version > Existing(a).version}

FoldsInto(a) == Fold(Existing(a), Pending(a))

Skips(a) ==
  \/ Pending(a) = {} /\ ~CreatedInWindow(a)
  \/ FoldsInto(a).status = "broken"

PollFold(a) ==
  /\ poll.pc = "read"
  /\ a \in poll.todo
  /\ poll' = IF Skips(a) THEN [poll EXCEPT !.todo = @ \ {a}]
             ELSE [poll EXCEPT !.pc = "folded", !.cur = a, !.todo = @ \ {a},
                               !.entity = FoldsInto(a)]
  /\ UNCHANGED <<commandVars, checkpoint>>

-----------------------------------------------------------------------------
(* Writing it.                                                             *)

\* Faulty variants: no version gate; no repair of the Owner relation; a
\* checkpoint advanced by the highest seq instead of to it.
UngatedFaulty(row, entity) == TRUE
NoRepairFaulty == FALSE
AdvanceByFaulty(a, b) == a + b

\* AccountProjectionWriter::upsert: ON CONFLICT ... WHERE version < EXCLUDED.
Upserts(row, entity) == ~Exists(row) \/ row.version < entity.version

Written == [poll EXCEPT !.pc = "read", !.cur = "none", !.entity = NoAccount]

\* The rows the cascade of a deactivated account finds, all of which it deletes.
Cascade == IF poll.entity.deleted THEN dependents[poll.cur] ELSE {}

GrantsOwner == CreatedInWindow(poll.cur) /\ ~poll.entity.deleted

\* The upsert and the cascade; then for a live account whose creation is in the window the
\* Owner relation; a Keto error is only logged.
PollWrite(granted) ==
  /\ poll.pc = "folded"
  /\ ~granted => GrantsOwner /\ "keto" \in Faults
  /\ poll' = [Written EXCEPT
                !.writes[poll.cur] =
                  IF Upserts(rows[poll.cur], poll.entity) THEN poll.entity ELSE @,
                !.removes[poll.cur] = Cascade]
  /\ keto' = IF GrantsOwner /\ granted
             THEN [keto EXCEPT ![poll.cur] = @ \cup {"owner"}] ELSE keto
  /\ UNCHANGED <<log, rows, dependents, req, now, checkpoint>>

\* A failed statement: the savepoint is rolled back and the account skipped.
PollWriteFails ==
  /\ "write" \in Faults
  /\ poll.pc = "folded"
  /\ poll' = Written
  /\ UNCHANGED <<commandVars, checkpoint>>

Greatest(a, b) == IF a > b THEN a ELSE b

PollCommit ==
  /\ poll.pc = "read"
  /\ poll.todo = {}
  /\ rows' = [a \in Accounts |->
                IF Exists(poll.writes[a]) THEN poll.writes[a] ELSE rows[a]]
  /\ dependents' = [a \in Accounts |-> dependents[a] \ poll.removes[a]]
  /\ checkpoint' = Greatest(checkpoint, poll.top)
  /\ poll' = IdlePoll
  /\ UNCHANGED <<log, keto, req, now>>

\* An error of the poll's transaction, or the process stops: all is undone
\* except what Keto was told.
PollAbort ==
  /\ "poll" \in Faults
  /\ poll.pc # "idle"
  /\ poll' = IdlePoll
  /\ UNCHANGED <<commandVars, checkpoint>>

\* project_profile_batch of any process writes a missing profile while the profile's
\* creation is in its own window; whether it still is, is left open here.  Its look
\* at the account passes one that is not projected yet or is live and locks
\* nothing; every account has been one of these, and the poll may be slow, so all
\* that binds its later INSERT is the foreign key.  Profiles has the poll in detail.
ProjectProfile(a) ==
  /\ "profile" \notin dependents[a]
  /\ Exists(rows[a])
  /\ dependents' = [dependents EXCEPT ![a] = @ \cup {"profile"}]
  /\ UNCHANGED <<log, rows, keto, req, now, checkpoint, poll>>

\* Every step of a poll except its commit.
PollStep ==
  \/ PollRead
  \/ PollEmpty
  \/ \E a \in Accounts : PollFold(a)
  \/ \E granted \in BOOLEAN : PollWrite(granted)
  \/ PollWriteFails
  \/ PollAbort

-----------------------------------------------------------------------------
\* A row upserted by the poll stays locked until the poll ends.
RowLocked(h) == WritesRow(req[h].op) /\ Exists(poll.writes[req[h].acc])

Request(h) ==
  /\ \/ \E a \in Accounts : Arrives(h, a)
     \/ Load(h)
     \/ Reject(h)
     \/ Save(h)
     \/ Conflict(h)
     \/ req[h].pc = "saved" /\ ~RowLocked(h)
          /\ \E fields \in SUBSET {"metadata"} : CommitTx(h, fields)
     \/ DetailNotFound(h)
     \/ ChangeRelation(h)
     \/ Fail(h)
  /\ UNCHANGED <<checkpoint, poll>>

Next ==
  \/ \E h \in Handlers : Request(h)
  \/ (Tick \/ \E a \in Accounts : FollowChanges(a)) /\ UNCHANGED <<checkpoint, poll>>
  \/ \E a \in Accounts : ProjectProfile(a)
  \/ PollStep
  \/ PollCommit

Spec == ProjectionInit /\ [][Next]_vars

\* A request that was admitted does not stay in the middle of its work, the
\* worker polls on every tick, and a poll or a write does not fail for ever.
Fairness ==
  /\ \A h \in Handlers :
       /\ WF_vars((Load(h) \/ Reject(h)) /\ UNCHANGED <<checkpoint, poll>>)
       /\ WF_vars((Save(h) \/ Conflict(h)) /\ UNCHANGED <<checkpoint, poll>>)
       /\ SF_vars(((~RowLocked(h) /\ \E fields \in SUBSET {"metadata"} : CommitTx(h, fields))
                     \/ DetailNotFound(h))
                    /\ UNCHANGED <<checkpoint, poll>>)
       /\ WF_vars(ChangeRelation(h) /\ UNCHANGED <<checkpoint, poll>>)
  /\ WF_vars(PollRead)
  /\ \A a \in Accounts : WF_vars(PollFold(a))
  /\ \A a \in Accounts : SF_vars(poll.cur = a /\ PollWrite(TRUE))
  /\ SF_vars(PollCommit)

FairSpec == Spec /\ Fairness

-----------------------------------------------------------------------------
States == [status : {"none", "active", "suspended", "banned", "broken"},
           until : 0 .. Never, deleted : BOOLEAN, version : Nat]

TypeOK ==
  /\ \A i \in DOMAIN log :
       /\ log[i].acc \in Accounts
       /\ log[i].event.kind \in Kinds
       /\ log[i].event.version \in Nat \ {0}
       /\ log[i].state \in {"open", "committed", "aborted"}
  /\ rows \in [Accounts -> States]
  /\ dependents \in [Accounts -> SUBSET DependentKinds]
  /\ keto \in [Accounts -> SUBSET Relations]
  /\ \A h \in Handlers :
       /\ req[h].pc \in {"idle", "admitted", "loaded", "saved", "relations"}
       /\ req[h].pc = "saved" => log[req[h].seq].state = "open"
  /\ now \in 0 .. MaxNow
  /\ checkpoint \in 0 .. Len(log)
  /\ poll.batch \subseteq CommittedSeqs
  /\ poll.pc = "folded" => Exists(poll.entity)

(* The read model never invents a state: each row is the fold of some of   *)
(* the committed events of its account, never of a rolled back one, never  *)
(* of a mixture of two accounts, whatever polls, failures and direct writes*)
(* made it.                                                                *)
RowExplained ==
  \A a \in Accounts :
    rows[a] # NoAccount =>
      \E S \in SUBSET Stream(a) : from_events(S) = rows[a]

Forked(a) ==
  \E i, j \in CommittedSeqs :
    i # j /\ log[i].acc = a /\ log[j].acc = a /\ log[i].prev = log[j].prev

DeactivatedTwice(a) ==
  \E e, f \in Stream(a) :
    /\ e.kind = "Deactivated" /\ f.kind = "Deactivated" /\ e.version < f.version
    /\ \A g \in Stream(a) :
         g.kind = "Reactivated" => g.version < e.version \/ g.version > f.version

(* An account whose stream no longer folds can never be loaded again: no   *)
(* command on it can succeed.  Only two histories lead there: two commands *)
(* that saved on the same version, and a second deactivation admitted      *)
(* before the first was projected (deactivate_account does not look at     *)
(* deleted_at).                                                            *)
BrickedOnlyByForkOrDoubleDeactivation ==
  \A a \in Accounts :
    load(a).status = "broken" => Forked(a) \/ DeactivatedTwice(a)

(* A row only moves forward: neither the upsert of a poll nor the direct   *)
(* write of update_account_detail replaces a row by one of an older        *)
(* version.  It holds while requests do not overlap.                       *)
OlderVersionNeverOverwrites ==
  [][\A a \in Accounts : rows'[a].version >= rows[a].version]_vars

(* The read model converges: once no more events arrive, every row is the  *)
(* fold of the whole stream and stays so.                                  *)
Converges ==
  <>[](\A a \in Accounts : rows[a] = load(a))

(* The creator of an account becomes its owner in Keto even when the       *)
(* request died between the commit and the Keto call: the projector grants *)
(* the relation again while the creation is in its window.                 *)
CreatorBecomesOwner ==
  \A a \in Accounts : Exists(load(a)) ~> "owner" \in keto[a]

-----------------------------------------------------------------------------
(* What the comments and tests of the code say and the code does not do;   *)
(* each is refuted by a run.                                               *)

(* A save whose expected version is stale is a conflict, so no two         *)
(* committed events of an account follow the same version.                 *)
StaleSaveConflicts == \A a \in Accounts : ~Forked(a)

HeadKind(a) == IF Stream(a) = {} THEN "none" ELSE Latest(Stream(a)).kind

(* An account whose stream folds is projected in the end: a fold that is   *)
(* skipped is retried by a later poll.                                     *)
SkippedFoldIsRetried ==
  \A a \in Accounts :
    []<>(Exists(load(a)) => rows[a].version = HeadVersion(a))

(* A reactivated account comes back to the read model.                     *)
ReactivationIsProjected ==
  \A a \in Accounts :
    HeadKind(a) = "Reactivated" ~> (~rows[a].deleted \/ HeadKind(a) # "Reactivated")
=============================================================================
