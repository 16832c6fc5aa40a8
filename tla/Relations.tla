------------------------------ MODULE Relations ------------------------------
(***************************************************************************)
(* Follows and blocks between a local account and a remote actor: the      *)
(* client's requests, the inbox handlers, and the outbox.                  *)
(*                                                                         *)
(* Direction "out" is from the local account to the remote actor, "in" the *)
(* other way.  The unique indexes allow one follow and one block in each   *)
(* direction.  Handlers run concurrently under READ COMMITTED: a row that  *)
(* an open transaction has deleted is still seen by the others, and who    *)
(* wants to write it waits.  The remote server may send any activity at any*)
(* time and any number of times, so a Follow, Undo, Block or Accept of its *)
(* own can arrive in every state, whatever it answers.                     *)
(*                                                                         *)
(* A request that is refused (already following, already blocked, no such  *)
(* relation) changes nothing and is not an action.                         *)
(***************************************************************************)
EXTENDS Integers

CONSTANTS
  Handlers,  \* concurrent requests, of clients and of remote servers
  MaxId      \* bound of the model: ids handed out to follows and blocks

ASSUME MaxIdAssumption == MaxId \in Nat

Dirs == {"out", "in"}

VARIABLES
  follows,    \* follows[d]: the row of that direction, NoFollow if there is none
  blocks,     \* blocks[d]: the id of the block of that direction, 0 if none
  outbox,     \* activities stored in outbox_activities
  delivered,  \* those of them with delivered_at set
  received,   \* activities that reached the remote server
  req,        \* req[h]: the request handler h is processing
  nextId      \* next id of generate_id()

vars == <<follows, blocks, outbox, delivered, received, req, nextId>>

FollowRow(id, approved) == [id |-> id, approved |-> approved]
NoFollow == FollowRow(0, FALSE)

\* An activity of the local account, named by the follow or block it is about.
Activity(type, id) == [type |-> type, id |-> id]
NoActivity == Activity("none", 0)

follow_activity(id) == Activity("Follow", id)
undo_follow_activity(id) == Activity("UndoFollow", id)
accept_activity(id) == Activity("Accept", id)
block_activity(id) == Activity("Block", id)
undo_block_activity(id) == Activity("UndoBlock", id)

\* dir, id, left, target, gone and before belong to the transaction of a block:
\* left counts the directions still to clean, target is the follow it found,
\* gone the directions whose row it has deleted, and before (a history) the
\* follows there were when it began.
Request(pc, activity) ==
  [pc |-> pc, activity |-> activity, dir |-> "out", id |-> 0, left |-> 0,
   target |-> 0, gone |-> {}, before |-> [d \in Dirs |-> 0]]

Idle == Request("idle", NoActivity)

Delivering(activity) == Request("deliver", activity)

\* The ids of the follows that may be there from the start.
FirstId(d) == IF d = "out" THEN 1 ELSE 2

\* Either side may follow the other already; what was sent before is left out.
Init ==
  /\ \E established \in SUBSET Dirs :
       follows = [d \in Dirs |-> IF d \in established THEN FollowRow(FirstId(d), TRUE)
                                 ELSE NoFollow]
  /\ blocks = [d \in Dirs |-> 0]
  /\ outbox = {}
  /\ delivered = {}
  /\ received = {}
  /\ req = [h \in Handlers |-> Idle]
  /\ nextId = 3

\* The follow of this direction is deleted by a transaction still open.
Locked(d) == \E h \in Handlers : d \in req[h].gone

-----------------------------------------------------------------------------
(* Following the remote actor.                                             *)

\* Follow::new(.., None): not approved yet.
PendingFollow(id) == FollowRow(id, FALSE)

\* The look for an existing follow adds nothing to the unique index.
send_follow(h) ==
  /\ req[h] = Idle
  /\ nextId <= MaxId
  /\ follows["out"] = NoFollow
  /\ ~Locked("out")
  /\ follows' = [follows EXCEPT !["out"] = PendingFollow(nextId)]
  /\ req' = [req EXCEPT ![h] = Delivering(follow_activity(nextId))]
  /\ nextId' = nextId + 1
  /\ UNCHANGED <<blocks, outbox, delivered, received>>

send_undo_follow(h) ==
  /\ req[h] = Idle
  /\ follows["out"].approved
  /\ req' = [req EXCEPT ![h] = Delivering(undo_follow_activity(follows["out"].id))]
  /\ UNCHANGED <<follows, blocks, outbox, delivered, received, nextId>>

approve_follow_if_pending(row) == [row EXCEPT !.approved = TRUE]

\* An Accept of a Follow: only the pair is looked at, so that a late or repeated
\* Accept approves whichever follow there is now.
handle_accept_activity ==
  /\ follows["out"] # NoFollow
  /\ ~Locked("out")
  /\ follows' = [follows EXCEPT !["out"] = approve_follow_if_pending(@)]
  /\ UNCHANGED <<blocks, outbox, delivered, received, req, nextId>>

-----------------------------------------------------------------------------
(* Being followed by the remote actor.                                     *)

\* One transaction inserts the follow and the Accept that answers it.
handle_follow_activity(h) ==
  /\ req[h] = Idle
  /\ nextId <= MaxId
  /\ follows["in"] = NoFollow
  /\ ~Locked("in")
  /\ follows' = [follows EXCEPT !["in"] = FollowRow(nextId, TRUE)]
  /\ outbox' = outbox \cup {accept_activity(nextId)}
  /\ req' = [req EXCEPT ![h] = Delivering(accept_activity(nextId))]
  /\ nextId' = nextId + 1
  /\ UNCHANGED <<blocks, delivered, received>>

handle_undo_follow ==
  /\ ~Locked("in")
  /\ follows' = [follows EXCEPT !["in"] = NoFollow]
  /\ UNCHANGED <<blocks, outbox, delivered, received, req, nextId>>

-----------------------------------------------------------------------------
(* Blocks.                                                                 *)

Opposite(d) == IF d = "out" THEN "in" ELSE "out"

\* The block of this direction is inserted by a transaction still open.
BlockPending(d) ==
  \E h \in Handlers : req[h].pc \in {"find", "delete"} /\ req[h].dir = d

\* Faulty variant: only the follow in the direction of the block is removed.
OneWayFaulty == 1

\* remove_follows_between looks at both directions, the block's own first.
Directions == 2

\* The INSERT of block_account ("out") and of handle_block_activity ("in").
InsertBlock(h, d) ==
  /\ req[h] = Idle
  /\ nextId <= MaxId
  /\ blocks[d] = 0
  /\ ~BlockPending(d)
  /\ req' = [req EXCEPT ![h] =
               [pc |-> "find", activity |-> NoActivity, dir |-> d, id |-> nextId,
                left |-> Directions, target |-> 0, gone |-> {},
                before |-> [e \in Dirs |-> follows[e].id]]]
  /\ nextId' = nextId + 1
  /\ UNCHANGED <<follows, blocks, outbox, delivered, received>>

\* A second Block of the remote actor is skipped.
SkipBlock(h) ==
  /\ req[h] = Idle
  /\ blocks["in"] # 0
  /\ req' = [req EXCEPT ![h] = Request("skipped", NoActivity)]
  /\ UNCHANGED <<follows, blocks, outbox, delivered, received, nextId>>

EndSkipped(h) ==
  /\ req[h].pc = "skipped"
  /\ req' = [req EXCEPT ![h] = Idle]
  /\ UNCHANGED <<follows, blocks, outbox, delivered, received, nextId>>

Cleaned(r) == IF r.left = 2 THEN r.dir ELSE Opposite(r.dir)

find_followings(h) ==
  LET r == req[h]
      found == follows[Cleaned(r)].id
  IN  /\ r.pc = "find"
      /\ r.left > 0
      /\ req' = [req EXCEPT ![h] =
                   IF found = 0 THEN [r EXCEPT !.left = @ - 1]
                   ELSE [r EXCEPT !.pc = "delete", !.target = found]]
      /\ UNCHANGED <<follows, blocks, outbox, delivered, received, nextId>>

DeleteFound(h) ==
  LET r == req[h]
      d == Cleaned(r)
  IN  /\ r.pc = "delete"
      /\ ~Locked(d)
      /\ follows[d].id = r.target
      /\ req' = [req EXCEPT ![h] = [r EXCEPT !.pc = "find", !.left = @ - 1, !.target = 0,
                                             !.gone = @ \cup {d}]]
      /\ UNCHANGED <<follows, blocks, outbox, delivered, received, nextId>>

\* Faulty variant: a delete that finds no row waits for one.
WaitsFaulty(h) == FALSE

\* rows_affected() = 0: NotFound, and the transaction of the block rolls back.
DeleteNotFound(h) ==
  /\ req[h].pc = "delete"
  /\ follows[Cleaned(req[h])].id # req[h].target
  /\ req' = [req EXCEPT ![h] = Idle]
  /\ UNCHANGED <<follows, blocks, outbox, delivered, received, nextId>>

\* Two transactions wait for each other's row: PostgreSQL aborts one of them.
DeadlockVictim(h) ==
  /\ req[h].pc = "delete"
  /\ \E g \in Handlers :
       /\ req[g].pc = "delete"
       /\ Cleaned(req[h]) \in req[g].gone
       /\ Cleaned(req[g]) \in req[h].gone
  /\ req' = [req EXCEPT ![h] = Idle]
  /\ UNCHANGED <<follows, blocks, outbox, delivered, received, nextId>>

\* A block by the local account also stores the activity to deliver.
CommitBlock(h) ==
  LET r == req[h]
      activity == block_activity(r.id)
  IN  /\ r.pc = "find"
      /\ r.left = 0
      /\ blocks' = [blocks EXCEPT ![r.dir] = r.id]
      /\ follows' = [d \in Dirs |-> IF d \in r.gone THEN NoFollow ELSE follows[d]]
      /\ outbox' = IF r.dir = "out" THEN outbox \cup {activity} ELSE outbox
      /\ req' = [req EXCEPT ![h] = IF r.dir = "out" THEN Delivering(activity) ELSE Idle]
      /\ UNCHANGED <<delivered, received, nextId>>

unblock_account(h) ==
  LET activity == undo_block_activity(blocks["out"])
  IN  /\ req[h] = Idle
      /\ blocks["out"] # 0
      /\ blocks' = [blocks EXCEPT !["out"] = 0]
      /\ outbox' = outbox \cup {activity}
      /\ req' = [req EXCEPT ![h] = Delivering(activity)]
      /\ UNCHANGED <<follows, delivered, received, nextId>>

\* It does not see a Block that has not committed yet.
handle_undo_block_activity ==
  /\ blocks' = [blocks EXCEPT !["in"] = 0]
  /\ UNCHANGED <<follows, outbox, delivered, received, req, nextId>>

-----------------------------------------------------------------------------
(* Delivery.                                                               *)

\* Faulty variant: a request that got no answer counts as delivered.
NoAnswerFaulty(arrives, answered) == answered \/ ~arrives

\* The POST is a success when the remote server answers so.
Succeeds(arrives, answered) == arrives /\ answered

\* deliver_activity_to_inbox: the activity may arrive and the answer be lost.
Deliver(h, arrives, answered) ==
  LET r == req[h]
  IN  /\ r.pc = "deliver"
      /\ received' = IF arrives THEN received \cup {r.activity} ELSE received
      /\ req' = [req EXCEPT ![h].pc =
                   IF Succeeds(arrives, answered) THEN "confirmed" ELSE "failed"]
      /\ UNCHANGED <<follows, blocks, outbox, delivered, nextId>>

\* Faulty variant: the follow goes whether the Undo was delivered or not.
UndeliveredUndoFaulty(r) ==
  \/ r.pc \in {"confirmed", "failed"} /\ r.activity.type = "UndoFollow"
  \/ r.pc = "failed" /\ r.activity.type = "Follow"

\* Delete the follow the request is about, by its id: after the delivery of an
\* Undo, and after the failed delivery of a Follow.
DeletesOwn(r) ==
  \/ r.pc = "confirmed" /\ r.activity.type = "UndoFollow"
  \/ r.pc = "failed" /\ r.activity.type = "Follow"

DeleteOwn(h) ==
  LET r == req[h]
  IN  /\ DeletesOwn(r)
      /\ ~Locked("out")
      /\ follows["out"].id = r.activity.id
      /\ follows' = [follows EXCEPT !["out"] = NoFollow]
      /\ req' = [req EXCEPT ![h] =
                   IF r.pc = "confirmed" THEN [r EXCEPT !.pc = "deleted"] ELSE Idle]
      /\ UNCHANGED <<blocks, outbox, delivered, received, nextId>>

\* The follow is gone already: NotFound, the request ends.
OwnNotFound(h) ==
  /\ DeletesOwn(req[h])
  /\ follows["out"].id # req[h].activity.id
  /\ req' = [req EXCEPT ![h] = Idle]
  /\ UNCHANGED <<follows, blocks, outbox, delivered, received, nextId>>

\* A Follow or Undo Follow is stored once delivered, with delivered_at set; the
\* other activities are in the outbox and are marked.
Records(r) ==
  \/ r.pc = "confirmed" /\ r.activity.type # "UndoFollow"
  \/ r.pc = "deleted"

\* Faulty variant: the activity delivered inline is not stored.
UnstoredFaulty(h) ==
  /\ Records(req[h])
  /\ delivered' = delivered \cup {req[h].activity}
  /\ req' = [req EXCEPT ![h] = Idle]
  /\ UNCHANGED <<follows, blocks, outbox, received, nextId>>

RecordDelivered(h) ==
  /\ Records(req[h])
  /\ outbox' = outbox \cup {req[h].activity}
  /\ delivered' = delivered \cup {req[h].activity}
  /\ req' = [req EXCEPT ![h] = Idle]
  /\ UNCHANGED <<follows, blocks, received, nextId>>

\* mark_delivery_attempt, or just an error: delivered_at stays as it is.
RecordFailure(h) ==
  /\ req[h].pc = "failed"
  /\ req[h].activity.type # "Follow"
  /\ req' = [req EXCEPT ![h] = Idle]
  /\ UNCHANGED <<follows, blocks, outbox, delivered, received, nextId>>

\* A database error, or the process stops: an open transaction rolls back.
Crash(h) ==
  /\ req[h] # Idle
  /\ req' = [req EXCEPT ![h] = Idle]
  /\ UNCHANGED <<follows, blocks, outbox, delivered, received, nextId>>

-----------------------------------------------------------------------------
Begin(h) ==
  \/ send_follow(h)
  \/ send_undo_follow(h)
  \/ handle_follow_activity(h)
  \/ \E d \in Dirs : InsertBlock(h, d)
  \/ SkipBlock(h)
  \/ unblock_account(h)

Continue(h) ==
  \/ find_followings(h)
  \/ DeleteFound(h)
  \/ DeleteNotFound(h)
  \/ CommitBlock(h)
  \/ EndSkipped(h)
  \/ \E arrives, answered \in BOOLEAN : Deliver(h, arrives, answered)
  \/ DeleteOwn(h)
  \/ OwnNotFound(h)
  \/ RecordDelivered(h)
  \/ RecordFailure(h)

Next ==
  \/ \E h \in Handlers : Begin(h) \/ Continue(h) \/ DeadlockVictim(h) \/ Crash(h)
  \/ handle_accept_activity
  \/ handle_undo_follow
  \/ handle_undo_block_activity

Spec == Init /\ [][Next]_vars

\* A request is scheduled, row locks are granted in turn, a delivery times out,
\* and deadlocks are detected.
Fairness ==
  /\ \A h \in Handlers : SF_vars(Continue(h))
  /\ WF_vars(\E h \in Handlers : DeadlockVictim(h))

FairSpec == Spec /\ Fairness

-----------------------------------------------------------------------------
Activities ==
  [type : {"none", "Follow", "UndoFollow", "Accept", "Block", "UndoBlock"}, id : Nat]

Requests ==
  [pc : {"idle", "find", "delete", "skipped", "deliver", "confirmed", "failed", "deleted"},
   activity : Activities, dir : Dirs, id : Nat, left : 0 .. 2, target : Nat,
   gone : SUBSET Dirs, before : [Dirs -> Nat]]

Rows == [id : Nat, approved : BOOLEAN]

TypeOK ==
  /\ follows \in [Dirs -> Rows]
  /\ blocks \in [Dirs -> Nat]
  /\ outbox \subseteq Activities
  /\ delivered \subseteq outbox
  /\ received \subseteq Activities
  /\ req \in [Handlers -> Requests]
  /\ \A h \in Handlers : req[h].pc = "delete" => req[h].left > 0
  /\ nextId \in Nat \ {0}

(* An outbox entry with delivered_at set, which is what the public outbox  *)
(* shows, reached the remote server, whatever answers were lost and        *)
(* whichever requests died on the way.                                     *)
DeliveredWasReceived == delivered \subseteq received

(* An approved follow of the remote actor is given up for a reason: the    *)
(* Undo of this very follow reached the remote server, a block removed it, *)
(* or the answer to its Follow was lost although the Accept arrived.  A    *)
(* late Undo or a late clean-up of an older follow never takes the one that*)
(* replaced it.                                                            *)
FollowGivenUpForAReason ==
  [][LET follow == follows["out"]
     IN  (follow.approved /\ follows'["out"].id # follow.id) =>
           \/ undo_follow_activity(follow.id) \in received
           \/ \E h \in Handlers : CommitBlock(h) /\ "out" \in req[h].gone
           \/ \E h \in Handlers : req[h].pc = "failed"
                                 /\ req[h].activity = follow_activity(follow.id)]_vars

(* A block that commits leaves none of the follows there were, in either   *)
(* direction, when it was inserted, whatever was approved, undone, blocked *)
(* or rolled back meanwhile.                                               *)
BlockRemovesFollows ==
  [][\A h \in Handlers :
       CommitBlock(h) =>
         \A d \in Dirs : follows'[d].id = 0 \/ follows'[d].id # req[h].before[d]]_vars

(* Every request ends: none waits for ever on a row lock, although two     *)
(* blocks may take the two rows of a pair in opposite orders.              *)
RequestsEnd == \A h \in Handlers : []<>(req[h] = Idle)

\* What the inductive invariant adds for DeliveredWasReceived: a request that
\* goes on to record a delivery made one.
ConfirmedWasReceived ==
  \A h \in Handlers :
    req[h].pc \in {"confirmed", "deleted"} => req[h].activity \in received

\* And for BlockRemovesFollows: of the follows there were when a block was
\* inserted, those in a direction it has dealt with are gone or will be with
\* its commit.  No new follow can take the id of an old one.
DealtWith(r) == CASE r.left = 2 -> {} [] r.left = 1 -> {r.dir} [] OTHER -> Dirs

BlockCleans ==
  \A h \in Handlers : req[h].pc \in {"find", "delete"} =>
    /\ \A d \in Dirs : req[h].before[d] < nextId
    /\ \A d \in DealtWith(req[h]) :
         follows[d].id = 0 \/ follows[d].id # req[h].before[d] \/ d \in req[h].gone

FollowsOld == \A d \in Dirs : follows[d].id < nextId

\* The inductive invariant.
IInv ==
  /\ TypeOK
  /\ DeliveredWasReceived
  /\ ConfirmedWasReceived
  /\ BlockCleans
  /\ FollowsOld

-----------------------------------------------------------------------------
(* Skipping a duplicate Block changes nothing because the first one has    *)
(* removed the follows: there are none when it is skipped.  The comment in *)
(* handle_block_activity says so; follows may arrive after the first Block.*)
DuplicateBlockIsNoOp ==
  [][\A h \in Handlers :
       (req[h].pc # "skipped" /\ req'[h].pc = "skipped")
         => \A d \in Dirs : follows[d] = NoFollow]_vars
=============================================================================
