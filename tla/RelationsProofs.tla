--------------------------- MODULE RelationsProofs ---------------------------
(***************************************************************************)
(* Proofs about Relations, for every set of handlers and every number of   *)
(* ids.                                                                    *)
(***************************************************************************)
EXTENDS Relations, TLAPS

\* What the activities and the update of a row are is expanded everywhere.
USE DEF follow_activity, undo_follow_activity, accept_activity, block_activity,
        undo_block_activity, approve_follow_if_pending

Types == {"none", "Follow", "UndoFollow", "Accept", "Block", "UndoBlock"}

\* The constructors of rows, activities and requests: their types and fields.
LEMMA Rowed ==
  /\ \A id \in Nat : \A b \in BOOLEAN :
       FollowRow(id, b) \in Rows /\ FollowRow(id, b).id = id /\ FollowRow(id, b).approved = b
  /\ NoFollow \in Rows /\ NoFollow.id = 0 /\ NoFollow.approved = FALSE
BY DEF FollowRow, NoFollow, Rows

\* Every activity the actions build is one.
LEMMA Activated ==
  /\ \A t \in Types : \A id \in Nat :
       /\ Activity(t, id) \in Activities
       /\ Activity(t, id).type = t
  /\ NoActivity \in Activities
BY DEF Activity, NoActivity, Activities, Types

\* So is every request outside the transaction of a block,
LEMMA Requested ==
  ASSUME NEW a \in Activities, NEW pc \in {"idle", "skipped", "deliver"}
  PROVE  Request(pc, a) \in Requests /\ Request(pc, a).pc = pc
BY DEF Request, Requests, Dirs

\* the idle one,
LEMMA IdleIsRequest == Idle \in Requests /\ Idle.pc = "idle"
BY Activated, Requested DEF Idle

\* and one about to deliver.
LEMMA DeliveringIsRequest ==
  ASSUME NEW a \in Activities
  PROVE  Delivering(a) \in Requests /\ Delivering(a).pc = "deliver"
BY Requested DEF Delivering

\* What TypeOK says of the requests.
TypedReq ==
  /\ req \in [Handlers -> Requests]
  /\ \A h \in Handlers : req[h].pc = "delete" => req[h].left > 0

\* A step that changes one request keeps it.
LEMMA TypeOfReq ==
  ASSUME TypeOK, NEW h \in Handlers, NEW r \in Requests,
         r.pc = "delete" => r.left > 0,
         req' = [req EXCEPT ![h] = r]
  PROVE  TypedReq'
BY DEF TypeOK, TypedReq

-----------------------------------------------------------------------------
(* Type correctness.                                                       *)

\* The initial states are well typed.
LEMMA TypeInit == Init => TypeOK
<1> SUFFICES ASSUME Init PROVE TypeOK
  OBVIOUS
<1>1. PICK established \in SUBSET Dirs :
        follows = [d \in Dirs |-> IF d \in established THEN FollowRow(FirstId(d), TRUE)
                                  ELSE NoFollow]
  BY DEF Init
<1>2. follows \in [Dirs -> Rows]
  BY <1>1, Rowed DEF FirstId
<1>3. received = {}
  BY DEF Init
<1>4. TypedReq
  BY IdleIsRequest DEF Init, TypedReq
<1> QED
  <2>1. blocks \in [Dirs -> Nat] /\ outbox = {} /\ delivered = {} /\ nextId \in Nat \ {0}
    BY DEF Init
  <2> QED
    BY <1>2, <1>3, <1>4, <2>1 DEF TypeOK, TypedReq

\* Every action keeps the types.
LEMMA TypeStep == TypeOK /\ [Next]_vars => TypeOK'
<1> SUFFICES ASSUME TypeOK, [Next]_vars PROVE TypeOK'
  OBVIOUS
<1> USE IdleIsRequest
<1>1. ASSUME NEW h \in Handlers, send_follow(h) PROVE TypeOK'
  <2>1. PendingFollow(nextId) \in Rows /\ Activity("Follow", nextId) \in Activities
    BY Rowed, Activated DEF PendingFollow, TypeOK, Types
  <2>2. TypedReq'
    BY <1>1, <2>1, DeliveringIsRequest, TypeOfReq DEF send_follow
  <2> QED
    <3>1. follows' \in [Dirs -> Rows]
      BY <1>1, <2>1 DEF send_follow, TypeOK
    <3>2. nextId' \in Nat \ {0}
      BY <1>1 DEF send_follow, TypeOK
    <3> QED
      BY <1>1, <2>1, <2>2, <3>1, <3>2 DEF send_follow, TypeOK, TypedReq
<1>2. ASSUME NEW h \in Handlers, send_undo_follow(h) PROVE TypeOK'
  <2>1. Activity("UndoFollow", follows["out"].id) \in Activities
    BY Activated DEF TypeOK, Types, Rows, Dirs
  <2>2. TypedReq'
    BY <1>2, <2>1, DeliveringIsRequest, TypeOfReq DEF send_undo_follow
  <2> QED
    BY <1>2, <2>2 DEF send_undo_follow, TypeOK, TypedReq
<1>3. ASSUME NEW h \in Handlers, handle_follow_activity(h) PROVE TypeOK'
  <2>1. FollowRow(nextId, TRUE) \in Rows /\ Activity("Accept", nextId) \in Activities
    BY Rowed, Activated DEF TypeOK, Types
  <2>2. TypedReq'
    BY <1>3, <2>1, DeliveringIsRequest, TypeOfReq DEF handle_follow_activity
  <2> QED
    <3>1. follows' \in [Dirs -> Rows]
      BY <1>3, <2>1 DEF handle_follow_activity, TypeOK
    <3>2. nextId' \in Nat \ {0}
      BY <1>3 DEF handle_follow_activity, TypeOK
    <3> QED
      BY <1>3, <2>1, <2>2, <3>1, <3>2 DEF handle_follow_activity, TypeOK, TypedReq
<1>4. ASSUME NEW h \in Handlers, NEW d \in Dirs, InsertBlock(h, d) PROVE TypeOK'
  <2> DEFINE before == [e \in Dirs |-> follows[e].id]
             r == [pc |-> "find", activity |-> NoActivity, dir |-> d, id |-> nextId,
                   left |-> 2, target |-> 0, gone |-> {}, before |-> before]
  <2>1. before \in [Dirs -> Nat]
    BY DEF TypeOK, Rows
  <2>2. req' = [req EXCEPT ![h] = r]
    BY <1>4 DEF InsertBlock, Directions
  <2> HIDE DEF before
  <2>3. r \in Requests /\ r.pc = "find"
    BY <2>1, Activated DEF Requests, TypeOK
  <2> HIDE DEF r
  <2>4. TypedReq'
    BY <2>2, <2>3, TypeOfReq
  <2>5. nextId' \in Nat \ {0}
    BY <1>4 DEF InsertBlock, TypeOK, TypedReq
  <2> QED
    BY <1>4, <2>4, <2>5 DEF InsertBlock, TypeOK, TypedReq
<1>5. ASSUME NEW h \in Handlers, SkipBlock(h) PROVE TypeOK'
  <2> DEFINE r == Request("skipped", NoActivity)
  <2>1. r \in Requests /\ r.pc = "skipped"
    BY Activated, Requested
  <2>2. TypedReq'
    BY <1>5, <2>1, TypeOfReq DEF SkipBlock
  <2> QED
    BY <1>5, <2>2 DEF SkipBlock, TypeOK, TypedReq
<1>6. ASSUME NEW h \in Handlers, unblock_account(h) PROVE TypeOK'
  <2>1. Activity("UndoBlock", blocks["out"]) \in Activities
    BY Activated DEF TypeOK, Types, Dirs
  <2>2. TypedReq'
    BY <1>6, <2>1, DeliveringIsRequest, TypeOfReq DEF unblock_account
  <2> QED
    BY <1>6, <2>1, <2>2 DEF unblock_account, TypeOK, TypedReq
<1>7. ASSUME NEW h \in Handlers, find_followings(h) PROVE TypeOK'
  <2>1. req[h] \in Requests /\ Cleaned(req[h]) \in Dirs
    BY DEF TypeOK, Requests, Cleaned, Opposite, Dirs
  <2>2. follows[Cleaned(req[h])].id \in Nat
    BY <2>1 DEF TypeOK, Rows
  <2>3. req[h].left - 1 \in 0 .. 2
    BY <1>7, <2>1 DEF find_followings, Requests
  <2> DEFINE r == req[h]
             found == follows[Cleaned(r)].id
             next == IF found = 0 THEN [r EXCEPT !.left = @ - 1]
                     ELSE [r EXCEPT !.pc = "delete", !.target = found]
  <2>4. next \in Requests /\ (next.pc = "delete" => next.left > 0)
    BY <1>7, <2>1, <2>2, <2>3 DEF find_followings, Requests
  <2>5. req' = [req EXCEPT ![h] = next]
    BY <1>7 DEF find_followings
  <2> HIDE DEF next
  <2>6. TypedReq'
    BY <2>4, <2>5, TypeOfReq
  <2> QED
    BY <1>7, <2>6 DEF find_followings, TypeOK, TypedReq
<1>8. ASSUME NEW h \in Handlers, DeleteFound(h) PROVE TypeOK'
  <2> DEFINE r == req[h]
             d == Cleaned(r)
             next == [r EXCEPT !.pc = "find", !.left = @ - 1, !.target = 0,
                               !.gone = @ \cup {d}]
  <2>1. r \in Requests /\ d \in Dirs
    BY DEF TypeOK, Requests, Cleaned, Opposite, Dirs
  <2>2. r.left - 1 \in 0 .. 2
    BY <1>8, <2>1 DEF DeleteFound, Requests, TypeOK
  <2>3. r.gone \cup {d} \in SUBSET Dirs
    BY <2>1 DEF Requests
  <2>4. next \in Requests /\ next.pc = "find"
    BY <2>1, <2>2, <2>3 DEF Requests
  <2>5. req' = [req EXCEPT ![h] = next]
    BY <1>8 DEF DeleteFound
  <2> HIDE DEF next
  <2>6. TypedReq'
    BY <2>4, <2>5, TypeOfReq
  <2> QED
    BY <1>8, <2>6 DEF DeleteFound, TypeOK, TypedReq
<1>9. ASSUME NEW h \in Handlers, req' = [req EXCEPT ![h] = Idle],
             UNCHANGED <<follows, blocks, outbox, delivered, received, nextId>>
      PROVE  TypeOK'
  BY <1>9, TypeOfReq DEF TypeOK, TypedReq
<1>10. ASSUME NEW h \in Handlers, CommitBlock(h) PROVE TypeOK'
  <2>1. Activity("Block", req[h].id) \in Activities
    BY Activated DEF TypeOK, Types, Requests
  <2>2. TypedReq'
    BY <1>10, <2>1, DeliveringIsRequest, TypeOfReq DEF CommitBlock
  <2>3. follows' \in [Dirs -> Rows]
    BY <1>10, Rowed DEF CommitBlock, TypeOK
  <2>4. blocks' \in [Dirs -> Nat]
    BY <1>10 DEF CommitBlock, TypeOK, Requests
  <2> QED
    BY <1>10, <2>1, <2>2, <2>3, <2>4 DEF CommitBlock, TypeOK, TypedReq
<1>11. ASSUME NEW h \in Handlers, NEW arrives \in BOOLEAN, NEW answered \in BOOLEAN,
              Deliver(h, arrives, answered)
       PROVE  TypeOK'
  <2>1. req[h] \in Requests /\ req[h].activity \in Activities
    BY DEF TypeOK, Requests
  <2>2. TypedReq'
    BY <1>11, <2>1 DEF Deliver, Requests, TypeOK, TypedReq
  <2> QED
    BY <1>11, <2>1, <2>2 DEF Deliver, TypeOK, TypedReq
<1>12. ASSUME NEW h \in Handlers, DeleteOwn(h) PROVE TypeOK'
  <2>1. TypedReq'
    BY <1>12 DEF DeleteOwn, Requests, TypeOK, TypedReq
  <2> QED
    BY <1>12, <2>1, Rowed DEF DeleteOwn, TypeOK, TypedReq
<1>13. ASSUME NEW h \in Handlers, RecordDelivered(h) PROVE TypeOK'
  <2>1. req[h].activity \in Activities
    BY DEF TypeOK, Requests
  <2> QED
    BY <1>13, <2>1, TypeOfReq DEF RecordDelivered, TypeOK, TypedReq
<1>14. CASE handle_accept_activity
  <2>1. follows' \in [Dirs -> Rows]
    BY <1>14 DEF handle_accept_activity, TypeOK, Rows
  <2> QED
    BY <1>14, <2>1 DEF handle_accept_activity, TypeOK, TypedReq
<1>15. CASE handle_undo_follow
  BY <1>15, Rowed DEF handle_undo_follow, TypeOK, TypedReq
<1>16. CASE handle_undo_block_activity
  BY <1>16 DEF handle_undo_block_activity, TypeOK, TypedReq
<1>17. CASE UNCHANGED vars
  BY <1>17 DEF vars, TypeOK, TypedReq
<1> QED
  BY <1>1, <1>2, <1>3, <1>4, <1>5, <1>6, <1>7, <1>8, <1>9, <1>10, <1>11, <1>12, <1>13, <1>14,
     <1>15, <1>16, <1>17
  DEF Next, Begin, Continue, DeleteNotFound, EndSkipped, OwnNotFound, RecordFailure,
      DeadlockVictim, Crash

-----------------------------------------------------------------------------
(* What is marked as delivered was received.                               *)

Recording == {"confirmed", "deleted"}

\* No step takes back what the remote server received.
LEMMA ReceivedGrows == TypeOK /\ [Next]_vars => received \subseteq received'
<1> SUFFICES ASSUME TypeOK, [Next]_vars PROVE received \subseteq received'
  OBVIOUS
<1>1. ASSUME NEW h \in Handlers, NEW arrives \in BOOLEAN, NEW answered \in BOOLEAN,
             Deliver(h, arrives, answered)
      PROVE  received \subseteq received'
  BY <1>1 DEF Deliver
<1> QED
  BY <1>1 DEF Next, vars, Begin, Continue, send_follow, send_undo_follow, handle_follow_activity,
    InsertBlock, SkipBlock, unblock_account, find_followings, DeleteFound, DeleteNotFound,
    CommitBlock, EndSkipped, DeleteOwn, OwnNotFound, RecordDelivered, RecordFailure,
    DeadlockVictim, Crash, handle_accept_activity, handle_undo_follow,
    handle_undo_block_activity

\* A step that leaves no request about to record a delivery but those that were.
LEMMA ConfirmedKept ==
  ASSUME TypeOK, ConfirmedWasReceived, received \subseteq received',
         NEW h \in Handlers, NEW r, req' = [req EXCEPT ![h] = r],
         r.pc \in Recording => r.activity \in received'
  PROVE  ConfirmedWasReceived'
BY DEF ConfirmedWasReceived, Recording, TypeOK

\* Only Deliver confirms, and only RecordDelivered marks.
LEMMA DeliveredStep ==
  TypeOK /\ DeliveredWasReceived /\ ConfirmedWasReceived /\ [Next]_vars
    => DeliveredWasReceived' /\ ConfirmedWasReceived'
<1> SUFFICES ASSUME TypeOK, DeliveredWasReceived, ConfirmedWasReceived, [Next]_vars
             PROVE  DeliveredWasReceived' /\ ConfirmedWasReceived'
  OBVIOUS
<1> DEFINE Goal == DeliveredWasReceived' /\ ConfirmedWasReceived'
<1> USE IdleIsRequest DEF Recording
<1>r. received \subseteq received'
  BY ReceivedGrows
<1>1. ASSUME NEW h \in Handlers, NEW r, req' = [req EXCEPT ![h] = r], r.pc \notin Recording,
             delivered' = delivered
      PROVE  Goal
  BY <1>1, <1>r, ConfirmedKept DEF DeliveredWasReceived
<1>2. ASSUME NEW h \in Handlers, send_follow(h) PROVE Goal
  <2>1. Activity("Follow", nextId) \in Activities
    BY Activated DEF TypeOK, Types
  <2> QED
    BY <1>1, <1>2, <2>1, DeliveringIsRequest DEF send_follow
<1>3. ASSUME NEW h \in Handlers, send_undo_follow(h) PROVE Goal
  <2>1. Activity("UndoFollow", follows["out"].id) \in Activities
    BY Activated DEF TypeOK, Types, Rows, Dirs
  <2> QED
    BY <1>1, <1>3, <2>1, DeliveringIsRequest DEF send_undo_follow
<1>4. ASSUME NEW h \in Handlers, handle_follow_activity(h) PROVE Goal
  <2>1. Activity("Accept", nextId) \in Activities
    BY Activated DEF TypeOK, Types
  <2> QED
    BY <1>1, <1>4, <2>1, DeliveringIsRequest DEF handle_follow_activity
<1>5. ASSUME NEW h \in Handlers, NEW d \in Dirs, InsertBlock(h, d) PROVE Goal
  BY <1>1, <1>5 DEF InsertBlock
<1>6. ASSUME NEW h \in Handlers, SkipBlock(h) PROVE Goal
  <2>1. Request("skipped", NoActivity).pc = "skipped"
    BY Activated, Requested
  <2> QED
    BY <1>1, <1>6, <2>1 DEF SkipBlock
<1>7. ASSUME NEW h \in Handlers, unblock_account(h) PROVE Goal
  <2>1. Activity("UndoBlock", blocks["out"]) \in Activities
    BY Activated DEF TypeOK, Types, Dirs
  <2> QED
    BY <1>1, <1>7, <2>1, DeliveringIsRequest DEF unblock_account
<1>8. ASSUME NEW h \in Handlers, find_followings(h) PROVE Goal
  <2>1. req[h] \in Requests
    BY DEF TypeOK
  <2> DEFINE found == follows[Cleaned(req[h])].id
             next == IF found = 0 THEN [req[h] EXCEPT !.left = @ - 1]
                     ELSE [req[h] EXCEPT !.pc = "delete", !.target = found]
  <2>2. next.pc \in {"find", "delete"}
    BY <1>8, <2>1 DEF find_followings, Requests
  <2>3. req' = [req EXCEPT ![h] = next] /\ delivered' = delivered
    BY <1>8 DEF find_followings
  <2> HIDE DEF next
  <2> QED
    BY <1>1, <2>2, <2>3
<1>9. ASSUME NEW h \in Handlers, DeleteFound(h) PROVE Goal
  <2>1. req[h] \in Requests
    BY DEF TypeOK
  <2> DEFINE next == [req[h] EXCEPT !.pc = "find", !.left = @ - 1, !.target = 0,
                                    !.gone = @ \cup {Cleaned(req[h])}]
  <2>2. next.pc = "find"
    BY <2>1 DEF Requests
  <2>3. req' = [req EXCEPT ![h] = next] /\ delivered' = delivered
    BY <1>9 DEF DeleteFound
  <2> HIDE DEF next
  <2> QED
    BY <1>1, <2>2, <2>3
<1>10. ASSUME NEW h \in Handlers, CommitBlock(h) PROVE Goal
  <2>1. Activity("Block", req[h].id) \in Activities
    BY Activated DEF TypeOK, Types, Requests
  <2> QED
    BY <1>1, <1>10, <2>1, DeliveringIsRequest DEF CommitBlock
<1>11. ASSUME NEW h \in Handlers, NEW arrives \in BOOLEAN, NEW answered \in BOOLEAN,
              Deliver(h, arrives, answered)
       PROVE  Goal
  <2>1. req[h] \in Requests
    BY DEF TypeOK
  <2> DEFINE next == [req[h] EXCEPT !.pc = IF Succeeds(arrives, answered) THEN "confirmed"
                                           ELSE "failed"]
  <2>2. next.activity = req[h].activity
        /\ next.pc = IF Succeeds(arrives, answered) THEN "confirmed" ELSE "failed"
    BY <2>1 DEF Requests
  <2>3. req' = [req EXCEPT ![h] = next] /\ delivered' = delivered
    BY <1>11 DEF Deliver
  <2>4. Succeeds(arrives, answered) => req[h].activity \in received'
    BY <1>11 DEF Deliver, Succeeds
  <2> HIDE DEF next
  <2>5. next.pc \in Recording => next.activity \in received'
    BY <2>2, <2>4
  <2> QED
    BY <1>r, <2>3, <2>5, ConfirmedKept DEF DeliveredWasReceived
<1>12. ASSUME NEW h \in Handlers, DeleteOwn(h) PROVE Goal
  <2>1. req[h] \in Requests
    BY DEF TypeOK
  <2> DEFINE next == IF req[h].pc = "confirmed" THEN [req[h] EXCEPT !.pc = "deleted"] ELSE Idle
  <2>2. next.pc \in Recording => next.activity = req[h].activity /\ req[h].pc = "confirmed"
    BY <2>1 DEF Requests
  <2>3. req' = [req EXCEPT ![h] = next] /\ delivered' = delivered
    BY <1>12 DEF DeleteOwn
  <2> HIDE DEF next
  <2>4. next.pc \in Recording => next.activity \in received'
    BY <1>r, <2>2 DEF ConfirmedWasReceived
  <2> QED
    BY <1>r, <2>3, <2>4, ConfirmedKept DEF DeliveredWasReceived
<1>13. ASSUME NEW h \in Handlers, RecordDelivered(h) PROVE Goal
  <2>1. req[h].activity \in received
    BY <1>13 DEF RecordDelivered, Records, ConfirmedWasReceived
  <2>2. DeliveredWasReceived'
    BY <1>13, <1>r, <2>1 DEF RecordDelivered, DeliveredWasReceived
  <2> QED
    BY <1>13, <1>r, <2>2, ConfirmedKept DEF RecordDelivered
<1>14. ASSUME NEW h \in Handlers, req' = [req EXCEPT ![h] = Idle],
              UNCHANGED <<follows, blocks, outbox, delivered, received, nextId>>
       PROVE  Goal
  BY <1>1, <1>14
<1>15. ASSUME UNCHANGED <<req, delivered>> PROVE Goal
  BY <1>15, <1>r DEF DeliveredWasReceived, ConfirmedWasReceived
<1> QED
  BY <1>2, <1>3, <1>4, <1>5, <1>6, <1>7, <1>8, <1>9, <1>10, <1>11, <1>12, <1>13, <1>14, <1>15
  DEF Next, vars, Begin, Continue, DeleteNotFound, EndSkipped, OwnNotFound, RecordFailure,
      DeadlockVictim, Crash, handle_accept_activity, handle_undo_follow,
      handle_undo_block_activity

\* At first nothing is delivered and no request is under way.
LEMMA DeliveredInit == Init => DeliveredWasReceived /\ ConfirmedWasReceived
BY IdleIsRequest DEF Init, DeliveredWasReceived, ConfirmedWasReceived

-----------------------------------------------------------------------------
(* Blocks and the follows they remove.                                     *)

\* BlockCleans for one request.
Cleans(h) ==
  req[h].pc \in {"find", "delete"} =>
    /\ \A d \in Dirs : req[h].before[d] < nextId
    /\ \A d \in DealtWith(req[h]) :
         follows[d].id = 0 \/ follows[d].id # req[h].before[d] \/ d \in req[h].gone

\* What a step may do to the rows: keep them, delete them, or insert one under
\* a new id.
RowsMove ==
  /\ \A d \in Dirs :
       \/ follows'[d].id = follows[d].id
       \/ follows'[d].id = 0
       \/ follows'[d].id = nextId /\ nextId' = nextId + 1
  /\ nextId' = nextId \/ nextId' = nextId + 1

\* TypeOK, component by component.
LEMMA Typed ==
  ASSUME TypeOK
  PROVE  /\ nextId \in Nat \ {0}
         /\ \A d \in Dirs : follows[d] \in Rows /\ follows[d].id \in Nat
         /\ \A h \in Handlers : req[h] \in Requests
BY DEF TypeOK, Rows

\* DealtWith, case by case.
LEMMA DealtWithIs ==
  ASSUME NEW r \in Requests
  PROVE  /\ DealtWith(r) \subseteq Dirs
         /\ r.left = 2 => DealtWith(r) = {}
         /\ r.left = 1 => DealtWith(r) = {r.dir}
         /\ r.left = 0 => DealtWith(r) = Dirs
BY DEF DealtWith, Requests

\* Every action moves the rows so.
LEMMA RowsMoveInStep == TypeOK /\ [Next]_vars => RowsMove
<1> SUFFICES ASSUME TypeOK, [Next]_vars PROVE RowsMove
  OBVIOUS
<1>t. /\ nextId \in Nat
      /\ follows \in [Dirs -> Rows]
      /\ Dirs = {"out", "in"}
      /\ PendingFollow(nextId).id = nextId
      /\ FollowRow(nextId, TRUE).id = nextId
      /\ NoFollow.id = 0
  BY Typed, Rowed DEF TypeOK, Dirs, PendingFollow
<1>1. ASSUME NEW h \in Handlers, send_follow(h) PROVE RowsMove
  BY <1>1, <1>t DEF send_follow, RowsMove
<1>2. ASSUME NEW h \in Handlers, handle_follow_activity(h) PROVE RowsMove
  BY <1>2, <1>t DEF handle_follow_activity, RowsMove
<1>3. ASSUME NEW h \in Handlers, NEW d \in Dirs, InsertBlock(h, d) PROVE RowsMove
  BY <1>3 DEF InsertBlock, RowsMove
<1>4. ASSUME NEW h \in Handlers, CommitBlock(h) PROVE RowsMove
  BY <1>4, <1>t DEF CommitBlock, RowsMove
<1>5. ASSUME NEW h \in Handlers, DeleteOwn(h) PROVE RowsMove
  BY <1>5, <1>t DEF DeleteOwn, RowsMove
<1>6. CASE handle_accept_activity
  BY <1>6, <1>t DEF handle_accept_activity, RowsMove, Rows
<1>7. CASE handle_undo_follow
  BY <1>7, <1>t DEF handle_undo_follow, RowsMove
<1>8. CASE UNCHANGED <<follows, nextId>>
  BY <1>8 DEF RowsMove
<1>9. ASSUME NEW h \in Handlers, NEW arrives \in BOOLEAN, NEW answered \in BOOLEAN,
             Deliver(h, arrives, answered)
      PROVE  UNCHANGED <<follows, nextId>>
  BY <1>9 DEF Deliver
<1> QED
  BY <1>1, <1>2, <1>3, <1>4, <1>5, <1>6, <1>7, <1>8, <1>9
  DEF Next, vars, Begin, Continue, send_undo_follow, SkipBlock, unblock_account,
      find_followings, DeleteFound, DeleteNotFound, EndSkipped, OwnNotFound, RecordDelivered,
      RecordFailure, DeadlockVictim, Crash, handle_undo_block_activity

\* New ids are greater than those of all rows.
LEMMA FollowsOldStep == TypeOK /\ FollowsOld /\ [Next]_vars => FollowsOld'
<1> SUFFICES ASSUME TypeOK, FollowsOld, [Next]_vars PROVE FollowsOld'
  OBVIOUS
<1> QED
  BY RowsMoveInStep, Typed DEF RowsMove, FollowsOld

\* A request that a step leaves alone.
LEMMA CleansKept ==
  ASSUME TypeOK, RowsMove, NEW h \in Handlers, Cleans(h), req'[h] = req[h]
  PROVE  Cleans(h)'
<1> SUFFICES ASSUME req[h].pc \in {"find", "delete"}
             PROVE  /\ \A d \in Dirs : req[h].before[d] < nextId'
                    /\ \A d \in DealtWith(req[h]) :
                         \/ follows'[d].id = 0
                         \/ follows'[d].id # req[h].before[d]
                         \/ d \in req[h].gone
  BY DEF Cleans, DealtWith
<1>1. /\ \A d \in Dirs : req[h].before[d] \in Nat /\ req[h].before[d] < nextId
      /\ DealtWith(req[h]) \subseteq Dirs
  BY Typed, DealtWithIs DEF Cleans, Requests
<1> QED
  BY <1>1, Typed DEF Cleans, RowsMove

\* A block that goes on deals with its directions in turn.
LEMMA BlockCleansStep == TypeOK /\ FollowsOld /\ BlockCleans /\ [Next]_vars => BlockCleans'
<1> SUFFICES ASSUME TypeOK, FollowsOld, BlockCleans, [Next]_vars PROVE BlockCleans'
  OBVIOUS
<1> USE IdleIsRequest
<1>m. RowsMove
  BY RowsMoveInStep
<1>c. \A h \in Handlers : Cleans(h)
  BY DEF BlockCleans, Cleans
<1>1. ASSUME NEW h \in Handlers, NEW r, req' = [req EXCEPT ![h] = r], Cleans(h)'
      PROVE  BlockCleans'
  <2>1. ASSUME NEW g \in Handlers PROVE Cleans(g)'
    <3>1. CASE g = h
      BY <1>1, <3>1
    <3>2. CASE g # h
      <4>1. req'[g] = req[g]
        BY <1>1, <3>2 DEF TypeOK
      <4> QED
        BY <1>m, <1>c, <4>1, CleansKept
    <3> QED
      BY <3>1, <3>2
  <2> QED
    BY <2>1 DEF BlockCleans, Cleans
<1>2. ASSUME NEW h \in Handlers, NEW r, req' = [req EXCEPT ![h] = r],
             r.pc \notin {"find", "delete"}
      PROVE  BlockCleans'
  <2>1. req'[h] = r
    BY <1>2 DEF TypeOK
  <2> QED
    BY <1>1, <1>2, <2>1 DEF Cleans
<1>3. ASSUME NEW h \in Handlers, send_follow(h) PROVE BlockCleans'
  <2>1. Activity("Follow", nextId) \in Activities
    BY Activated DEF TypeOK, Types
  <2> QED
    BY <1>2, <1>3, <2>1, DeliveringIsRequest DEF send_follow
<1>4. ASSUME NEW h \in Handlers, send_undo_follow(h) PROVE BlockCleans'
  <2>1. Activity("UndoFollow", follows["out"].id) \in Activities
    BY Activated DEF TypeOK, Types, Rows, Dirs
  <2> QED
    BY <1>2, <1>4, <2>1, DeliveringIsRequest DEF send_undo_follow
<1>5. ASSUME NEW h \in Handlers, handle_follow_activity(h) PROVE BlockCleans'
  <2>1. Activity("Accept", nextId) \in Activities
    BY Activated DEF TypeOK, Types
  <2> QED
    BY <1>2, <1>5, <2>1, DeliveringIsRequest DEF handle_follow_activity
<1>6. ASSUME NEW h \in Handlers, NEW d \in Dirs, InsertBlock(h, d) PROVE BlockCleans'
  <2> DEFINE r == [pc |-> "find", activity |-> NoActivity, dir |-> d, id |-> nextId,
                   left |-> 2, target |-> 0, gone |-> {},
                   before |-> [e \in Dirs |-> follows[e].id]]
  <2>1. req' = [req EXCEPT ![h] = r] /\ nextId' = nextId + 1
    BY <1>6 DEF InsertBlock, Directions
  <2>2. r.left = 2 /\ \A e \in Dirs : r.before[e] = follows[e].id
    OBVIOUS
  <2>3. DealtWith(r) = {}
    BY <2>2 DEF DealtWith
  <2> HIDE DEF r
  <2>4. req'[h] = r
    BY <2>1 DEF TypeOK
  <2>5. \A e \in Dirs : r.before[e] < nextId'
    BY <2>1, <2>2, Typed DEF FollowsOld
  <2>6. DealtWith(req[h])' = {}
    BY <2>3, <2>4 DEF DealtWith
  <2>7. Cleans(h)'
    BY <2>4, <2>5, <2>6 DEF Cleans
  <2> QED
    BY <1>1, <2>1, <2>7
<1>7. ASSUME NEW h \in Handlers, SkipBlock(h) PROVE BlockCleans'
  <2>1. Request("skipped", NoActivity).pc = "skipped"
    BY Activated, Requested
  <2> QED
    BY <1>2, <1>7, <2>1 DEF SkipBlock
<1>8. ASSUME NEW h \in Handlers, unblock_account(h) PROVE BlockCleans'
  <2>1. Activity("UndoBlock", blocks["out"]) \in Activities
    BY Activated DEF TypeOK, Types, Dirs
  <2> QED
    BY <1>2, <1>8, <2>1, DeliveringIsRequest DEF unblock_account
\* A direction has been dealt with: there was no row in it, or the row is deleted.
<1>9. ASSUME NEW h \in Handlers, NEW next \in Requests, req' = [req EXCEPT ![h] = next],
             follows' = follows, nextId' = nextId,
             req[h].pc \in {"find", "delete"}, req[h].left > 0, next.left = req[h].left - 1,
             next.dir = req[h].dir, next.before = req[h].before,
             req[h].gone \subseteq next.gone,
             follows[Cleaned(req[h])].id = 0 \/ Cleaned(req[h]) \in next.gone
      PROVE  BlockCleans'
  <2>1. req[h] \in Requests /\ req'[h] = next
    BY <1>9 DEF TypeOK
  <2>2. DealtWith(next) \subseteq DealtWith(req[h]) \cup {Cleaned(req[h])}
    <3>1. CASE req[h].left = 2
      <4>1. next.left = 1
        BY <1>9, <3>1
      <4> QED
        BY <1>9, <3>1, <4>1, DealtWithIs DEF Cleaned
    <3>2. CASE req[h].left = 1
      <4>1. next.left = 0
        BY <1>9, <3>2
      <4>2. DealtWith(req[h]) = {req[h].dir} /\ DealtWith(next) = Dirs
        BY <2>1, <3>2, <4>1, DealtWithIs
      <4> QED
        BY <2>1, <3>2, <4>2 DEF Cleaned, Opposite, Dirs, Requests
    <3> QED
      BY <1>9, <2>1, <3>1, <3>2 DEF Requests
  <2>3. /\ \A d \in Dirs : next.before[d] < nextId
        /\ \A d \in DealtWith(req[h]) :
             follows[d].id = 0 \/ follows[d].id # next.before[d] \/ d \in req[h].gone
    BY <1>9, <1>c DEF Cleans
  <2>4. \A d \in DealtWith(next) :
          follows[d].id = 0 \/ follows[d].id # next.before[d] \/ d \in next.gone
    BY <1>9, <2>2, <2>3
  <2>5. DealtWith(req[h])' = DealtWith(next)
    BY <2>1 DEF DealtWith
  <2>6. Cleans(h)'
    BY <1>9, <2>1, <2>3, <2>4, <2>5 DEF Cleans
  <2> QED
    BY <1>1, <1>9, <2>6
<1>10. ASSUME NEW h \in Handlers, find_followings(h) PROVE BlockCleans'
  <2> DEFINE r == req[h]
             found == follows[Cleaned(r)].id
  <2>1. r \in Requests /\ found \in Nat /\ r.pc = "find" /\ r.left > 0
    <3>1. r \in Requests /\ r.pc = "find" /\ r.left > 0
      BY <1>10, Typed DEF find_followings
    <3>2. Cleaned(r) \in Dirs
      BY <3>1 DEF Requests, Cleaned, Opposite, Dirs
    <3> QED
      BY <3>1, <3>2, Typed
  <2>2. CASE found = 0
    <3> DEFINE next == [r EXCEPT !.left = @ - 1]
    <3>1. r.left - 1 \in 0 .. 2
      BY <2>1 DEF Requests
    <3>2. /\ next \in Requests
          /\ next.left = r.left - 1 /\ next.dir = r.dir /\ next.before = r.before
          /\ next.gone = r.gone
      BY <2>1, <3>1 DEF Requests
    <3>3. req' = [req EXCEPT ![h] = next] /\ follows' = follows /\ nextId' = nextId
      BY <1>10, <2>2 DEF find_followings
    <3> HIDE DEF next
    <3> QED
      BY <1>9, <2>1, <2>2, <3>2, <3>3
  <2>3. CASE found # 0
    <3> DEFINE next == [r EXCEPT !.pc = "delete", !.target = found]
    <3>1. next.left = r.left /\ next.dir = r.dir /\ next.before = r.before /\ next.gone = r.gone
      BY <2>1 DEF Requests
    <3>2. req' = [req EXCEPT ![h] = next] /\ follows' = follows /\ nextId' = nextId
      BY <1>10, <2>3 DEF find_followings
    <3> HIDE DEF next
    <3>3. req'[h] = next
      BY <3>2 DEF TypeOK
    <3>4. DealtWith(req[h])' = DealtWith(r)
      BY <3>1, <3>3 DEF DealtWith
    <3>5. Cleans(h)'
      BY <1>c, <2>1, <3>1, <3>2, <3>3, <3>4 DEF Cleans
    <3> QED
      BY <1>1, <3>2, <3>5
  <2> QED
    BY <2>2, <2>3
<1>11. ASSUME NEW h \in Handlers, DeleteFound(h) PROVE BlockCleans'
  <2> DEFINE r == req[h]
             next == [r EXCEPT !.pc = "find", !.left = @ - 1, !.target = 0,
                               !.gone = @ \cup {Cleaned(r)}]
  <2>1. r \in Requests /\ r.pc = "delete" /\ r.left > 0
    BY <1>11 DEF DeleteFound, TypeOK
  <2>2. Cleaned(r) \in Dirs /\ r.left - 1 \in 0 .. 2
    BY <2>1 DEF Requests, Cleaned, Opposite, Dirs
  <2>3. r.gone \cup {Cleaned(r)} \in SUBSET Dirs
    BY <2>1, <2>2 DEF Requests
  <2>4. /\ next \in Requests
        /\ next.left = r.left - 1 /\ next.dir = r.dir /\ next.before = r.before
        /\ next.gone = r.gone \cup {Cleaned(r)}
    BY <2>1, <2>2, <2>3 DEF Requests
  <2>5. req' = [req EXCEPT ![h] = next] /\ follows' = follows /\ nextId' = nextId
    BY <1>11 DEF DeleteFound
  <2> HIDE DEF next
  <2> QED
    BY <1>9, <2>1, <2>4, <2>5
<1>12. ASSUME NEW h \in Handlers, CommitBlock(h) PROVE BlockCleans'
  <2>1. Activity("Block", req[h].id) \in Activities
    BY Activated DEF TypeOK, Types, Requests
  <2> QED
    BY <1>2, <1>12, <2>1, DeliveringIsRequest DEF CommitBlock
<1>13. ASSUME NEW h \in Handlers, NEW arrives \in BOOLEAN, NEW answered \in BOOLEAN,
              Deliver(h, arrives, answered)
       PROVE  BlockCleans'
  <2> DEFINE next == [req[h] EXCEPT !.pc = IF Succeeds(arrives, answered) THEN "confirmed"
                                           ELSE "failed"]
  <2>1. next.pc \in {"confirmed", "failed"}
    BY Typed DEF Requests
  <2>2. req' = [req EXCEPT ![h] = next]
    BY <1>13 DEF Deliver
  <2> HIDE DEF next
  <2> QED
    BY <1>2, <2>1, <2>2
<1>14. ASSUME NEW h \in Handlers, DeleteOwn(h) PROVE BlockCleans'
  <2> DEFINE next == IF req[h].pc = "confirmed" THEN [req[h] EXCEPT !.pc = "deleted"] ELSE Idle
  <2>1. next.pc \in {"deleted", "idle"}
    BY Typed DEF Requests
  <2>2. req' = [req EXCEPT ![h] = next]
    BY <1>14 DEF DeleteOwn
  <2> HIDE DEF next
  <2> QED
    BY <1>2, <2>1, <2>2
<1>15. ASSUME NEW h \in Handlers, req' = [req EXCEPT ![h] = Idle] PROVE BlockCleans'
  BY <1>2, <1>15
<1>16. CASE req' = req
  <2>1. ASSUME NEW h \in Handlers PROVE Cleans(h)'
    BY <1>m, <1>c, <1>16, CleansKept
  <2> QED
    BY <2>1 DEF BlockCleans, Cleans
<1> QED
  BY <1>3, <1>4, <1>5, <1>6, <1>7, <1>8, <1>10, <1>11, <1>12, <1>13, <1>14, <1>15, <1>16
  DEF Next, vars, Begin, Continue, DeleteNotFound, EndSkipped, OwnNotFound, RecordDelivered,
      RecordFailure, DeadlockVictim, Crash, handle_accept_activity, handle_undo_follow,
      handle_undo_block_activity

\* At first no block is under way, and the rows have the first two ids.
LEMMA BlockCleansInit == Init => FollowsOld /\ BlockCleans
<1> SUFFICES ASSUME Init PROVE FollowsOld /\ BlockCleans
  OBVIOUS
<1>1. PICK established \in SUBSET Dirs :
        follows = [d \in Dirs |-> IF d \in established THEN FollowRow(FirstId(d), TRUE)
                                  ELSE NoFollow]
  BY DEF Init
<1>2. nextId = 3 /\ \A h \in Handlers : req[h] = Idle
  BY DEF Init
<1>3. \A d \in Dirs : FirstId(d) \in {1, 2}
  BY DEF FirstId
<1>4. \A d \in Dirs : FollowRow(FirstId(d), TRUE).id = FirstId(d) /\ NoFollow.id = 0
  BY <1>3, Rowed
<1>5. ASSUME NEW d \in Dirs PROVE follows[d].id < nextId
  <2>1. follows[d] = FollowRow(FirstId(d), TRUE) \/ follows[d] = NoFollow
    BY <1>1
  <2>2. follows[d].id \in {0, 1, 2}
    BY <1>3, <1>4, <2>1
  <2> QED
    BY <1>2, <2>2
<1>6. BlockCleans
  BY <1>2, IdleIsRequest DEF BlockCleans
<1> QED
  BY <1>5, <1>6 DEF FollowsOld

\* A block that commits has removed the follows there were when it began.
LEMMA CommitRemoves ==
  ASSUME TypeOK, BlockCleans, NEW h \in Handlers, CommitBlock(h), NEW d \in Dirs
  PROVE  follows'[d].id = 0 \/ follows'[d].id # req[h].before[d]
<1>1. DealtWith(req[h]) = Dirs
  BY Typed, DealtWithIs DEF CommitBlock
<1>2. follows[d].id = 0 \/ follows[d].id # req[h].before[d] \/ d \in req[h].gone
  BY <1>1 DEF BlockCleans, CommitBlock
<1>3. follows'[d] = IF d \in req[h].gone THEN NoFollow ELSE follows[d]
  BY DEF CommitBlock
<1> QED
  BY <1>2, <1>3, Rowed

-----------------------------------------------------------------------------
(* Giving up a follow.                                                     *)

\* The step that FollowGivenUpForAReason asks for.
GivenUpForAReason ==
  LET follow == follows["out"]
  IN  (follow.approved /\ follows'["out"].id # follow.id) =>
        \/ undo_follow_activity(follow.id) \in received
        \/ \E h \in Handlers : CommitBlock(h) /\ "out" \in req[h].gone
        \/ \E h \in Handlers : req[h].pc = "failed"
                              /\ req[h].activity = follow_activity(follow.id)

\* An activity is its type and its id.
LEMMA ActivityIs ==
  ASSUME NEW a \in Activities, NEW type, NEW id, a.type = type, a.id = id
  PROVE  a = Activity(type, id)
BY DEF Activities, Activity

\* The request that deletes its own follow is one that may.
LEMMA DeleteOwnGivesUp ==
  ASSUME TypeOK, ConfirmedWasReceived, NEW h \in Handlers, DeleteOwn(h)
  PROVE  GivenUpForAReason
<1> DEFINE r == req[h]
<1>1. r \in Requests /\ r.activity \in Activities
  BY Typed DEF Requests
<1>2. DeletesOwn(r) /\ follows["out"].id = r.activity.id
  BY DEF DeleteOwn
<1>3. CASE r.pc = "confirmed" /\ r.activity.type = "UndoFollow"
  <2>1. r.activity = undo_follow_activity(follows["out"].id)
    BY <1>1, <1>2, <1>3, ActivityIs
  <2>2. r.activity \in received
    BY <1>3 DEF ConfirmedWasReceived
  <2> QED
    BY <2>1, <2>2 DEF GivenUpForAReason
<1>4. CASE r.pc = "failed" /\ r.activity.type = "Follow"
  <2>1. r.activity = follow_activity(follows["out"].id)
    BY <1>1, <1>2, <1>4, ActivityIs
  <2> QED
    BY <1>4, <2>1 DEF GivenUpForAReason
<1> QED
  BY <1>2, <1>3, <1>4 DEF DeletesOwn

\* No other step but the commit of a block ends an approved follow.
LEMMA StepGivesUp ==
  ASSUME TypeOK, ConfirmedWasReceived, [Next]_vars
  PROVE  GivenUpForAReason
<1>t. /\ follows \in [Dirs -> Rows] /\ "out" \in Dirs /\ "in" \in Dirs /\ "in" # "out"
      /\ ~NoFollow.approved
  BY Rowed DEF TypeOK, Dirs
<1>1. ASSUME ~follows["out"].approved \/ follows'["out"].id = follows["out"].id
      PROVE  GivenUpForAReason
  BY <1>1 DEF GivenUpForAReason
<1>2. ASSUME NEW h \in Handlers, send_follow(h) PROVE GivenUpForAReason
  BY <1>1, <1>2, <1>t DEF send_follow
<1>3. ASSUME NEW h \in Handlers, handle_follow_activity(h) PROVE GivenUpForAReason
  BY <1>1, <1>3, <1>t DEF handle_follow_activity
<1>4. ASSUME NEW h \in Handlers, CommitBlock(h) PROVE GivenUpForAReason
  <2>1. follows'["out"] = IF "out" \in req[h].gone THEN NoFollow ELSE follows["out"]
    BY <1>4, <1>t DEF CommitBlock
  <2> QED
    BY <1>1, <1>4, <2>1 DEF GivenUpForAReason
<1>5. ASSUME NEW h \in Handlers, DeleteOwn(h) PROVE GivenUpForAReason
  BY <1>5, DeleteOwnGivesUp
<1>6. CASE handle_accept_activity
  BY <1>1, <1>6, <1>t DEF handle_accept_activity, Rows
<1>7. CASE handle_undo_follow
  BY <1>1, <1>7, <1>t DEF handle_undo_follow
<1>8. CASE follows' = follows
  BY <1>1, <1>8
<1>9. ASSUME NEW h \in Handlers, NEW arrives \in BOOLEAN, NEW answered \in BOOLEAN,
             Deliver(h, arrives, answered)
      PROVE  follows' = follows
  BY <1>9 DEF Deliver
<1> QED
  BY <1>2, <1>3, <1>4, <1>5, <1>6, <1>7, <1>8, <1>9
  DEF Next, vars, Begin, Continue, send_undo_follow, InsertBlock, SkipBlock, unblock_account,
      find_followings, DeleteFound, DeleteNotFound, EndSkipped, OwnNotFound, RecordDelivered,
      RecordFailure, DeadlockVictim, Crash, handle_undo_block_activity

-----------------------------------------------------------------------------
(* The theorems.                                                           *)

\* The invariant is inductive; its parts were shown one by one above.
THEOREM RelationsInvariant == Spec => []IInv
<1>1. Init => IInv
  BY TypeInit, DeliveredInit, BlockCleansInit DEF IInv
<1>2. IInv /\ [Next]_vars => IInv'
  BY TypeStep, DeliveredStep, FollowsOldStep, BlockCleansStep DEF IInv
<1> QED
  BY <1>1, <1>2, PTL DEF Spec

\* Every behaviour of Relations is well typed; in particular what is marked as
\* delivered is in the outbox.
THEOREM RelationsTypeCorrect == Spec => []TypeOK
<1>1. IInv => TypeOK
  BY DEF IInv
<1> QED
  BY <1>1, RelationsInvariant, PTL

\* No lost answer, crash or interleaving leaves an activity marked as delivered
\* (mark_delivered, store_outbox_activity) that the remote server did not receive.
THEOREM DeliveredReached == Spec => []DeliveredWasReceived
<1>1. IInv => DeliveredWasReceived
  BY DEF IInv
<1> QED
  BY <1>1, RelationsInvariant, PTL

\* For any number of concurrent requests, the local account stops following only
\* because the remote server got the Undo of this follow, because of a block, or
\* because the Follow itself looked undelivered (send_undo_follow and the clean-up
\* of send_follow delete by the id they hold).
THEOREM FollowsGivenUpForAReason == Spec => FollowGivenUpForAReason
<1>1. IInv /\ [Next]_vars => [GivenUpForAReason]_vars
  BY StepGivesUp DEF IInv, vars
<1> QED
  BY <1>1, RelationsInvariant, PTL DEF FollowGivenUpForAReason, GivenUpForAReason, Spec

\* For any number of concurrent requests, a block that commits has ended every
\* follow of the pair that existed when it was inserted (remove_follows_between).
THEOREM BlocksRemoveFollows == Spec => BlockRemovesFollows
<1> DEFINE Removed == \A h \in Handlers : CommitBlock(h) =>
             \A d \in Dirs : follows'[d].id = 0 \/ follows'[d].id # req[h].before[d]
<1>1. IInv => [Removed]_vars
  BY CommitRemoves DEF IInv
<1> QED
  BY <1>1, RelationsInvariant, PTL DEF BlockRemovesFollows
=============================================================================
