---------------------------- MODULE ClientProofs ----------------------------
(***************************************************************************)
(* Proofs about what clients and other servers ask of an account: its      *)
(* relations to others, its keys, its images and the pages it is shown on, *)
(* for any accounts, requests and limits.                                  *)
(***************************************************************************)
EXTENDS SigningKeys, Media, LocalRelations, AccountPages, ActorPages, FiniteSetTheorems,
        LeastNumber, TLAPS

-----------------------------------------------------------------------------
(* Mutes, local blocks and lists: the invariant.                           *)

RelationRecords ==
  [kind : Kinds, id : Nat, source : Targets, destination : Targets, approved : BOOLEAN]

TaskRecords ==
  [pc : {"idle", "account", "target", "list", "lookup", "collection", "mute", "unmute", "block",
         "create", "unblock", "delete", "done"},
   op : {"none", "mute", "unmute", "block", "unblock"} \cup Lists \cup Collections,
   account : Callers \cup {"none"}, target : Targets \cup {"none"}, id : Nat,
   known : SUBSET RelationRecords, left : SUBSET RelationRecords, listed : SUBSET RelationRecords]

\* Whether a row belongs to the list, as Listed reads it.
InList(op, a, r) ==
  /\ op = "mutes" => r.kind = "mute" /\ r.source = a
  /\ op = "blocks" => r.kind = "block" /\ r.source = a
  /\ op \in Followings => r.kind = "follow" /\ r.source = a /\ r.approved
  /\ op \in {"followers", "followers_collection"} =>
       r.kind = "follow" /\ r.destination = a /\ r.approved

\* What a list has read: the rows of the account that it knows of are either
\* listed or still to be looked up.
ReadOK(c, rels) ==
  /\ \A r \in rels : InList(c.op, c.account, r) => r \in c.left \cup c.listed \/ r \notin c.known
  /\ \A r \in c.left \cup c.listed : r.approved /\ r \in c.known

\* What a request carries from one statement to the next: the operation that
\* its place belongs to, two different ends, and what it read before.
TaskOK(c, rels, rows) ==
  /\ c = NoTask \/ c.account \in Callers
  /\ c.known \subseteq rows
  /\ c.op \in {"mute", "unmute", "block", "unblock"} => c.target \in Targets
  /\ c.pc = "account" => c.op \notin Collections \cup {"none"}
  /\ c.pc = "target" => c.op \in {"mute", "unmute", "block", "unblock"}
  /\ c.pc \in {"list", "lookup"} => c.op \in Lists
  /\ c.pc \in {"account", "list", "collection"} => c.listed = {} /\ c.left = {}
  /\ c.pc = "collection" => c.op \in Collections
  /\ c.pc \in {"mute", "unmute", "block", "unblock"} => c.op = c.pc
  /\ c.pc = "create" => c.op = "block"
  /\ c.pc = "delete" => c.op = "unblock"
  /\ c.pc \in {"mute", "block", "create"} => c.account # c.target
  /\ c.pc = "delete" => \E b \in c.known : b.id = c.id
  /\ c.pc = "lookup" => ReadOK(c, rels)
  /\ c.pc = "done" /\ c.op \in Lists \cup Collections => ReadOK(c, rels) /\ c.left = {}
  /\ c.pc = "done" /\ c.op = "mute" =>
       \E r \in rows : r.kind = "mute" /\ r.id <= c.id /\ r.source = c.account
                       /\ r.destination = c.target

\* A row joins two different ends, one of them local, and only a follow waits.
RowOK(r) ==
  /\ r.id >= 1
  /\ r.source # r.destination
  /\ {r.source, r.destination} \cap Members # {}
  /\ r.kind # "follow" => r.approved

RowsOK ==
  /\ nextRelation \in 1 .. (MaxRelation + 1)
  /\ relations \subseteq made
  /\ made \subseteq RelationRecords
  /\ \A r \in made : RowOK(r) /\ r.id < nextRelation
  /\ \A r, s \in made : r.id = s.id => r = s
  /\ OneRelationEach

\* The id of a block that is about to be created is nobody else's.
IdsInHand ==
  \A t \in Tasks : tasks[t].pc = "create" =>
    /\ tasks[t].id < nextRelation /\ tasks[t].id >= 1
    /\ \A r \in made : r.id # tasks[t].id
    /\ \A u \in Tasks : tasks[u].pc = "create" /\ tasks[u].id = tasks[t].id => u = t

LocalRelationsInv ==
  /\ visible \subseteq Members
  /\ RowsOK
  /\ tasks \in [Tasks -> TaskRecords]
  /\ \A t \in Tasks : TaskOK(tasks[t], relations, made)
  /\ IdsInHand

\* Listed is a filter of the rows.
LEMMA ListedIsFilter ==
  ASSUME NEW op \in Lists \cup Collections, NEW a
  PROVE  Listed(op, a) = {r \in relations : InList(op, a, r)}
<1> USE DEF Listed, InList, find_mutes, find_blocks, list_approved_relations, find_followings,
            find_followers, Followings
<1>1. CASE op = "mutes"
  BY <1>1
<1>2. CASE op = "blocks"
  BY <1>2
<1>3. CASE op \in {"following", "following_collection"}
  BY <1>3
<1>4. CASE op \in {"followers", "followers_collection"}
  BY <1>4
<1> QED
  BY <1>1, <1>2, <1>3, <1>4 DEF Lists, Collections

\* The invariant contains what is promised of mutes, blocks and lists.
LEMMA LocalRelationsInvSuffices == LocalRelationsInv => LocalRelationSafety
<1> SUFFICES ASSUME LocalRelationsInv PROVE LocalRelationSafety
  OBVIOUS
<1>1. RowsOK /\ visible \subseteq Members /\ MaxRelation \in Nat
  BY MaxRelationAssumption DEF LocalRelationsInv
<1>2. \A r \in made : r.kind \in Kinds /\ r.id \in 1 .. (nextRelation - 1)
  BY <1>1 DEF RowsOK, RowOK, RelationRecords
<1>3. \A t \in Tasks : tasks[t] = NoTask \/ tasks[t].account \in Callers
  BY DEF LocalRelationsInv, TaskOK
<1>4. LocalRelationsTypeOK /\ OneRelationEach
  BY <1>1, <1>2, <1>3 DEF LocalRelationsTypeOK, RowsOK, RowOK
<1>5. MutedWhenAnswered
  BY DEF LocalRelationsInv, TaskOK, MutedWhenAnswered
<1>6. ListsAreWhole
  <2> SUFFICES ASSUME NEW t \in Tasks, tasks[t].op \in Lists \cup Collections, tasks[t].pc = "done"
               PROVE  /\ \A r \in Listed(tasks[t].op, tasks[t].account) :
                           r \in tasks[t].listed \/ r \notin tasks[t].known
                      /\ \A r \in tasks[t].listed : r.approved /\ r \in tasks[t].known
    BY DEF ListsAreWhole
  <2>1. ReadOK(tasks[t], relations) /\ tasks[t].left = {}
    BY DEF LocalRelationsInv, TaskOK
  <2>2. Listed(tasks[t].op, tasks[t].account)
          = {r \in relations : InList(tasks[t].op, tasks[t].account, r)}
    BY ListedIsFilter
  <2> QED
    BY <2>1, <2>2 DEF ReadOK
<1> QED
  BY <1>4, <1>5, <1>6 DEF LocalRelationSafety

\* A request that is over holds nothing.
LEMMA NoTaskOK ==
  ASSUME NEW rels, NEW rows
  PROVE  NoTask \in TaskRecords /\ NoTask.pc = "idle" /\ TaskOK(NoTask, rels, rows)
<1>1. NoTask \in TaskRecords /\ NoTask.pc = "idle" /\ NoTask.op = "none" /\ NoTask.known = {}
  BY DEF NoTask, Task, TaskRecords
<1> QED
  BY <1>1 DEF TaskOK, Lists, Collections

\* A request begins with nothing read.
LEMMA TaskBegins ==
  ASSUME NEW rels, NEW rows, NEW pc \in {"account", "collection"},
         NEW op \in {"mute", "unmute", "block", "unblock"} \cup Lists \cup Collections,
         NEW a \in Callers, NEW x \in Targets \cup {"none"},
         op \in {"mute", "unmute", "block", "unblock"} => x \in Targets,
         pc = "collection" <=> op \in Collections
  PROVE  /\ Task(pc, op, a, x) \in TaskRecords /\ Task(pc, op, a, x).pc = pc
         /\ TaskOK(Task(pc, op, a, x), rels, rows)
<1> DEFINE c == Task(pc, op, a, x)
<1>1. /\ c \in TaskRecords /\ c.pc = pc /\ c.op = op /\ c.account = a /\ c.target = x
      /\ c.known = {} /\ c.listed = {} /\ c.left = {}
  BY DEF Task, TaskRecords
<1> HIDE DEF c
<1>2. TaskOK(c, rels, rows)
  BY <1>1 DEF TaskOK, Lists, Collections
<1> QED
  BY <1>1, <1>2 DEF c

\* There is nothing yet.
LEMMA LocalRelationsInvInit == LocalRelationsInit => LocalRelationsInv
<1> SUFFICES ASSUME LocalRelationsInit PROVE LocalRelationsInv
  OBVIOUS
<1>1. tasks \in [Tasks -> TaskRecords] /\ \A t \in Tasks : TaskOK(tasks[t], relations, made)
  BY NoTaskOK DEF LocalRelationsInit
<1>2. IdsInHand
  BY NoTaskOK DEF LocalRelationsInit, IdsInHand
<1>3. RowsOK
  BY MaxRelationAssumption DEF LocalRelationsInit, RowsOK, OneRelationEach
<1> QED
  BY <1>1, <1>2, <1>3 DEF LocalRelationsInv, LocalRelationsInit

\* What a request carries stays true: rows that go make no list wrong, and rows
\* that come are none that it knew.
LEMMA TaskKept ==
  ASSUME NEW c, NEW rels, NEW rows, NEW rels2, NEW rows2, TaskOK(c, rels, rows),
         rows \subseteq rows2, \A r \in rels2 : r \in rels \/ r \notin rows
  PROVE  TaskOK(c, rels2, rows2)
<1>1. ReadOK(c, rels) => ReadOK(c, rels2)
  BY DEF TaskOK, ReadOK
<1> QED
  BY <1>1 DEF TaskOK

\* A step of one request, given that the rows are in order.
LEMMA TaskGoesOn ==
  ASSUME LocalRelationsInv, NEW t \in Tasks, NEW next \in TaskRecords,
         tasks' = [tasks EXCEPT ![t] = next], TaskOK(next, relations', made'),
         made \subseteq made', \A r \in relations' : r \in relations \/ r \notin made
  PROVE  /\ tasks' \in [Tasks -> TaskRecords] /\ tasks'[t] = next
         /\ \A u \in Tasks \ {t} : tasks'[u] = tasks[u]
         /\ \A u \in Tasks : TaskOK(tasks'[u], relations', made')
<1>1. /\ tasks' \in [Tasks -> TaskRecords] /\ tasks'[t] = next
      /\ \A u \in Tasks \ {t} : tasks'[u] = tasks[u]
  BY DEF LocalRelationsInv
<1>2. ASSUME NEW u \in Tasks, u # t PROVE TaskOK(tasks'[u], relations', made')
  <2>1. TaskOK(tasks[u], relations, made)
    BY DEF LocalRelationsInv
  <2>2. TaskOK(tasks[u], relations', made')
    BY <2>1, TaskKept
  <2> QED
    BY <1>1, <1>2, <2>2
<1> QED
  BY <1>1, <1>2

\* A request that reads, or ends.
LEMMA TaskReads ==
  ASSUME LocalRelationsInv, NEW t \in Tasks, NEW next \in TaskRecords, next.pc # "create",
         tasks' = [tasks EXCEPT ![t] = next], TaskOK(next, relations, made),
         UNCHANGED <<visible, relations, made, nextRelation>>
  PROVE  LocalRelationsInv'
<1>1. TaskOK(next, relations', made')
  OBVIOUS
<1>2. /\ tasks' \in [Tasks -> TaskRecords] /\ tasks'[t] = next
      /\ \A u \in Tasks \ {t} : tasks'[u] = tasks[u]
      /\ \A u \in Tasks : TaskOK(tasks'[u], relations', made')
  BY <1>1, TaskGoesOn
<1>3. IdsInHand'
  BY <1>2 DEF LocalRelationsInv, IdsInHand
<1>4. RowsOK' /\ visible' \subseteq Members
  BY DEF LocalRelationsInv, RowsOK, OneRelationEach
<1> QED
  BY <1>2, <1>3, <1>4 DEF LocalRelationsInv

\* The request of a client begins.
LEMMA RouteStep ==
  ASSUME LocalRelationsInv, NEW t \in Tasks,
         NEW op \in {"mute", "unmute", "block", "unblock"} \cup Lists,
         NEW targets \in SUBSET (Targets \cup {"none"}),
         op \in {"mute", "unmute", "block", "unblock"} => targets \subseteq Targets,
         validate_relation_request(t, op, targets)
  PROVE  LocalRelationsInv'
<1>1. PICK a \in Callers, x \in targets : tasks' = [tasks EXCEPT ![t] = Task("account", op, a, x)]
  BY DEF validate_relation_request
<1>2. UNCHANGED <<visible, relations, made, nextRelation>>
  BY DEF validate_relation_request
<1>3. op \notin Collections
  BY DEF Lists, Collections
<1>4. /\ Task("account", op, a, x) \in TaskRecords /\ Task("account", op, a, x).pc = "account"
      /\ TaskOK(Task("account", op, a, x), relations, made)
  BY <1>3, TaskBegins
<1> QED
  BY <1>1, <1>2, <1>4, TaskReads

\* The request of another server begins.
LEMMA CollectionRouteStep ==
  ASSUME LocalRelationsInv, NEW t \in Tasks, NEW op \in Collections,
         find_account_id_by_nanoid(t, op)
  PROVE  LocalRelationsInv'
<1>1. PICK a \in Callers : tasks' = [tasks EXCEPT ![t] = Task("collection", op, a, "none")]
  BY DEF find_account_id_by_nanoid
<1>2. UNCHANGED <<visible, relations, made, nextRelation>>
  BY DEF find_account_id_by_nanoid
<1>3. op \notin {"mute", "unmute", "block", "unblock"}
  BY DEF Collections
<1>4. /\ Task("collection", op, a, "none") \in TaskRecords
      /\ Task("collection", op, a, "none").pc = "collection"
      /\ TaskOK(Task("collection", op, a, "none"), relations, made)
  BY <1>3, TaskBegins
<1> QED
  BY <1>1, <1>2, <1>4, TaskReads

\* A request that ends.
LEMMA TaskEnds ==
  ASSUME LocalRelationsInv, NEW t \in Tasks, Ends(t),
         UNCHANGED <<visible, relations, made, nextRelation>>
  PROVE  LocalRelationsInv'
BY NoTaskOK, TaskReads DEF Ends

\* Only the place of the request changes.
SameButPlace(next, c) ==
  /\ next.op = c.op /\ next.account = c.account /\ next.target = c.target
  /\ next.known = c.known /\ next.listed = c.listed /\ next.left = c.left

\* The place of a request that has read nothing yet.
LEMMA PlaceChanged ==
  ASSUME NEW c, NEW rels, NEW rows, TaskOK(c, rels, rows), c.pc # "idle",
         NEW next, SameButPlace(next, c),
         next.pc \in {"list", "target", "mute", "unmute", "block", "unblock"},
         next.pc = "list" => c.op \in Lists /\ c.listed = {} /\ c.left = {},
         next.pc = "target" => c.op \in {"mute", "unmute", "block", "unblock"},
         next.pc \in {"mute", "unmute", "block", "unblock"} => c.op = next.pc,
         next.pc \in {"mute", "block"} => c.account # c.target
  PROVE  TaskOK(next, rels, rows)
<1>1. c.account \in Callers
  BY NoTaskOK DEF TaskOK
<1> QED
  BY <1>1 DEF TaskOK, SameButPlace

\* The account is found and the caller may act for it.
LEMMA PermissionStep ==
  ASSUME LocalRelationsInv, NEW t \in Tasks, check_permission(t)
  PROVE  LocalRelationsInv'
<1> DEFINE pc == IF tasks[t].op \in Lists THEN "list" ELSE "target"
           next == [tasks[t] EXCEPT !.pc = pc]
<1>1. /\ tasks' = [tasks EXCEPT ![t] = next] /\ tasks[t].pc = "account"
      /\ UNCHANGED <<visible, relations, made, nextRelation>>
  BY DEF check_permission, Advance
<1>2. tasks[t] \in TaskRecords /\ TaskOK(tasks[t], relations, made)
  BY DEF LocalRelationsInv
<1>3. /\ tasks[t].op \notin Collections /\ tasks[t].listed = {} /\ tasks[t].left = {}
      /\ tasks[t].op # "none"
  BY <1>1, <1>2 DEF TaskOK
<1>4. /\ pc \in {"list", "target"} /\ (pc = "list" => tasks[t].op \in Lists)
      /\ pc = "target" => tasks[t].op \in {"mute", "unmute", "block", "unblock"}
  BY <1>2, <1>3 DEF TaskRecords
<1> HIDE DEF pc
<1>5. next \in TaskRecords /\ next.pc = pc /\ SameButPlace(next, tasks[t])
  BY <1>2, <1>4 DEF TaskRecords, SameButPlace
<1> HIDE DEF next
<1>6. TaskOK(next, relations, made)
  BY <1>1, <1>2, <1>3, <1>4, <1>5, PlaceChanged
<1>7. next.pc # "create"
  BY <1>4, <1>5
<1> QED
  BY <1>1, <1>5, <1>6, <1>7, TaskReads

\* The target is found, and is not the account itself.
LEMMA ResolveStep ==
  ASSUME LocalRelationsInv, NEW t \in Tasks, NEW hit \in BOOLEAN, ResolveTarget(t, hit)
  PROVE  LocalRelationsInv'
<1>1. tasks[t].pc = "target" /\ UNCHANGED <<visible, relations, made, nextRelation>>
  BY DEF ResolveTarget
<1>2. CASE Ends(t)
  BY <1>1, <1>2, TaskEnds
<1>3. CASE ~Yourself(tasks[t]) /\ Advance(t, tasks[t].op)
  <2> DEFINE next == [tasks[t] EXCEPT !.pc = tasks[t].op]
  <2>1. tasks' = [tasks EXCEPT ![t] = next]
    BY <1>3 DEF Advance
  <2>2. tasks[t] \in TaskRecords /\ TaskOK(tasks[t], relations, made)
    BY DEF LocalRelationsInv
  <2>3. /\ tasks[t].op \in {"mute", "unmute", "block", "unblock"}
        /\ tasks[t].op \in {"mute", "block"} => tasks[t].account # tasks[t].target
    BY <1>1, <1>3, <2>2 DEF TaskOK, Yourself
  <2>4. next \in TaskRecords /\ next.pc = tasks[t].op /\ SameButPlace(next, tasks[t])
    BY <2>2, <2>3 DEF TaskRecords, SameButPlace
  <2> HIDE DEF next
  <2>5. TaskOK(next, relations, made)
    BY <1>1, <2>2, <2>3, <2>4, PlaceChanged
  <2>6. next.pc # "create"
    BY <2>3, <2>4
  <2> QED
    BY <1>1, <2>1, <2>4, <2>5, <2>6, TaskReads
<1> QED
  BY <1>2, <1>3 DEF ResolveTarget

\* A list reads its rows, and with them remembers all that had been made.
LEMMA ListRead ==
  ASSUME LocalRelationsInv, NEW t \in Tasks, NEW c \in TaskRecords,
         c.op \in Lists \cup Collections, c.op = tasks[t].op, c.account = tasks[t].account,
         c.known = made,
         \/ c.left = Listed(c.op, c.account) /\ c.listed = {}
         \/ c.left = {} /\ c.listed = Listed(c.op, c.account)
  PROVE  ReadOK(c, relations)
<1>1. c.left \cup c.listed = {r \in relations : InList(c.op, c.account, r)}
  BY ListedIsFilter
<1>2. relations \subseteq made /\ \A r \in made : r.kind # "follow" => r.approved
  BY DEF LocalRelationsInv, RowsOK, RowOK
<1>3. \A r \in relations : InList(c.op, c.account, r) => r.approved
  BY <1>2 DEF InList, Lists, Collections, Followings
<1> QED
  BY <1>1, <1>2, <1>3 DEF ReadOK

\* The rows of an account, as records.
LEMMA ListedRecords ==
  ASSUME LocalRelationsInv, NEW op \in Lists \cup Collections, NEW a
  PROVE  Listed(op, a) \in SUBSET RelationRecords /\ made \in SUBSET RelationRecords
BY ListedIsFilter DEF LocalRelationsInv, RowsOK

\* A list of a client reads its rows.
LEMMA ReadListStep ==
  ASSUME LocalRelationsInv, NEW t \in Tasks, ReadList(t)
  PROVE  LocalRelationsInv'
<1> DEFINE rows == Listed(tasks[t].op, tasks[t].account)
           next == [tasks[t] EXCEPT !.pc = "lookup", !.known = made, !.left = rows]
<1>1. /\ tasks' = [tasks EXCEPT ![t] = next] /\ tasks[t].pc = "list"
      /\ UNCHANGED <<visible, relations, made, nextRelation>>
  BY DEF ReadList
<1>2. /\ tasks[t] \in TaskRecords /\ TaskOK(tasks[t], relations, made) /\ tasks[t].op \in Lists
      /\ tasks[t].listed = {} /\ tasks[t].account \in Callers
  BY <1>1, NoTaskOK DEF LocalRelationsInv, TaskOK
<1>3. rows \in SUBSET RelationRecords /\ made \in SUBSET RelationRecords
  BY <1>2, ListedRecords
<1>4. next \in TaskRecords
  BY <1>2, <1>3 DEF TaskRecords
<1>5. /\ next.pc = "lookup" /\ next.op = tasks[t].op /\ next.account = tasks[t].account
      /\ next.known = made /\ next.left = Listed(next.op, next.account) /\ next.listed = {}
  BY <1>2 DEF TaskRecords
<1> HIDE DEF next
<1>6. ReadOK(next, relations)
  BY <1>2, <1>4, <1>5, ListRead
<1>7. TaskOK(next, relations, made)
  BY <1>2, <1>5, <1>6 DEF TaskOK, Lists
<1> QED
  BY <1>1, <1>4, <1>5, <1>7, TaskReads

\* A collection is counted.
LEMMA CountedStep ==
  ASSUME LocalRelationsInv, NEW t \in Tasks, tasks[t].pc = "collection", Counted(t)
  PROVE  LocalRelationsInv'
<1>1. UNCHANGED <<visible, relations, made, nextRelation>>
  BY DEF Counted
<1>2. CASE ~find_by_id(tasks[t].account)
  BY <1>1, <1>2, TaskEnds DEF Counted, Ends
<1>3. CASE find_by_id(tasks[t].account)
  <2> DEFINE rows == Listed(tasks[t].op, tasks[t].account)
             next == [tasks[t] EXCEPT !.pc = "done", !.known = made, !.listed = rows]
  <2>1. tasks' = [tasks EXCEPT ![t] = next]
    BY <1>3 DEF Counted
  <2>2. /\ tasks[t] \in TaskRecords /\ TaskOK(tasks[t], relations, made)
        /\ tasks[t].op \in Collections /\ tasks[t].left = {} /\ tasks[t].account \in Callers
    BY NoTaskOK DEF LocalRelationsInv, TaskOK
  <2>3. rows \in SUBSET RelationRecords /\ made \in SUBSET RelationRecords
    BY <2>2, ListedRecords
  <2>4. next \in TaskRecords
    BY <2>2, <2>3 DEF TaskRecords
  <2>5. /\ next.pc = "done" /\ next.op = tasks[t].op /\ next.account = tasks[t].account
        /\ next.known = made /\ next.listed = Listed(next.op, next.account) /\ next.left = {}
    BY <2>2 DEF TaskRecords
  <2> HIDE DEF next
  <2>6. ReadOK(next, relations)
    BY <2>2, <2>4, <2>5, ListRead
  <2>7. TaskOK(next, relations, made)
    BY <2>2, <2>5, <2>6 DEF TaskOK, Collections
  <2> QED
    BY <1>1, <2>1, <2>4, <2>5, <2>7, TaskReads
<1> QED
  BY <1>2, <1>3

\* A row is looked up and goes from those left to those listed; or the list ends.
LEMMA LookUpStep ==
  ASSUME LocalRelationsInv, NEW t \in Tasks, LookUp(t)
  PROVE  LocalRelationsInv'
<1>1. tasks[t].pc = "lookup" /\ UNCHANGED <<visible, relations, made, nextRelation>>
  BY DEF LookUp
<1>2. /\ tasks[t] \in TaskRecords /\ TaskOK(tasks[t], relations, made) /\ tasks[t].op \in Lists
      /\ tasks[t].account \in Callers /\ ReadOK(tasks[t], relations)
  BY <1>1, NoTaskOK DEF LocalRelationsInv, TaskOK
<1>3. CASE Ends(t)
  BY <1>1, <1>3, TaskEnds
<1>4. CASE tasks[t].left = {} /\ Advance(t, "done")
  <2> DEFINE next == [tasks[t] EXCEPT !.pc = "done"]
  <2>1. tasks' = [tasks EXCEPT ![t] = next]
    BY <1>4 DEF Advance
  <2>2. /\ next \in TaskRecords /\ next.pc = "done" /\ next.op = tasks[t].op
        /\ next.account = tasks[t].account /\ next.known = tasks[t].known
        /\ next.listed = tasks[t].listed /\ next.left = tasks[t].left
    BY <1>2 DEF TaskRecords
  <2> HIDE DEF next
  <2>3. ReadOK(next, relations)
    BY <1>2, <2>2 DEF ReadOK
  <2>4. TaskOK(next, relations, made)
    BY <1>2, <1>4, <2>2, <2>3 DEF TaskOK, Lists
  <2> QED
    BY <1>1, <2>1, <2>2, <2>4, TaskReads
<1>5. ASSUME NEW r \in tasks[t].left,
             tasks' = [tasks EXCEPT ![t].left = @ \ {r}, ![t].listed = @ \cup {r}]
      PROVE  LocalRelationsInv'
  <2> DEFINE next == [tasks[t] EXCEPT !.left = tasks[t].left \ {r},
                                      !.listed = tasks[t].listed \cup {r}]
  <2>1. tasks' = [tasks EXCEPT ![t] = next]
    BY <1>5
  <2>2. /\ tasks[t].left \ {r} \in SUBSET RelationRecords
        /\ tasks[t].listed \cup {r} \in SUBSET RelationRecords
    BY <1>2 DEF TaskRecords
  <2>3. next \in TaskRecords
    BY <1>2, <2>2 DEF TaskRecords
  <2>4. /\ next.pc = "lookup" /\ next.op = tasks[t].op /\ next.account = tasks[t].account
        /\ next.known = tasks[t].known /\ next.listed = tasks[t].listed \cup {r}
        /\ next.left = tasks[t].left \ {r}
    BY <1>1, <1>2 DEF TaskRecords
  <2> HIDE DEF next
  <2>5. ReadOK(next, relations)
    BY <1>2, <2>4 DEF ReadOK
  <2>6. TaskOK(next, relations, made)
    BY <1>2, <2>4, <2>5 DEF TaskOK, Lists
  <2> QED
    BY <1>1, <2>1, <2>3, <2>4, <2>6, TaskReads
<1> QED
  BY <1>3, <1>4, <1>5 DEF LookUp, LookedUp

\* A row whose id is new and whose pair has none yet can be inserted.
LEMMA RowAdded ==
  ASSUME RowsOK, NEW row \in RelationRecords, RowOK(row), row.id < nextRelation',
         \A r \in made : r.id # row.id,
         \A r \in relations : ~(r.kind = row.kind /\ r.source = row.source
                                /\ r.destination = row.destination),
         relations' = relations \cup {row}, made' = made \cup {row},
         nextRelation' \in {nextRelation, nextRelation + 1}, nextRelation' \in 1 .. (MaxRelation + 1)
  PROVE  RowsOK'
<1>1. nextRelation \in Nat /\ nextRelation <= nextRelation' /\ nextRelation' \in Nat
  BY MaxRelationAssumption DEF RowsOK
<1>2. relations' \subseteq made' /\ made' \subseteq RelationRecords
  BY DEF RowsOK
<1>3. \A r \in made : r.id \in Nat
  BY DEF RowsOK, RelationRecords
<1>4. \A r \in made' : RowOK(r) /\ r.id < nextRelation'
  BY <1>1, <1>3 DEF RowsOK
<1>5. \A r, s \in made' : r.id = s.id => r = s
  BY DEF RowsOK
<1>6. OneRelationEach'
  BY DEF RowsOK, RowOK, OneRelationEach
<1> QED
  BY <1>2, <1>4, <1>5, <1>6 DEF RowsOK

\* Rows may go, and ids be drawn.
LEMMA RowsGone ==
  ASSUME RowsOK, relations' \subseteq relations, UNCHANGED made,
         nextRelation' \in {nextRelation, nextRelation + 1}, nextRelation' \in 1 .. (MaxRelation + 1)
  PROVE  RowsOK'
<1>1. nextRelation \in Nat /\ nextRelation <= nextRelation' /\ nextRelation' \in Nat
  BY MaxRelationAssumption DEF RowsOK
<1>2. \A r \in made : r.id \in Nat
  BY DEF RowsOK, RelationRecords
<1>3. \A r \in made' : RowOK(r) /\ r.id < nextRelation'
  BY <1>1, <1>2 DEF RowsOK
<1>4. OneRelationEach'
  BY DEF RowsOK, OneRelationEach
<1> QED
  BY <1>3, <1>4 DEF RowsOK

\* One request goes on, and no row takes an id that another has in hand.
LEMMA HandsKept ==
  ASSUME LocalRelationsInv, NEW t \in Tasks, tasks'[t].pc # "create",
         \A u \in Tasks \ {t} : tasks'[u] = tasks[u],
         nextRelation' \in {nextRelation, nextRelation + 1},
         \A r \in made' : r \in made \/ \A u \in Tasks \ {t} :
           tasks[u].pc = "create" => r.id # tasks[u].id
  PROVE  IdsInHand'
<1>1. nextRelation \in Nat
  BY MaxRelationAssumption DEF LocalRelationsInv, RowsOK
<1>2. ASSUME NEW u \in Tasks, tasks'[u].pc = "create"
      PROVE  /\ tasks'[u].id < nextRelation' /\ tasks'[u].id >= 1
             /\ \A r \in made' : r.id # tasks'[u].id
             /\ \A v \in Tasks : tasks'[v].pc = "create" /\ tasks'[v].id = tasks'[u].id => v = u
  <2>1. u # t /\ tasks'[u] = tasks[u] /\ tasks[u].pc = "create" /\ tasks[u].id \in Nat
    BY <1>2 DEF LocalRelationsInv, TaskRecords
  <2>2. /\ tasks[u].id < nextRelation /\ tasks[u].id >= 1
        /\ \A r \in made : r.id # tasks[u].id
        /\ \A v \in Tasks : tasks[v].pc = "create" /\ tasks[v].id = tasks[u].id => v = u
    BY <2>1 DEF LocalRelationsInv, IdsInHand
  <2> QED
    BY <1>1, <2>1, <2>2
<1> QED
  BY <1>2 DEF IdsInHand

\* A request that writes and is done: the rows, and the others, are in order.
LEMMA TaskWrites ==
  ASSUME LocalRelationsInv, NEW t \in Tasks, NEW next \in TaskRecords, next.pc # "create",
         tasks' = [tasks EXCEPT ![t] = next], TaskOK(next, relations', made'),
         RowsOK', made \subseteq made', \A r \in relations' : r \in relations \/ r \notin made,
         nextRelation' \in {nextRelation, nextRelation + 1}, UNCHANGED visible,
         \A r \in made' : r \in made \/ \A u \in Tasks \ {t} :
           tasks[u].pc = "create" => r.id # tasks[u].id
  PROVE  LocalRelationsInv'
<1>1. /\ tasks' \in [Tasks -> TaskRecords] /\ tasks'[t] = next
      /\ \A u \in Tasks \ {t} : tasks'[u] = tasks[u]
      /\ \A u \in Tasks : TaskOK(tasks'[u], relations', made')
  BY TaskGoesOn
<1>2. IdsInHand'
  BY <1>1, HandsKept
<1> QED
  BY <1>1, <1>2 DEF LocalRelationsInv

\* A mute is inserted unless the pair has one.
LEMMA MuteStep ==
  ASSUME LocalRelationsInv, NEW t \in Tasks, mute_account(t)
  PROVE  LocalRelationsInv'
<1> DEFINE row == Mute(nextRelation, tasks[t].account, tasks[t].target)
           next == [tasks[t] EXCEPT !.pc = "done", !.id = nextRelation]
<1>1. /\ tasks[t].pc = "mute" /\ nextRelation <= MaxRelation /\ nextRelation' = nextRelation + 1
      /\ tasks' = [tasks EXCEPT ![t] = next] /\ UNCHANGED visible
  BY DEF mute_account
<1>2. /\ tasks[t] \in TaskRecords /\ TaskOK(tasks[t], relations, made) /\ RowsOK
      /\ nextRelation \in Nat /\ nextRelation >= 1 /\ nextRelation' \in 1 .. (MaxRelation + 1)
  BY <1>1, MaxRelationAssumption DEF LocalRelationsInv, RowsOK
<1>3. /\ tasks[t].op = "mute" /\ tasks[t].account \in Callers /\ tasks[t].target \in Targets
      /\ tasks[t].account # tasks[t].target /\ tasks[t].account \in Members
  BY <1>1, <1>2, NoTaskOK, CallersAssumption DEF TaskOK
<1>4. /\ row \in RelationRecords /\ row.id = nextRelation /\ row.kind = "mute"
      /\ row.source = tasks[t].account /\ row.destination = tasks[t].target /\ row.approved
  BY <1>2, <1>3 DEF Mute, Relation, RelationRecords, Kinds, Targets
<1>5. /\ next \in TaskRecords /\ next.pc = "done" /\ next.op = "mute" /\ next.id = nextRelation
      /\ next.account = tasks[t].account /\ next.target = tasks[t].target
      /\ next.known = tasks[t].known
  BY <1>2, <1>3 DEF TaskRecords
<1>6. /\ MutesInConflict(tasks[t]) = {} => relations' = relations \cup {row} /\ made' = made \cup {row}
      /\ MutesInConflict(tasks[t]) # {} => relations' = relations /\ made' = made
  BY DEF mute_account
<1> HIDE DEF row, next
<1>7. RowOK(row)
  BY <1>2, <1>3, <1>4 DEF RowOK
<1>8. \A r \in made : r.id # row.id /\ r.id < nextRelation /\ r.id \in Nat
  BY <1>2, <1>4 DEF RowsOK, RelationRecords
<1>9. CASE MutesInConflict(tasks[t]) = {}
  <2>1. row.id < nextRelation' /\ row \notin made
    BY <1>1, <1>2, <1>4, <1>8
  <2>2. \A r \in relations : ~(r.kind = row.kind /\ r.source = row.source
                               /\ r.destination = row.destination)
    BY <1>4, <1>9 DEF MutesInConflict, SamePair
  <2>3. RowsOK'
    BY <1>1, <1>2, <1>4, <1>6, <1>7, <1>8, <1>9, <2>1, <2>2, RowAdded
  <2>4. row \in made' /\ row.id <= next.id
    BY <1>2, <1>4, <1>5, <1>6, <1>9
  <2>5. TaskOK(next, relations', made')
    BY <1>2, <1>3, <1>4, <1>5, <1>6, <1>9, <2>4 DEF TaskOK, Lists, Collections
  <2>6. \A u \in Tasks \ {t} : tasks[u].pc = "create" => row.id # tasks[u].id
    BY <1>2, <1>4 DEF LocalRelationsInv, IdsInHand, TaskRecords
  <2> QED
    BY <1>1, <1>5, <1>6, <1>9, <2>1, <2>3, <2>5, <2>6, TaskWrites
<1>10. CASE MutesInConflict(tasks[t]) # {}
  <2>1. PICK r \in relations : /\ r.kind = "mute" /\ r.source = tasks[t].account
                               /\ r.destination = tasks[t].target
    BY <1>10 DEF MutesInConflict, SamePair
  <2>2. r \in made' /\ r.id <= next.id
    BY <1>2, <1>5, <1>6, <1>8, <1>10, <2>1 DEF RowsOK
  <2>3. TaskOK(next, relations', made')
    BY <1>2, <1>3, <1>5, <1>6, <1>10, <2>1, <2>2 DEF TaskOK, Lists, Collections
  <2>4. RowsOK'
    BY <1>1, <1>2, <1>6, <1>10, RowsGone
  <2> QED
    BY <1>1, <1>5, <1>6, <1>10, <2>3, <2>4, TaskWrites
<1> QED
  BY <1>9, <1>10

\* Rows are deleted, and the request is over.
LEMMA DeletedStep ==
  ASSUME LocalRelationsInv, NEW t \in Tasks, Ends(t), relations' \subseteq relations,
         UNCHANGED <<visible, made, nextRelation>>
  PROVE  LocalRelationsInv'
<1>1. RowsOK'
  BY RowsGone DEF LocalRelationsInv, RowsOK
<1>2. NoTask \in TaskRecords /\ NoTask.pc # "create" /\ TaskOK(NoTask, relations', made')
  BY NoTaskOK
<1> QED
  BY <1>1, <1>2, TaskWrites DEF Ends

\* The id of a block is drawn, and the pair seems to have none.
LEMMA BlockStep ==
  ASSUME LocalRelationsInv, NEW t \in Tasks, block_account(t)
  PROVE  LocalRelationsInv'
<1>1. /\ tasks[t].pc = "block" /\ nextRelation <= MaxRelation /\ nextRelation' = nextRelation + 1
      /\ UNCHANGED <<visible, relations, made>>
  BY DEF block_account
<1>2. /\ tasks[t] \in TaskRecords /\ TaskOK(tasks[t], relations, made) /\ RowsOK
      /\ nextRelation \in Nat /\ nextRelation >= 1 /\ nextRelation' \in 1 .. (MaxRelation + 1)
  BY <1>1, MaxRelationAssumption DEF LocalRelationsInv, RowsOK
<1>3. RowsOK'
  BY <1>1, <1>2, RowsGone
<1>4. CASE Ends(t)
  <2>1. NoTask \in TaskRecords /\ NoTask.pc # "create" /\ TaskOK(NoTask, relations', made')
    BY NoTaskOK
  <2> QED
    BY <1>1, <1>3, <1>4, <2>1, TaskWrites DEF Ends
<1>5. CASE tasks' = [tasks EXCEPT ![t].pc = "create", ![t].id = nextRelation]
  <2> DEFINE next == [tasks[t] EXCEPT !.pc = "create", !.id = nextRelation]
  <2>1. tasks' = [tasks EXCEPT ![t] = next]
    BY <1>5
  <2>2. /\ next \in TaskRecords /\ next.pc = "create" /\ next.op = tasks[t].op
        /\ next.id = nextRelation /\ next.account = tasks[t].account
        /\ next.target = tasks[t].target /\ next.known = tasks[t].known
    BY <1>2 DEF TaskRecords
  <2> HIDE DEF next
  <2>3. tasks[t].account \in Callers
    BY <1>1, <1>2, NoTaskOK DEF TaskOK
  <2>4. TaskOK(next, relations', made')
    BY <1>1, <1>2, <2>2, <2>3 DEF TaskOK
  <2>5. /\ tasks' \in [Tasks -> TaskRecords] /\ tasks'[t] = next
        /\ \A u \in Tasks \ {t} : tasks'[u] = tasks[u]
        /\ \A u \in Tasks : TaskOK(tasks'[u], relations', made')
    BY <1>1, <2>1, <2>2, <2>4, TaskGoesOn
  <2>6. \A r \in made : r.id \in Nat /\ r.id < nextRelation
    BY <1>2 DEF RowsOK, RelationRecords
  <2>7. \A u \in Tasks : tasks[u].id \in Nat
    BY DEF LocalRelationsInv, TaskRecords
  <2>8. \A u \in Tasks \ {t} : tasks[u].pc = "create" =>
          /\ tasks[u].id < nextRelation /\ tasks[u].id >= 1
          /\ \A r \in made : r.id # tasks[u].id
          /\ \A v \in Tasks : tasks[v].pc = "create" /\ tasks[v].id = tasks[u].id => v = u
    BY DEF LocalRelationsInv, IdsInHand
  <2>9. IdsInHand'
    BY <1>1, <1>2, <2>2, <2>5, <2>6, <2>7, <2>8 DEF IdsInHand
  <2> QED
    BY <1>1, <1>3, <2>5, <2>9 DEF LocalRelationsInv
<1> QED
  BY <1>4, <1>5 DEF block_account

\* The block is inserted unless another request was first.
LEMMA CreateBlockStep ==
  ASSUME LocalRelationsInv, NEW t \in Tasks, CreateBlock(t)
  PROVE  LocalRelationsInv'
<1> DEFINE row == Block(tasks[t].id, tasks[t].account, tasks[t].target)
<1>1. tasks[t].pc = "create" /\ Ends(t) /\ UNCHANGED <<visible, nextRelation>>
  BY DEF CreateBlock
<1>2. CASE BlocksInConflict(tasks[t]) # {}
  <2>1. relations' = relations /\ made' = made
    BY <1>2 DEF CreateBlock
  <2> QED
    BY <1>1, <2>1, DeletedStep
<1>3. CASE BlocksInConflict(tasks[t]) = {}
  <2>1. relations' = relations \cup {row} /\ made' = made \cup {row}
    BY <1>3 DEF CreateBlock
  <2>2. /\ tasks[t] \in TaskRecords /\ TaskOK(tasks[t], relations, made) /\ RowsOK
        /\ nextRelation \in Nat /\ nextRelation \in 1 .. (MaxRelation + 1)
    BY <1>1, MaxRelationAssumption DEF LocalRelationsInv, RowsOK
  <2>3. /\ tasks[t].account \in Callers /\ tasks[t].target \in Targets /\ tasks[t].id \in Nat
        /\ tasks[t].account # tasks[t].target /\ tasks[t].account \in Members
    BY <1>1, <2>2, NoTaskOK, CallersAssumption DEF TaskOK, TaskRecords
  <2>4. /\ row \in RelationRecords /\ row.id = tasks[t].id /\ row.kind = "block"
        /\ row.source = tasks[t].account /\ row.destination = tasks[t].target /\ row.approved
    BY <2>2, <2>3 DEF Block, Relation, RelationRecords, Kinds, Targets
  <2>5. /\ tasks[t].id < nextRelation /\ tasks[t].id >= 1 /\ \A r \in made : r.id # tasks[t].id
        /\ \A u \in Tasks \ {t} : tasks[u].pc = "create" => tasks[u].id # tasks[t].id
    BY <1>1 DEF LocalRelationsInv, IdsInHand
  <2> HIDE DEF row
  <2>6. RowOK(row) /\ row.id < nextRelation' /\ row \notin made
    BY <1>1, <2>3, <2>4, <2>5 DEF RowOK
  <2>7. \A r \in relations : ~(r.kind = row.kind /\ r.source = row.source
                               /\ r.destination = row.destination)
    BY <1>3, <2>4 DEF BlocksInConflict, SamePair
  <2>8. RowsOK'
    BY <1>1, <2>1, <2>2, <2>4, <2>5, <2>6, <2>7, RowAdded
  <2>9. NoTask \in TaskRecords /\ NoTask.pc # "create" /\ TaskOK(NoTask, relations', made')
    BY NoTaskOK
  <2>10. tasks' = [tasks EXCEPT ![t] = NoTask]
    BY <1>1 DEF Ends
  <2>11. /\ made \subseteq made' /\ \A r \in relations' : r \in relations \/ r \notin made
         /\ \A r \in made' : r \in made \/ \A u \in Tasks \ {t} :
              tasks[u].pc = "create" => r.id # tasks[u].id
    BY <2>1, <2>4, <2>5, <2>6
  <2>12. nextRelation' \in {nextRelation, nextRelation + 1}
    BY <1>1
  <2> QED
    BY <1>1, <2>8, <2>9, <2>10, <2>11, <2>12, TaskWrites
<1> QED
  BY <1>2, <1>3

\* The block to delete is found, among those that have been made.
LEMMA UnblockStep ==
  ASSUME LocalRelationsInv, NEW t \in Tasks, unblock_account(t)
  PROVE  LocalRelationsInv'
<1>1. tasks[t].pc = "unblock" /\ UNCHANGED <<visible, relations, made, nextRelation>>
  BY DEF unblock_account
<1>2. CASE Ends(t)
  BY <1>1, <1>2, TaskEnds
<1>3. ASSUME NEW b \in SamePair("block", tasks[t]),
             tasks' = [tasks EXCEPT ![t].pc = "delete", ![t].id = b.id, ![t].known = made]
      PROVE  LocalRelationsInv'
  <2> DEFINE next == [tasks[t] EXCEPT !.pc = "delete", !.id = b.id, !.known = made]
  <2>1. tasks' = [tasks EXCEPT ![t] = next]
    BY <1>3
  <2>2. tasks[t] \in TaskRecords /\ TaskOK(tasks[t], relations, made) /\ RowsOK
    BY DEF LocalRelationsInv
  <2>3. b \in made /\ b.id \in Nat /\ made \in SUBSET RelationRecords
    BY <2>2 DEF SamePair, RowsOK, RelationRecords
  <2>4. /\ next \in TaskRecords /\ next.pc = "delete" /\ next.op = tasks[t].op
        /\ next.id = b.id /\ next.account = tasks[t].account
        /\ next.target = tasks[t].target /\ next.known = made
    BY <2>2, <2>3 DEF TaskRecords
  <2> HIDE DEF next
  <2>5. tasks[t].account \in Callers /\ tasks[t].op = "unblock" /\ tasks[t].target \in Targets
    BY <1>1, <2>2, NoTaskOK DEF TaskOK
  <2>6. TaskOK(next, relations, made)
    BY <2>3, <2>4, <2>5 DEF TaskOK
  <2> QED
    BY <1>1, <2>1, <2>4, <2>6, TaskReads
<1> QED
  BY <1>2, <1>3 DEF unblock_account

\* No request takes a step.
LEMMA RequestsRest ==
  ASSUME LocalRelationsInv, UNCHANGED tasks, made \subseteq made',
         \A r \in relations' : r \in relations \/ r \notin made
  PROVE  tasks' \in [Tasks -> TaskRecords] /\ \A t \in Tasks : TaskOK(tasks'[t], relations', made')
<1>1. ASSUME NEW t \in Tasks PROVE TaskOK(tasks[t], relations', made')
  <2>1. TaskOK(tasks[t], relations, made)
    BY DEF LocalRelationsInv
  <2> QED
    BY <2>1, TaskKept
<1> QED
  BY <1>1 DEF LocalRelationsInv

\* An account is hidden, with or without its follows, or shown again.
LEMMA ModerationStep ==
  ASSUME LocalRelationsInv, Moderation
  PROVE  LocalRelationsInv'
<1>1. UNCHANGED <<made, nextRelation, tasks>> /\ visible' \subseteq Members
  BY DEF Moderation, Shown, Hidden, LocalRelationsInv
<1>2. relations' \subseteq relations
  BY DEF Moderation, Shown, Hidden
<1>3. RowsOK'
  BY <1>1, <1>2, RowsGone DEF LocalRelationsInv, RowsOK
<1>4. tasks' \in [Tasks -> TaskRecords] /\ \A t \in Tasks : TaskOK(tasks'[t], relations', made')
  BY <1>1, <1>2, RequestsRest
<1>5. IdsInHand'
  BY <1>1 DEF LocalRelationsInv, IdsInHand
<1> QED
  BY <1>1, <1>3, <1>4, <1>5 DEF LocalRelationsInv

\* A follow comes from elsewhere.
LEMMA FollowedStep ==
  ASSUME LocalRelationsInv, NEW source \in Targets, NEW destination \in Targets,
         NEW approved \in BOOLEAN, source # destination,
         {source, destination} \cap Members # {}, Followed(source, destination, approved)
  PROVE  LocalRelationsInv'
<1> DEFINE row == Relation("follow", nextRelation, source, destination, approved)
<1>1. /\ nextRelation <= MaxRelation /\ nextRelation' = nextRelation + 1
      /\ UNCHANGED <<visible, tasks>>
      /\ relations' = relations \cup {row} /\ made' = made \cup {row}
  BY DEF Followed
<1>2. RowsOK /\ nextRelation \in Nat /\ nextRelation >= 1 /\ nextRelation' \in 1 .. (MaxRelation + 1)
  BY <1>1, MaxRelationAssumption DEF LocalRelationsInv, RowsOK
<1>3. /\ row \in RelationRecords /\ row.id = nextRelation /\ row.kind = "follow"
      /\ row.source = source /\ row.destination = destination
  BY <1>2 DEF Relation, RelationRecords, Kinds
<1>4. \A r \in relations : ~(r.kind = row.kind /\ r.source = row.source
                             /\ r.destination = row.destination)
  BY <1>3 DEF Followed
<1> HIDE DEF row
<1>5. RowOK(row)
  BY <1>2, <1>3 DEF RowOK
<1>6. \A r \in made : r.id # row.id
  BY <1>2, <1>3 DEF RowsOK, RelationRecords
<1>7. row.id < nextRelation'
  BY <1>1, <1>2, <1>3
<1>8. RowsOK'
  BY <1>1, <1>2, <1>3, <1>4, <1>5, <1>6, <1>7, RowAdded
<1>9. tasks' \in [Tasks -> TaskRecords] /\ \A t \in Tasks : TaskOK(tasks'[t], relations', made')
  <2>1. made \subseteq made' /\ \A r \in relations' : r \in relations \/ r \notin made
    BY <1>1, <1>6
  <2> QED
    BY <1>1, <2>1, RequestsRest
<1>10. \A t \in Tasks : tasks[t].id \in Nat
  BY DEF LocalRelationsInv, TaskRecords
<1>11. IdsInHand'
  BY <1>1, <1>2, <1>3, <1>10 DEF LocalRelationsInv, IdsInHand
<1> QED
  BY <1>1, <1>8, <1>9, <1>11 DEF LocalRelationsInv

\* The steps that the three tables share.
LEMMA UseCaseStepOK ==
  ASSUME LocalRelationsInv, NEW t \in Tasks, UseCaseStep(t)
  PROVE  LocalRelationsInv'
<1>1. CASE Refused(t)
  BY <1>1, TaskEnds DEF Refused
<1> QED
  BY <1>1, PermissionStep, ResolveStep, ReadListStep, LookUpStep DEF UseCaseStep

\* Every step keeps the invariant.
LEMMA LocalRelationsInvStep ==
  LocalRelationsInv /\ [LocalRelationsNext]_relationVars => LocalRelationsInv'
<1> SUFFICES ASSUME LocalRelationsInv, [LocalRelationsNext]_relationVars
             PROVE  LocalRelationsInv'
  OBVIOUS
<1>1. CASE UNCHANGED relationVars
  BY <1>1 DEF relationVars, LocalRelationsInv, RowsOK, OneRelationEach, IdsInHand
<1>2. ASSUME NEW t \in Tasks, mute_route(t) \/ unmute_route(t) \/ block_route(t) \/ unblock_route(t)
      PROVE  LocalRelationsInv'
  <2>1. PICK op \in {"mute", "unmute", "block", "unblock"}, targets \in {Targets, Members} :
          validate_relation_request(t, op, targets)
    BY <1>2 DEF mute_route, unmute_route, block_route, unblock_route
  <2>2. targets \subseteq Targets
    BY DEF Targets
  <2> QED
    BY <2>1, <2>2, RouteStep
<1>3. ASSUME NEW t \in Tasks,
             mutes_route(t) \/ blocks_route(t) \/ following_route(t) \/ followers_route(t)
      PROVE  LocalRelationsInv'
  <2>1. PICK op \in Lists : validate_relation_request(t, op, {"none"})
    BY <1>3 DEF mutes_route, blocks_route, following_route, followers_route, Lists
  <2>2. op \notin {"mute", "unmute", "block", "unblock"}
    BY DEF Lists
  <2> QED
    BY <2>1, <2>2, RouteStep
<1>4. CASE MutesNext
  <2>1. ASSUME NEW t \in Tasks, unmute_account(t) PROVE LocalRelationsInv'
    BY <2>1, DeletedStep DEF unmute_account
  <2> QED
    BY <1>2, <1>3, <1>4, <2>1, UseCaseStepOK, MuteStep, ModerationStep DEF MutesNext
<1>5. CASE BlocksNext
  <2>1. ASSUME NEW t \in Tasks, DeleteBlock(t) PROVE LocalRelationsInv'
    BY <2>1, DeletedStep DEF DeleteBlock
  <2> QED
    BY <1>2, <1>3, <1>5, <2>1, UseCaseStepOK, BlockStep, CreateBlockStep, UnblockStep,
       ModerationStep DEF BlocksNext
<1>6. CASE FollowsNext
  <2>1. ASSUME NEW t \in Tasks, followers_collection_route(t) \/ following_collection_route(t)
        PROVE  LocalRelationsInv'
    BY <2>1, CollectionRouteStep
    DEF followers_collection_route, following_collection_route, Collections
  <2>2. ASSUME NEW t \in Tasks, get_followers_collection(t) \/ get_following_collection(t)
        PROVE  LocalRelationsInv'
    BY <2>2, CountedStep DEF get_followers_collection, get_following_collection
  <2>3. ASSUME NEW a \in Callers, NEW x \in Strangers,
               Followed(x, a, TRUE) \/ \E approved \in BOOLEAN : Followed(a, x, approved)
        PROVE  LocalRelationsInv'
    <3>1. a \in Targets /\ x \in Targets /\ a # x /\ a \in Members
      BY CallersAssumption DEF Targets
    <3> QED
      BY <2>3, <3>1, FollowedStep
  <2> QED
    BY <1>3, <1>6, <2>1, <2>2, <2>3, UseCaseStepOK, ModerationStep DEF FollowsNext
<1> QED
  BY <1>1, <1>4, <1>5, <1>6 DEF LocalRelationsNext

\* However requests interleave with each other and with the hiding of accounts:
\* a pair has one mute and one block, an answered mute was in force, and an
\* answered list is whole.
THEOREM LocalRelationsCorrect == LocalRelationsSpec => []LocalRelationSafety
BY LocalRelationsInvInit, LocalRelationsInvStep, LocalRelationsInvSuffices, PTL
DEF LocalRelationsSpec

\* A block that goes was found by the request that deletes it.
LEMMA BlockGoesIfFound ==
  ASSUME LocalRelationsInv, LocalRelationsNext, NEW b \in relations \ relations', b.kind = "block"
  PROVE  \E t \in Tasks : tasks[t].pc = "delete" /\ b \in tasks[t].known
<1>1. ASSUME NEW t \in Tasks, DeleteBlock(t)
      PROVE  tasks[t].pc = "delete" /\ b \in tasks[t].known
  <2>1. tasks[t].pc = "delete" /\ b.id = tasks[t].id
    BY <1>1 DEF DeleteBlock, DeletedBlocks
  <2>2. PICK found \in tasks[t].known : found.id = tasks[t].id
    BY <2>1 DEF LocalRelationsInv, TaskOK
  <2>3. found \in made /\ b \in made
    BY DEF LocalRelationsInv, TaskOK, RowsOK
  <2> QED
    BY <2>1, <2>2, <2>3 DEF LocalRelationsInv, RowsOK
<1>2. Moderation => FALSE
  BY DEF Moderation, Shown, Hidden
<1>3. ASSUME NEW t \in Tasks, UseCaseStep(t) PROVE FALSE
  BY <1>3 DEF UseCaseStep, check_permission, Refused, ResolveTarget, ReadList, LookUp
<1>4. ~MutesNext
  BY <1>2, <1>3 DEF MutesNext, mute_route, unmute_route, mutes_route, validate_relation_request,
         mute_account, unmute_account, SamePair
<1>5. ~FollowsNext
  BY <1>2, <1>3 DEF FollowsNext, following_route, followers_route, validate_relation_request,
         followers_collection_route, following_collection_route, find_account_id_by_nanoid,
         get_followers_collection, get_following_collection, Counted, Followed
<1>6. BlocksNext => \E t \in Tasks : DeleteBlock(t)
  BY <1>2, <1>3 DEF BlocksNext, block_route, unblock_route, blocks_route,
         validate_relation_request, block_account, CreateBlock, unblock_account
<1> QED
  BY <1>1, <1>4, <1>5, <1>6 DEF LocalRelationsNext

\* An unblock that another unblock and a new block overtook deletes nothing.
THEOREM UnblockDeletesWhatItFoundProved == LocalRelationsSpec => UnblockDeletesWhatItFound
<1>1. LocalRelationsInv /\ [LocalRelationsNext]_relationVars
        => [\A b \in relations \ relations' :
              b.kind = "block" =>
                \E t \in Tasks : tasks[t].pc = "delete" /\ b \in tasks[t].known]_relationVars
  BY BlockGoesIfFound
<1> QED
  BY <1>1, LocalRelationsInvInit, LocalRelationsInvStep, PTL
  DEF LocalRelationsSpec, UnblockDeletesWhatItFound

-----------------------------------------------------------------------------
(* Signing keys.                                                           *)

WorkRecords ==
  [pc : {"idle", "read", "validate", "use"}, op : {"none", "create", "sign", "deliver"},
   account : Locals \cup {"nobody"}, path : Paths, key : Keys,
   password : Passwords \cup {NoPassword}]

\* A key that is there was generated for its own account.
KeyOf(key, a) == \E p \in Passwords : key = generate(a, p)

\* A request signs with the key its account has, and makes one only for an
\* account that has none.
WorkOK ==
  /\ work \in WorkRecords
  /\ work.pc # "idle" => work.account \in Locals /\ work.op # "none"
  /\ work.pc = "idle" => work.op = "none"
  /\ work.pc = "use" => work.password # NoPassword
  /\ work.op = "create" => work.key = NoKey /\ signingKey[work.account] = NoKey
  /\ work.op = "none" => work.key = NoKey
  /\ work.op \in {"sign", "deliver"} => work.key = signingKey[work.account] /\ work.key # NoKey

\* As long as secrets is steady, its password is the only one in the program.
OnePassword ==
  steady =>
    /\ file["secrets"].state # "absent"
    /\ work.path = "secrets"
    /\ work.password \in {NoPassword, file["secrets"].password}
    /\ \A a \in Locals :
         signingKey[a] # NoKey => signingKey[a].encrypted.password = file["secrets"].password

KeyInv ==
  /\ file \in [Paths -> [state : FileStates, password : Passwords]]
  /\ signingKey \in [Locals -> Keys]
  /\ \A a \in Locals : signingKey[a] = NoKey \/ KeyOf(signingKey[a], a)
  /\ WorkOK
  /\ \A s \in signatures :
       s.account \in Locals /\ s.by = s.account /\ signingKey[s.account].public = s.account
  /\ steady \in BOOLEAN
  /\ OnePassword

\* What a generated key is made of.
LEMMA GeneratedKey ==
  ASSUME NEW a \in Locals, NEW p \in Passwords
  PROVE  /\ generate(a, p) \in Keys
         /\ generate(a, p).public = a /\ generate(a, p).encrypted.private = a
         /\ generate(a, p).encrypted.password = p
BY DEF generate, SigningKey, generate_raw, encrypt, Keys

\* The invariant contains what is promised of keys.
LEMMA KeyInvSuffices == KeyInv => KeySafety
<1> SUFFICES ASSUME KeyInv PROVE KeySafety
  OBVIOUS
<1>1. SigningKeysTypeOK
  BY DEF KeyInv, WorkOK, WorkRecords, SigningKeysTypeOK
<1>2. KeysUnderOnePassword
  BY DEF KeyInv, OnePassword, KeysUnderOnePassword
<1>3. SignaturesVerify
  BY DEF KeyInv, SignaturesVerify, verify, get_public_key_info, find_active_by_account_id
<1> QED
  BY <1>1, <1>2, <1>3 DEF KeySafety

\* No request, or one that begins.
LEMMA WorkBegins ==
  /\ NoWork \in WorkRecords /\ NoWork.pc = "idle" /\ NoWork.op = "none" /\ NoWork.key = NoKey
  /\ NoWork.path = "secrets" /\ NoWork.password = NoPassword
  /\ \A op \in {"create", "sign", "deliver"}, a \in Locals :
       /\ Work("read", op, a) \in WorkRecords
       /\ Work("read", op, a).pc = "read" /\ Work("read", op, a).op = op
       /\ Work("read", op, a).account = a /\ Work("read", op, a).key = NoKey
       /\ Work("read", op, a).path = "secrets" /\ Work("read", op, a).password = NoPassword
<1>1. NoKey \in Keys
  BY DEF Keys
<1> QED
  BY <1>1 DEF NoWork, Work, WorkRecords, Paths

\* No key and no request; secrets is steady if it is there.
LEMMA KeyInvInit == SigningKeysInit => KeyInv
<1> SUFFICES ASSUME SigningKeysInit PROVE KeyInv
  OBVIOUS
<1>1. file \in [Paths -> [state : FileStates, password : Passwords]]
  BY DEF SigningKeysInit, FileStates
<1>2. NoKey \in Keys
  BY DEF Keys
<1>3. signingKey \in [Locals -> Keys] /\ \A a \in Locals : signingKey[a] = NoKey
  BY <1>2 DEF SigningKeysInit
<1>4. WorkOK /\ work.path = "secrets" /\ work.password = NoPassword
  BY WorkBegins DEF SigningKeysInit, WorkOK
<1>5. OnePassword /\ steady \in BOOLEAN /\ signatures = {}
  BY <1>3, <1>4 DEF SigningKeysInit, OnePassword
<1> QED
  BY <1>1, <1>3, <1>4, <1>5 DEF KeyInv

\* A step of the request that changes no key.
LEMMA WorkGoesOn ==
  ASSUME KeyInv, Continues(work'), UNCHANGED <<signingKey, signatures>>, WorkOK',
         steady => work'.path = "secrets" /\ work'.password \in {NoPassword, file["secrets"].password}
  PROVE  KeyInv'
<1>1. UNCHANGED <<file, steady, signingKey, signatures>>
  BY DEF Continues
<1>2. OnePassword'
  BY <1>1 DEF KeyInv, OnePassword
<1> QED
  BY <1>1, <1>2 DEF KeyInv

\* A request that ends.
LEMMA WorkEnds ==
  ASSUME KeyInv, work' = NoWork, UNCHANGED <<file, steady, signingKey, signatures>>
  PROVE  KeyInv'
<1>1. WorkOK'
  BY WorkBegins DEF WorkOK
<1> QED
  BY <1>1, WorkBegins, WorkGoesOn DEF Continues

\* The operator changes a file: a steady secrets keeps its password.
LEMMA OperateStep ==
  ASSUME KeyInv, NEW path \in Paths, NEW state \in FileStates, NEW password \in Passwords,
         Operate(path, state, password)
  PROVE  KeyInv'
<1>1. /\ file' = [file EXCEPT ![path] = [state |-> state, password |-> password]]
      /\ UNCHANGED <<signingKey, work, signatures>>
      /\ steady' = (steady /\ (path = "secrets" =>
                                 state # "absent" /\ password = file[path].password))
  BY DEF Operate
<1>2. file' \in [Paths -> [state : FileStates, password : Passwords]]
  BY <1>1 DEF KeyInv
<1>3. ASSUME steady' PROVE /\ file'["secrets"].state # "absent" /\ steady
                           /\ file'["secrets"].password = file["secrets"].password
  <2>1. "secrets" \in Paths /\ steady /\ file["secrets"].state # "absent"
    BY <1>1, <1>3 DEF Paths, KeyInv, OnePassword
  <2>2. CASE path = "secrets"
    BY <1>1, <1>3, <2>1, <2>2 DEF KeyInv
  <2>3. CASE path # "secrets"
    BY <1>1, <1>3, <2>1, <2>3 DEF KeyInv
  <2> QED
    BY <2>2, <2>3
<1>4. OnePassword'
  BY <1>1, <1>3 DEF KeyInv, OnePassword
<1>5. WorkOK'
  BY <1>1 DEF KeyInv, WorkOK
<1> QED
  BY <1>1, <1>2, <1>4, <1>5 DEF KeyInv

\* A request begins.
LEMMA BeginStep ==
  ASSUME KeyInv, NEW a \in Locals, create(a) \/ sign(a) \/ deliver_activity_to_inbox(a)
  PROVE  KeyInv'
<1>1. CASE create(a)
  <2>1. work' = Work("read", "create", a) /\ signingKey[a] = NoKey
    BY <1>1 DEF create, Continues
  <2>2. UNCHANGED <<file, steady, signingKey, signatures>>
    BY <1>1 DEF create, Continues
  <2>3. WorkOK'
    BY <2>1, <2>2, WorkBegins DEF WorkOK
  <2> QED
    BY <2>1, <2>2, <2>3, WorkBegins, WorkGoesOn DEF Continues
<1>2. ASSUME NEW op \in {"sign", "deliver"}, signingKey[a] # NoKey,
             work' = [Work("read", op, a) EXCEPT !.key = signingKey[a]],
             UNCHANGED <<file, steady, signingKey, signatures>>
      PROVE  KeyInv'
  <2>1. signingKey[a] \in Keys /\ Work("read", op, a) \in WorkRecords
    BY WorkBegins DEF KeyInv
  <2>2. work' \in WorkRecords
    BY <1>2, <2>1 DEF WorkRecords
  <2>3. /\ work'.pc = "read" /\ work'.op = op /\ work'.account = a /\ work'.key = signingKey[a]
        /\ work'.path = "secrets" /\ work'.password = NoPassword
    BY <1>2 DEF Work
  <2>4. WorkOK'
    BY <1>2, <2>2, <2>3 DEF WorkOK
  <2> QED
    BY <1>2, <2>3, <2>4, WorkGoesOn DEF Continues
<1>3. CASE sign(a)
  BY <1>2, <1>3 DEF sign, find_active_by_account_id, Continues
<1>4. CASE deliver_activity_to_inbox(a)
  BY <1>2, <1>4 DEF deliver_activity_to_inbox, find_active_by_account_id, Continues
<1> QED
  BY <1>1, <1>3, <1>4

\* The password is read, from secrets unless it is not there.
LEMMA PasswordStep ==
  ASSUME KeyInv, get_password
  PROVE  KeyInv'
<1> DEFINE now == file[work.path]
<1>1. work.pc = "read" /\ UNCHANGED <<file, steady, signingKey, signatures>>
  BY DEF get_password, Continues
<1>2. /\ WorkOK /\ work \in WorkRecords /\ work.path \in Paths /\ now.password \in Passwords
      /\ steady => work.path = "secrets" /\ now.state # "absent"
  BY DEF KeyInv, WorkOK, WorkRecords, OnePassword
<1>3. CASE work' = NoWork
  BY <1>1, <1>3, WorkEnds
<1>4. CASE NextPath(now.state) /\ work.path = "secrets"
  <2>1. work' = [work EXCEPT !.path = "fallback"] /\ ~steady
    BY <1>2, <1>4 DEF get_password, Continues, NextPath
  <2>2. /\ work' \in WorkRecords /\ work'.pc = work.pc /\ work'.op = work.op
        /\ work'.account = work.account /\ work'.key = work.key
    BY <1>2, <2>1 DEF WorkRecords, Paths
  <2>3. WorkOK'
    BY <1>1, <1>2, <2>2 DEF WorkOK
  <2> QED
    BY <1>1, <2>1, <2>3, WorkGoesOn DEF Continues
<1>5. CASE work' = [work EXCEPT !.pc = "validate",
                       !.password = IF now.state = "empty" THEN NoPassword ELSE now.password]
  <2> DEFINE read == IF now.state = "empty" THEN NoPassword ELSE now.password
  <2>1. read \in Passwords \cup {NoPassword} /\ read \in {NoPassword, now.password}
    BY <1>2
  <2>2. work' = [work EXCEPT !.pc = "validate", !.password = read]
    BY <1>5
  <2> HIDE DEF read
  <2>3. /\ work' \in WorkRecords /\ work'.pc = "validate" /\ work'.op = work.op
        /\ work'.account = work.account /\ work'.key = work.key /\ work'.path = work.path
        /\ work'.password = read
    BY <1>2, <2>1, <2>2 DEF WorkRecords
  <2>4. WorkOK'
    BY <1>1, <1>2, <2>3 DEF WorkOK
  <2> QED
    BY <1>1, <1>2, <2>1, <2>3, <2>4, WorkGoesOn DEF Continues
<1> QED
  BY <1>3, <1>4, <1>5 DEF get_password, Continues

\* The permissions are checked, and the password is one.
LEMMA ValidateStepOK ==
  ASSUME KeyInv, validate_file_permissions
  PROVE  KeyInv'
<1>1. work.pc = "validate" /\ UNCHANGED <<file, steady, signingKey, signatures>>
  BY DEF validate_file_permissions, Continues
<1>2. CASE work' = NoWork
  BY <1>1, <1>2, WorkEnds
<1>3. CASE work' = [work EXCEPT !.pc = "use"] /\ work.password # NoPassword
  <2>1. WorkOK /\ work \in WorkRecords
    BY DEF KeyInv, WorkOK
  <2>2. /\ work' \in WorkRecords /\ work'.pc = "use" /\ work'.op = work.op
        /\ work'.account = work.account /\ work'.key = work.key /\ work'.path = work.path
        /\ work'.password = work.password
    BY <1>3, <2>1 DEF WorkRecords
  <2>3. WorkOK'
    BY <1>1, <1>3, <2>1, <2>2 DEF WorkOK
  <2>4. steady => work'.path = "secrets" /\ work'.password \in {NoPassword, file["secrets"].password}
    BY <2>2 DEF KeyInv, OnePassword
  <2> QED
    BY <1>1, <2>3, <2>4, WorkGoesOn DEF Continues
<1> QED
  BY <1>2, <1>3 DEF validate_file_permissions, Continues

\* The key is stored, encrypted under the password that was read.
LEMMA StoreStep ==
  ASSUME KeyInv, StoreKey
  PROVE  KeyInv'
<1> DEFINE key == generate(work.account, work.password)
<1>1. /\ work.pc = "use" /\ work.op = "create" /\ work' = NoWork
      /\ signingKey' = [signingKey EXCEPT ![work.account] = key]
      /\ UNCHANGED <<file, steady, signatures>>
  BY DEF StoreKey, Continues
<1>2. work.account \in Locals /\ work.password \in Passwords
  BY <1>1 DEF KeyInv, WorkOK, WorkRecords
<1>3. /\ key \in Keys /\ key.public = work.account /\ key.encrypted.password = work.password
      /\ KeyOf(key, work.account)
  BY <1>2, GeneratedKey DEF KeyOf
<1> HIDE DEF key
<1>4. /\ signingKey' \in [Locals -> Keys] /\ signingKey'[work.account] = key
      /\ \A a \in Locals \ {work.account} : signingKey'[a] = signingKey[a]
  BY <1>1, <1>2, <1>3 DEF KeyInv
<1>5. WorkOK'
  BY <1>1, WorkBegins DEF WorkOK
<1>6. \A a \in Locals : signingKey'[a] = NoKey \/ KeyOf(signingKey'[a], a)
  BY <1>3, <1>4 DEF KeyInv
<1>7. steady => work.password = file["secrets"].password
  BY <1>1 DEF KeyInv, WorkOK, OnePassword
<1>8. OnePassword'
  BY <1>1, <1>3, <1>4, <1>7, WorkBegins DEF KeyInv, OnePassword
<1>9. \A s \in signatures' :
        s.account \in Locals /\ s.by = s.account /\ signingKey'[s.account].public = s.account
  BY <1>1, <1>3, <1>4 DEF KeyInv
<1> QED
  BY <1>1, <1>4, <1>5, <1>6, <1>8, <1>9 DEF KeyInv

\* What is signed is signed with the private half of the account's own key.
LEMMA SignStep ==
  ASSUME KeyInv, SignWith
  PROVE  KeyInv'
<1>1. /\ work.pc = "use" /\ work.op \in {"sign", "deliver"} /\ work' = NoWork
      /\ UNCHANGED <<file, steady, signingKey>>
  BY DEF SignWith, Continues
<1>2. work.account \in Locals /\ KeyOf(work.key, work.account) /\ work.key = signingKey[work.account]
  BY <1>1 DEF KeyInv, WorkOK
<1>3. work.key.public = work.account /\ work.key.encrypted.private = work.account
  <2>1. PICK p \in Passwords : work.key = generate(work.account, p)
    BY <1>2 DEF KeyOf
  <2>2. /\ generate(work.account, p).public = work.account
        /\ generate(work.account, p).encrypted.private = work.account
    BY <1>2, GeneratedKey
  <2> QED
    BY <2>1, <2>2
<1>4. \A private \in decrypt(work.key.encrypted, work.password) : private = work.account
  BY <1>3 DEF decrypt
<1>5. ASSUME NEW s \in signatures'
      PROVE  s.account \in Locals /\ s.by = s.account /\ signingKey'[s.account].public = s.account
  <2>1. CASE s \in signatures
    BY <1>1, <2>1 DEF KeyInv
  <2>2. CASE s \notin signatures
    <3>1. PICK private \in decrypt(work.key.encrypted, work.password) :
            s \in http_sign(work.account, private)
      BY <2>2 DEF SignWith
    <3>2. s.account = work.account /\ s.by = private
      BY <3>1 DEF http_sign, Signature
    <3> QED
      BY <1>1, <1>2, <1>3, <1>4, <3>1, <3>2
  <2> QED
    BY <2>1, <2>2
<1>6. WorkOK'
  BY <1>1, WorkBegins DEF WorkOK
<1>7. OnePassword'
  BY <1>1, WorkBegins DEF KeyInv, OnePassword
<1> QED
  BY <1>1, <1>5, <1>6, <1>7 DEF KeyInv

\* Every step keeps the invariant.
LEMMA KeyInvStep == KeyInv /\ [SigningKeysNext]_keyVars => KeyInv'
<1> SUFFICES ASSUME KeyInv, [SigningKeysNext]_keyVars PROVE KeyInv'
  OBVIOUS
<1>1. CASE UNCHANGED keyVars
  BY <1>1 DEF keyVars, KeyInv, WorkOK, OnePassword
<1>2. CASE Abandon
  BY <1>2, WorkEnds DEF Abandon, Continues
<1> QED
  BY <1>1, <1>2, OperateStep, BeginStep, PasswordStep, ValidateStepOK, StoreStep, SignStep
  DEF SigningKeysNext

\* Whatever the operator does to the password files and whenever: a signature
\* verifies under the public key its account shows, and as long as secrets stays
\* in place every key is encrypted under its password.
THEOREM KeysCorrect == SigningKeysSpec => []KeySafety
BY KeyInvInit, KeyInvStep, KeyInvSuffices, PTL DEF SigningKeysSpec

-----------------------------------------------------------------------------
(* Image uploads.                                                          *)

\* A private bucket is one whose policy is about to be set or was given up, and
\* a request that puts or inserts has found or made the bucket.
MediaInv ==
  /\ uploads \in [Uploads ->
       {"idle", "head", "create", "policy", "put", "insert", "ended"}]
  /\ bucket \in {"none", "private", "public"}
  /\ bucket = "private" => policyLost \/ \E u \in Uploads : uploads[u] = "policy"
  /\ \A u \in Uploads : uploads[u] \in {"policy", "put", "insert"} => bucket # "none"
  /\ \A u \in Uploads : uploads[u] = "insert" => u \in stored
  /\ images \subseteq stored
  /\ images # {} => bucket # "none"

\* An upload goes on from one call to the next.
LEMMA MediaInvStep == MediaInv /\ [MediaNext]_mediaVars => MediaInv'
<1> SUFFICES ASSUME MediaInv, [MediaNext]_mediaVars PROVE MediaInv'
  OBVIOUS
<1>1. CASE UNCHANGED mediaVars
  BY <1>1 DEF mediaVars, MediaInv
<1>2. ASSUME NEW u \in Uploads, UploadStep(u) PROVE MediaInv'
  <2> USE DEF MediaInv, Goes
  <2>1. ASSUME NEW accepted \in BOOLEAN, upload_image(u, accepted) PROVE MediaInv'
    BY <2>1 DEF upload_image, AfterChecks
  <2>2. ASSUME NEW found \in BOOLEAN, HeadBucket(u, found) PROVE MediaInv'
    BY <2>2 DEF HeadBucket
  <2>3. CASE CreateBucket(u)
    BY <2>3 DEF CreateBucket
  <2>4. CASE PutBucketPolicy(u)
    BY <2>4 DEF PutBucketPolicy
  <2>5. ASSUME NEW ok \in BOOLEAN, PutObject(u, ok) PROVE MediaInv'
    BY <2>5 DEF PutObject, AfterPut
  <2>6. CASE InsertImage(u)
    BY <2>6 DEF InsertImage
  <2>7. CASE UploadFails(u)
    BY <2>7 DEF UploadFails
  <2> HIDE DEF MediaInv, Goes
  <2> QED
    BY <1>2, <2>1, <2>2, <2>3, <2>4, <2>5, <2>6, <2>7 DEF UploadStep
<1> QED
  BY <1>1, <1>2 DEF MediaNext

\* However uploads race to create the bucket and fail: an image with a row is in
\* the bucket, which everyone can read unless its policy is still to come or was
\* given up.
THEOREM MediaCorrect == MediaSpec => []ImagesAreServed
<1>1. MediaInit => MediaInv
  BY DEF MediaInit, MediaInv
<1>2. MediaInv => ImagesAreServed
  BY DEF MediaInv, ImagesAreServed
<1> QED
  BY <1>1, <1>2, MediaInvStep, PTL DEF MediaSpec

-----------------------------------------------------------------------------
(* Pages: the first so many of a set of ids, in either direction.          *)

Before(d, y, x) == IF d = "next" THEN y < x ELSE y > x

Rank(S, d, x) == Cardinality({y \in S : Before(d, y, x)})

PageOf(S, n, d) == {x \in S : Rank(S, d, x) < n}

\* The rank of an id counts those before it.
LEMMA RankGrows ==
  ASSUME NEW S \in SUBSET Int, IsFiniteSet(S), NEW d, NEW x \in S, NEW z \in S, Before(d, x, z)
  PROVE  Rank(S, d, x) \in Nat /\ Rank(S, d, z) \in Nat /\ Rank(S, d, x) < Rank(S, d, z)
<1> DEFINE A == {y \in S : Before(d, y, x)}
           B == {y \in S : Before(d, y, z)}
<1>1. A \in SUBSET S /\ B \in SUBSET S /\ x \notin A
  BY DEF Before
<1>2. A \cup {x} \in SUBSET B
  <2>1. \A y \in S : Before(d, y, x) => Before(d, y, z)
    BY DEF Before
  <2> QED
    BY <2>1
<1>3. Rank(S, d, x) = Cardinality(A) /\ Rank(S, d, z) = Cardinality(B)
  BY DEF Rank
<1> HIDE DEF A, B
<1>4. IsFiniteSet(A) /\ IsFiniteSet(B)
  BY <1>1, FS_Subset
<1>5. Cardinality(A) \in Nat /\ Cardinality(B) \in Nat
  BY <1>4, FS_CardinalityType
<1>6. Cardinality(A \cup {x}) = Cardinality(A) + 1
  BY <1>1, <1>4, FS_AddElement
<1>7. Cardinality(A \cup {x}) <= Cardinality(B)
  BY <1>2, <1>4, FS_Subset
<1> QED
  BY <1>3, <1>5, <1>6, <1>7

\* A rank is a natural number.
LEMMA RankType ==
  ASSUME NEW S \in SUBSET Int, IsFiniteSet(S), NEW d, NEW x \in S
  PROVE  Rank(S, d, x) \in Nat
<1>1. {y \in S : Before(d, y, x)} \in SUBSET S
  OBVIOUS
<1>2. IsFiniteSet({y \in S : Before(d, y, x)})
  BY <1>1, FS_Subset
<1> QED
  BY <1>2, FS_CardinalityType DEF Rank

\* A page is no longer than the limit: ranks number its ids.
LEMMA PageSize ==
  ASSUME NEW S \in SUBSET Int, IsFiniteSet(S), NEW n \in Nat, NEW d
  PROVE  PageOf(S, n, d) \subseteq S /\ Cardinality(PageOf(S, n, d)) <= n
<1> DEFINE P == PageOf(S, n, d)
           f == [x \in P |-> Rank(S, d, x)]
<1>1. P \subseteq S /\ \A x \in P : Rank(S, d, x) < n
  BY DEF PageOf
<1> HIDE DEF P
<1>2. \A x \in P : Rank(S, d, x) \in 0 .. (n - 1)
  BY <1>1, RankType
<1>3. f \in [P -> 0 .. (n - 1)]
  BY <1>2
<1>4. \A x, z \in P : f[x] = f[z] => x = z
  <2> SUFFICES ASSUME NEW x \in P, NEW z \in P, Rank(S, d, x) = Rank(S, d, z), x # z PROVE FALSE
    OBVIOUS
  <2>1. Before(d, x, z) \/ Before(d, z, x)
    BY <1>1 DEF Before
  <2>2. Rank(S, d, x) \in Nat
    BY <1>1, RankType
  <2>3. ASSUME Before(d, x, z) PROVE FALSE
    BY <1>1, <2>2, <2>3, RankGrows
  <2>4. ASSUME Before(d, z, x) PROVE FALSE
    BY <1>1, <2>2, <2>4, RankGrows
  <2> QED
    BY <2>1, <2>3, <2>4
<1>5. f \in Injection(P, 0 .. (n - 1))
  BY <1>3, <1>4 DEF Injection, IsInjective
<1>6. IsFiniteSet(0 .. (n - 1)) /\ Cardinality(0 .. (n - 1)) = n
  BY FS_Interval
<1> HIDE DEF f
<1>7. Cardinality(P) <= n
  BY <1>5, <1>6, FS_Injection
<1> QED
  BY <1>1, <1>7 DEF P

\* What is left out comes after what is on the page.
LEMMA PageIsFirst ==
  ASSUME NEW S \in SUBSET Int, IsFiniteSet(S), NEW n \in Nat, NEW d,
         NEW x \in PageOf(S, n, d), NEW z \in S, z \notin PageOf(S, n, d)
  PROVE  Before(d, x, z)
<1>1. x \in S /\ Rank(S, d, x) < n /\ ~(Rank(S, d, z) < n) /\ x # z
  BY DEF PageOf
<1>2. ASSUME Before(d, z, x) PROVE FALSE
  <2>1. Rank(S, d, z) \in Nat /\ Rank(S, d, x) \in Nat /\ Rank(S, d, z) < Rank(S, d, x)
    BY <1>1, <1>2, RankGrows
  <2> QED
    BY <1>1, <2>1
<1>3. x \in Int /\ z \in Int
  BY <1>1
<1> QED
  BY <1>1, <1>2, <1>3 DEF Before

\* The end of a set of ids in the direction of the walk.
LEMMA EndExists ==
  ASSUME NEW S \in SUBSET AccountIds, S # {}, NEW d
  PROVE  \E x \in S : \A y \in S : ~Before(d, y, x)
<1>1. S \in SUBSET Nat /\ S \in SUBSET (0 .. MaxAccount) /\ MaxAccount \in Nat
  BY PageAssumption DEF AccountIds
<1>2. CASE d = "next"
  <2>1. PICK x \in S : \A y \in S : x <= y
    BY <1>1, LeastNatural
  <2>2. \A y \in S : ~Before(d, y, x)
    BY <1>1, <1>2, <2>1 DEF Before
  <2> QED
    BY <2>2
<1>3. CASE d # "next"
  <2>1. PICK x \in S : \A y \in S : y <= x
    BY <1>1, GreatestNatural
  <2>2. \A y \in S : ~Before(d, y, x)
    BY <1>1, <1>3, <2>1 DEF Before
  <2> QED
    BY <2>2
<1> QED
  BY <1>2, <1>3

\* A page is empty only if there is nothing to show.
LEMMA PageNotEmpty ==
  ASSUME NEW S \in SUBSET AccountIds, S # {}, NEW n \in Nat \ {0}, NEW d
  PROVE  PageOf(S, n, d) # {}
<1>1. PICK x \in S : \A y \in S : ~Before(d, y, x)
  BY EndExists
<1>2. {y \in S : Before(d, y, x)} = {}
  BY <1>1
<1>3. Rank(S, d, x) = 0
  BY <1>2, FS_EmptySet DEF Rank
<1>4. x \in PageOf(S, n, d)
  BY <1>3 DEF PageOf
<1> QED
  BY <1>4

-----------------------------------------------------------------------------
(* The walk through an owner's accounts.                                   *)

WalkRecords ==
  [pc : {"idle", "rows", "cursor", "compose", "ids", "detail", "failed", "ended"},
   direction : {"next", "prev"}, limit : Nat, cursor : AccountIds \cup {NoCursor},
   from : AccountIds \cup {NoCursor}, rows : SUBSET AccountIds, page : SUBSET AccountIds,
   seen : SUBSET AccountIds]

Ahead(d, cursor, i) == cursor = NoCursor \/ Before(d, cursor, i)

\* An account that the owner had all the while was shown, or lies ahead of the
\* cursor; once the page is cut, it is on it or lies behind the page.
WalkOK(w, mine) ==
  /\ w \in WalkRecords
  /\ w.pc \in {"rows", "cursor", "compose"} => Cardinality(w.page) <= w.limit
  /\ w.pc \in {"rows", "cursor"} =>
       \A i \in mine : i \in w.seen \/ Ahead(w.direction, w.cursor, i)
  /\ w.pc = "cursor" => mine \subseteq w.rows
  /\ w.pc = "compose" =>
       /\ w.from \in {NoCursor, w.cursor}
       /\ \A i \in w.page : Ahead(w.direction, w.from, i)
       /\ w.limit > 0 =>
            \A i \in mine : \/ i \in w.seen \cup w.page
                            \/ w.page # {} /\ \A x \in w.page : Before(w.direction, x, i)
  /\ w.pc = "ended" /\ w.limit > 0 => mine \subseteq w.seen

AccountPagesInv ==
  /\ standing \in [AccountIds -> {"none", "live", "hidden", "deleted"}]
  /\ profiled \subseteq AccountIds
  /\ owned \subseteq find_by_auth_id
  /\ WalkOK(walk, owned)

\* The invariant contains what is promised of pages and walks.
LEMMA AccountPagesInvSuffices == AccountPagesInv => AccountPageSafety
<1> SUFFICES ASSUME AccountPagesInv PROVE AccountPageSafety
  OBVIOUS
<1>1. walk \in WalkRecords /\ WalkOK(walk, owned)
  BY DEF AccountPagesInv, WalkOK
<1>2. AccountPagesTypeOK /\ WalksMissNothing
  BY <1>1 DEF AccountPagesInv, WalkOK, WalkRecords, AccountPagesTypeOK, WalksMissNothing
<1>3. PagesAdvance
  BY <1>1 DEF WalkOK, PagesAdvance, Ahead, Before
<1> QED
  BY <1>2, <1>3 DEF AccountPageSafety

\* A walk begins, with every account ahead of it.
LEMMA WalkBegins ==
  ASSUME NEW pc \in {"idle", "rows", "ids"}, NEW d \in {"next", "prev"}, NEW n \in Nat,
         NEW mine
  PROVE  /\ Walk(pc, d, n) \in WalkRecords /\ Walk(pc, d, n).pc = pc
         /\ WalkOK(Walk(pc, d, n), mine)
<1>1. /\ Walk(pc, d, n) \in WalkRecords /\ Walk(pc, d, n).pc = pc /\ Walk(pc, d, n).page = {}
      /\ Walk(pc, d, n).cursor = NoCursor /\ Walk(pc, d, n).limit = n
  BY DEF Walk, WalkRecords
<1>2. Cardinality({}) <= n
  BY FS_EmptySet
<1> QED
  BY <1>1, <1>2 DEF WalkOK, Ahead

\* The owner loses accounts while the walk goes on.
LEMMA WalkKept ==
  ASSUME NEW w, NEW mine, NEW left, WalkOK(w, mine), left \subseteq mine
  PROVE  WalkOK(w, left)
BY DEF WalkOK

\* Any accounts, and nobody walking.
LEMMA AccountPagesInvInit == AccountPagesInit => AccountPagesInv
BY WalkBegins DEF AccountPagesInit, AccountPagesInv

\* The rows are read: every account the owner had all the while is among them.
LEMMA RowsStep ==
  ASSUME AccountPagesInv, get_all_account_details
  PROVE  AccountPagesInv'
<1>1. /\ walk.pc = "rows" /\ walk' = [walk EXCEPT !.pc = "cursor", !.rows = find_by_auth_id]
      /\ UNCHANGED <<standing, profiled, owned>>
  BY DEF get_all_account_details
<1>2. walk \in WalkRecords /\ WalkOK(walk, owned)
  BY DEF AccountPagesInv, WalkOK
<1>3. find_by_auth_id \in SUBSET AccountIds
  BY DEF find_by_auth_id
<1>4. /\ walk' \in WalkRecords /\ walk'.pc = "cursor" /\ walk'.rows = find_by_auth_id
      /\ walk'.direction = walk.direction /\ walk'.cursor = walk.cursor
      /\ walk'.page = walk.page /\ walk'.seen = walk.seen /\ walk'.limit = walk.limit
  BY <1>1, <1>2, <1>3 DEF WalkRecords
<1>5. WalkOK(walk', owned')
  BY <1>1, <1>2, <1>4 DEF WalkOK, AccountPagesInv
<1> QED
  BY <1>1, <1>5 DEF AccountPagesInv, find_by_auth_id

\* The page is what apply_pagination cuts out of the rows ahead of the cursor.
LEMMA PaginationIsPage ==
  ASSUME NEW rows \in SUBSET AccountIds, NEW cursor, NEW d \in {"next", "prev"}, NEW limit
  PROVE  apply_pagination(rows, limit, cursor, d) = PageOf({i \in rows : Ahead(d, cursor, i)}, limit, d)
<1>1. CASE d = "next"
  <2>1. {i \in rows : cursor = NoCursor \/ i > cursor} = {i \in rows : Ahead(d, cursor, i)}
    BY <1>1 DEF Ahead, Before
  <2>2. \A S : FirstIds(S, limit) = PageOf(S, limit, d)
    BY <1>1 DEF FirstIds, PageOf, Rank, Before
  <2> QED
    BY <1>1, <2>1, <2>2 DEF apply_pagination
<1>2. CASE d = "prev"
  <2>1. {i \in rows : cursor = NoCursor \/ i < cursor} = {i \in rows : Ahead(d, cursor, i)}
    BY <1>2 DEF Ahead, Before
  <2>2. \A S : LastIds(S, limit) = PageOf(S, limit, d)
    BY <1>2 DEF LastIds, PageOf, Rank, Before
  <2> QED
    BY <1>2, <2>1, <2>2 DEF apply_pagination
<1> QED
  BY <1>1, <1>2

\* The cursor is looked up and the page cut: no account that is still to be shown
\* is passed over, also if the cursor is not found.
LEMMA CursorStep ==
  ASSUME AccountPagesInv, ReadCursor
  PROVE  AccountPagesInv'
<1> DEFINE from == find_cursor(walk.cursor)
           d == walk.direction
           ahead == {i \in walk.rows : Ahead(d, from, i)}
           page == apply_pagination(walk.rows, walk.limit, from, d)
<1>1. /\ walk.pc = "cursor" /\ UNCHANGED <<standing, profiled, owned>>
      /\ walk' = [walk EXCEPT !.pc = "compose", !.rows = {}, !.from = from, !.page = page]
  BY DEF ReadCursor
<1>2. /\ walk \in WalkRecords /\ owned \subseteq walk.rows /\ walk.rows \in SUBSET AccountIds
      /\ \A i \in owned : i \in walk.seen \/ Ahead(d, walk.cursor, i)
      /\ d \in {"next", "prev"} /\ walk.cursor \in AccountIds \cup {NoCursor}
  BY <1>1 DEF AccountPagesInv, WalkOK, WalkRecords
<1>3. from \in {NoCursor, walk.cursor} /\ from \in AccountIds \cup {NoCursor}
  BY <1>2 DEF find_cursor
<1>4. page = PageOf(ahead, walk.limit, d)
  BY <1>2, PaginationIsPage
<1>5. /\ ahead \in SUBSET AccountIds /\ \A i \in ahead : Ahead(d, from, i)
      /\ \A i \in owned : i \in walk.seen \/ i \in ahead
  BY <1>2, <1>3 DEF Ahead
<1> HIDE DEF from, d, ahead, page
<1>6. IsFiniteSet(ahead) /\ ahead \in SUBSET Int
  <2>1. IsFiniteSet(AccountIds)
    BY FS_Interval, PageAssumption DEF AccountIds
  <2>2. AccountIds \subseteq Int
    BY DEF AccountIds
  <2> QED
    BY <1>5, <2>1, <2>2, FS_Subset
<1>7. walk.limit \in Nat
  BY <1>2 DEF WalkRecords
<1>8. page \subseteq ahead /\ Cardinality(page) <= walk.limit
  BY <1>4, <1>6, <1>7, PageSize
<1>9. ASSUME walk.limit > 0, NEW i \in owned, i \notin walk.seen, i \notin page
      PROVE  page # {} /\ \A x \in page : Before(d, x, i)
  <2>1. i \in ahead
    BY <1>5, <1>9
  <2>2. page # {}
    BY <1>4, <1>5, <1>7, <1>9, <2>1, PageNotEmpty
  <2>3. \A x \in page : Before(d, x, i)
    BY <1>4, <1>6, <1>7, <1>9, <2>1, PageIsFirst
  <2> QED
    BY <2>2, <2>3
<1>10. page \in SUBSET AccountIds
  BY <1>5, <1>8
<1>11. walk' \in WalkRecords
  BY <1>1, <1>2, <1>3, <1>10 DEF WalkRecords
<1>12. /\ walk'.pc = "compose" /\ walk'.from = from /\ walk'.page = page
       /\ walk'.direction = walk.direction /\ walk'.cursor = walk.cursor /\ walk'.seen = walk.seen
       /\ walk'.limit = walk.limit
  BY <1>1, <1>2 DEF WalkRecords
<1>13. walk.direction = d
  BY DEF d
<1>14. WalkOK(walk', owned')
  BY <1>1, <1>3, <1>5, <1>8, <1>9, <1>11, <1>12, <1>13 DEF WalkOK
<1> QED
  BY <1>1, <1>14 DEF AccountPagesInv, find_by_auth_id

\* The account a client goes on from is the end of the page it got.
LEMMA ResponseEndIsEnd ==
  ASSUME NEW page \in SUBSET AccountIds, page # {}, NEW d \in {"next", "prev"}
  PROVE  ResponseEnd(page, d) \in page
<1>1. page \in SUBSET Nat /\ page \in SUBSET (0 .. MaxAccount) /\ MaxAccount \in Nat
  BY PageAssumption DEF AccountIds
<1>2. \E x \in page : \A y \in page : IF d = "next" THEN y <= x ELSE x <= y
  BY <1>1, LeastNatural, GreatestNatural
<1> QED
  BY <1>2 DEF ResponseEnd

\* The answer: an empty page ends the walk, another is gone on from.
LEMMA ComposeStep ==
  ASSUME AccountPagesInv, ComposePage
  PROVE  AccountPagesInv'
<1>1. walk.pc = "compose" /\ UNCHANGED <<standing, profiled, owned>>
  BY DEF ComposePage
<1>2. walk \in WalkRecords /\ WalkOK(walk, owned)
  BY DEF AccountPagesInv, WalkOK
<1>3. WalkOK(walk', owned)
  <2>1. CASE walk' = [walk EXCEPT !.pc = "failed"]
    <3>1. walk' \in WalkRecords /\ walk'.pc = "failed"
      BY <1>2, <2>1 DEF WalkRecords
    <3> QED
      BY <3>1 DEF WalkOK
  <2>2. CASE walk.page = {} /\ walk' = [walk EXCEPT !.pc = "ended"]
    <3>1. walk' \in WalkRecords /\ walk'.pc = "ended" /\ walk'.seen = walk.seen
          /\ walk'.limit = walk.limit
      BY <1>2, <2>2 DEF WalkRecords
    <3>2. walk.limit > 0 => owned \subseteq walk.seen
      BY <1>1, <1>2, <2>2 DEF WalkOK
    <3> QED
      BY <3>1, <3>2 DEF WalkOK
  <2>3. CASE /\ walk.page # {}
             /\ walk' = [walk EXCEPT !.pc = "rows", !.seen = @ \cup walk.page,
                                     !.cursor = ResponseEnd(walk.page, walk.direction)]
    <3> DEFINE end == ResponseEnd(walk.page, walk.direction)
    <3>1. end \in walk.page /\ end \in AccountIds
      BY <1>2, <2>3, ResponseEndIsEnd DEF WalkRecords
    <3> HIDE DEF end
    <3>2. walk' = [walk EXCEPT !.pc = "rows", !.seen = walk.seen \cup walk.page, !.cursor = end]
      BY <2>3 DEF end
    <3>3. walk.seen \cup walk.page \in SUBSET AccountIds
      BY <1>2 DEF WalkRecords
    <3>4. walk' \in WalkRecords
      BY <1>2, <3>1, <3>2, <3>3 DEF WalkRecords
    <3>5. /\ walk'.pc = "rows" /\ walk'.seen = walk.seen \cup walk.page /\ walk'.cursor = end
          /\ walk'.direction = walk.direction /\ walk'.page = walk.page
          /\ walk'.limit = walk.limit
      BY <1>2, <3>2 DEF WalkRecords
    <3>6. walk.limit > 0
      <4>1. walk.page \subseteq AccountIds /\ walk.limit \in Nat /\ IsFiniteSet(AccountIds)
        BY <1>2, FS_Interval, PageAssumption DEF WalkRecords, AccountIds
      <4>2. IsFiniteSet(walk.page)
        BY <4>1, FS_Subset
      <4>3. Cardinality(walk.page) \in Nat /\ Cardinality(walk.page) # 0
        BY <2>3, <4>2, FS_CardinalityType, FS_EmptySet
      <4>4. Cardinality(walk.page) <= walk.limit
        BY <1>1, <1>2 DEF WalkOK
      <4> QED
        BY <4>1, <4>3, <4>4
    <3>7. \A i \in owned : i \in walk'.seen \/ Ahead(walk'.direction, walk'.cursor, i)
      BY <1>1, <1>2, <3>1, <3>5, <3>6 DEF WalkOK, Ahead
    <3> QED
      BY <1>1, <1>2, <3>4, <3>5, <3>7 DEF WalkOK
  <2> QED
    BY <2>1, <2>2, <2>3 DEF ComposePage
<1> QED
  BY <1>1, <1>3 DEF AccountPagesInv, find_by_auth_id

\* Requests for single accounts take part in no walk.
LEMMA DetailsStep ==
  ASSUME AccountPagesInv,
         (\E ids \in parse_comma_ids : get_account_details_by_ids(ids)) \/ ComposeDetails
  PROVE  AccountPagesInv'
<1>1. UNCHANGED <<standing, profiled>>
  BY DEF get_account_details_by_ids, ComposeDetails
<1>2. ASSUME NEW ids \in parse_comma_ids, get_account_details_by_ids(ids) PROVE AccountPagesInv'
  <2>1. /\ walk' = [Walk("ids", "next", 0) EXCEPT !.rows = ids, !.page = find_by_nanoids(ids)]
        /\ owned' = {}
    BY <1>2 DEF get_account_details_by_ids
  <2>2. ids \in SUBSET AccountIds /\ find_by_nanoids(ids) \in SUBSET AccountIds
    BY DEF parse_comma_ids, find_by_nanoids
  <2>3. Walk("ids", "next", 0) \in WalkRecords /\ Walk("ids", "next", 0).pc = "ids"
    BY WalkBegins
  <2>4. walk' \in WalkRecords /\ walk'.pc = "ids"
    BY <2>1, <2>2, <2>3 DEF WalkRecords
  <2>5. WalkOK(walk', owned')
    BY <2>4 DEF WalkOK
  <2> QED
    BY <1>1, <2>1, <2>5 DEF AccountPagesInv
<1>3. CASE ComposeDetails
  <2> DEFINE pc == IF compose_account_details(walk.page) THEN "detail" ELSE "failed"
             seen == IF compose_account_details(walk.page) THEN walk.page ELSE {}
  <2>1. walk' = [walk EXCEPT !.pc = pc, !.seen = seen] /\ UNCHANGED owned
    BY <1>3 DEF ComposeDetails
  <2>2. walk \in WalkRecords
    BY DEF AccountPagesInv, WalkOK
  <2>3. pc \in {"detail", "failed"} /\ seen \in SUBSET AccountIds
    BY <2>2 DEF WalkRecords
  <2> HIDE DEF pc, seen
  <2>4. walk' \in WalkRecords /\ walk'.pc = pc
    BY <2>1, <2>2, <2>3 DEF WalkRecords
  <2>5. WalkOK(walk', owned')
    BY <2>3, <2>4 DEF WalkOK
  <2> QED
    BY <1>1, <2>1, <2>5 DEF AccountPagesInv, find_by_auth_id
<1> QED
  BY <1>2, <1>3

\* Accounts come and go, and the owner's lasting ones only become fewer.
LEMMA AccountsChange ==
  ASSUME AccountPagesInv, NEW i \in AccountIds,
         Created(i) \/ Moderated(i) \/ Deactivated(i) \/ Reactivated(i) \/ ProfileReturns(i)
  PROVE  AccountPagesInv'
<1>1. walk' = walk /\ owned' \subseteq owned
  BY DEF Created, Moderated, Deactivated, Reactivated, ProfileReturns
<1>2. WalkOK(walk', owned')
  BY <1>1, WalkKept DEF AccountPagesInv
<1>3. standing' \in [AccountIds -> {"none", "live", "hidden", "deleted"}]
  BY DEF AccountPagesInv, Created, Moderated, Deactivated, Reactivated, ProfileReturns, Stands
<1>4. profiled' \subseteq AccountIds
  BY DEF AccountPagesInv, Created, Moderated, Deactivated, Reactivated, ProfileReturns
<1>5. owned' \subseteq find_by_auth_id'
  BY DEF AccountPagesInv, Created, Moderated, Deactivated, Reactivated, ProfileReturns, Stands,
         find_by_auth_id
<1> QED
  BY <1>2, <1>3, <1>4, <1>5 DEF AccountPagesInv

\* Every step keeps the invariant.
LEMMA AccountPagesInvStep ==
  AccountPagesInv /\ [AccountPagesNext]_pageVars => AccountPagesInv'
<1> SUFFICES ASSUME AccountPagesInv, [AccountPagesNext]_pageVars PROVE AccountPagesInv'
  OBVIOUS
<1>1. CASE UNCHANGED pageVars
  BY <1>1 DEF pageVars, AccountPagesInv, find_by_auth_id
<1>2. ASSUME NEW d \in {"next", "prev"}, NEW n \in PageLimits, StartWalk(d, n)
      PROVE  AccountPagesInv'
  <2>1. walk' = Walk("rows", d, n) /\ owned' = find_by_auth_id /\ UNCHANGED <<standing, profiled>>
    BY <1>2 DEF StartWalk
  <2>2. WalkOK(walk', owned')
    BY <2>1, WalkBegins, PageAssumption
  <2> QED
    BY <2>1, <2>2 DEF AccountPagesInv, find_by_auth_id
<1> QED
  BY <1>1, <1>2, RowsStep, CursorStep, ComposeStep, DetailsStep, AccountsChange
  DEF AccountPagesNext, WalkStep

\* A walk through the accounts of an owner, in either direction and with any
\* limit, misses none that was there all the while, repeats none unless its
\* cursor was not found, and gets no page above the limit.
THEOREM AccountPagesCorrect == AccountPagesSpec => []AccountPageSafety
BY AccountPagesInvInit, AccountPagesInvStep, AccountPagesInvSuffices, PTL DEF AccountPagesSpec

-----------------------------------------------------------------------------
(* What other servers read.  A name belongs to at most one account, for    *)
(* good; so a request that found the account of a name can read the        *)
(* document later, and what WebFinger answered stays true.  In the outbox  *)
(* an entry that was delivered stays delivered, so that the count, which   *)
(* comes after the items, covers them.                                     *)

UrlRecords == [base : BaseUrls \cup {"none"}, nanoid : Nanoids \cup {"none"}]

ActorRecords == [name : Usernames \cup {"none"}, shown : BOOLEAN, key : UrlRecords]

DocumentRecords == [urls : UrlRecords, name : Usernames \cup {"none"}, key_id : UrlRecords]

ReaderRecords ==
  [pc : {"idle", "finger", "actor", "key", "answered"}, asked : Usernames \cup {"none"},
   found : Nanoids \cup {"none"}, document : DocumentRecords]

\* An account that exists has a name that no other one has, and a key of its own or
\* none.
NamesOK ==
  /\ actors \in [Nanoids -> ActorRecords]
  /\ \A n \in Nanoids : actors[n].key = NoUrls \/ actors[n].key.nanoid = n
  /\ \A n \in Nanoids : actors[n] = NoActor \/ actors[n].name \in Usernames \ {"none"}
  /\ \A m, n \in Nanoids :
       actors[m].name # "none" /\ actors[m].name = actors[n].name => m = n

\* What was answered about a name is still true of it.
FingersOK(answers) ==
  /\ answers \subseteq Usernames \X Nanoids
  /\ \A f \in answers : f[1] # "none" /\ actors[f[2]].name = f[1]

ReaderOK(q) ==
  /\ q \in ReaderRecords
  /\ q.pc \in {"actor", "key", "answered"} =>
       q.found \in Nanoids /\ (q.asked # "none" => actors[q.found].name = q.asked)
  /\ q.pc \in {"key", "answered"} =>
       /\ q.document.urls = ActorUrls(base, q.found)
       /\ q.asked # "none" => q.document.name = q.asked
  /\ q.pc = "answered" => q.document.key_id.nanoid = q.found

OutboxRecords ==
  [pc : {"idle", "asked", "reading", "answered"}, limit : Nat, cursor : Activities \cup {0},
   left : SUBSET {"items", "count"}, items : SUBSET Activities, total : Nat]

OutboxOK(q) ==
  /\ q \in OutboxRecords
  /\ Cardinality(q.items) <= q.limit
  /\ q.cursor # 0 => \A i \in q.items : i < q.cursor
  /\ q.items \subseteq DeliveredEntries
  /\ "items" \in q.left => "count" \in q.left
  /\ "count" \notin q.left => q.total >= Cardinality(q.items)
  /\ q.pc = "answered" => q.left = {}

ActorPagesInv ==
  /\ base \in BaseUrls
  /\ NamesOK /\ FingersOK(fingers) /\ ReaderOK(reader)
  /\ entries \in [Activities -> {"none", "pending", "delivered"}]
  /\ OutboxOK(outboxRead)

\* Names that are taken stay with their accounts, whatever else a step does.
NamesKept == \A n \in Nanoids : actors[n].name # "none" => actors'[n].name = actors[n].name

LEMMA NamesKeptKeeps ==
  ASSUME ActorPagesInv, NamesKept, UNCHANGED <<base, fingers, reader>>
  PROVE  FingersOK(fingers)' /\ ReaderOK(reader)'
<1>1. FingersOK(fingers)'
  <2>1. \A f \in fingers : f[2] \in Nanoids /\ f[1] # "none" /\ actors[f[2]].name = f[1]
    BY DEF ActorPagesInv, FingersOK
  <2> QED
    BY <2>1 DEF ActorPagesInv, FingersOK, NamesKept
<1>2. ReaderOK(reader)'
  BY DEF ActorPagesInv, ReaderOK, NamesKept
<1> QED
  BY <1>1, <1>2

LEMMA AccountCreatedStep ==
  ASSUME ActorPagesInv, NEW n \in Nanoids, NEW name \in Usernames, AccountCreated(n, name)
  PROVE  ActorPagesInv'
<1> DEFINE next == Account(name, TRUE, ActorUrls(base, n))
<1>1. /\ NamesOK /\ actors[n] = NoActor /\ actors' = [actors EXCEPT ![n] = next]
      /\ \A m \in Nanoids : actors[m].name # name
      /\ base \in BaseUrls /\ UNCHANGED <<base, fingers, reader, entries, outboxRead>>
  BY DEF AccountCreated, NameFree, ActorPagesInv
<1>2. NoActor.name = "none" /\ next.name = name /\ next.key.nanoid = n /\ next \in ActorRecords
  BY <1>1 DEF NoActor, Account, ActorRecords, ActorUrls, UrlRecords
<1> HIDE DEF next
<1>3. name # "none"
  BY <1>1, <1>2
<1>4. /\ actors' \in [Nanoids -> ActorRecords] /\ actors'[n].name = name /\ actors'[n].key.nanoid = n
      /\ \A m \in Nanoids : m # n => actors'[m] = actors[m]
  BY <1>1, <1>2 DEF NamesOK
<1>5. NamesOK'
  <2>3. \A m \in Nanoids : actors'[m].key = NoUrls \/ actors'[m].key.nanoid = m
    BY <1>1, <1>4 DEF NamesOK
  <2>1. \A m \in Nanoids : actors'[m] = NoActor \/ actors'[m].name \in Usernames \ {"none"}
    BY <1>1, <1>3, <1>4 DEF NamesOK
  <2>2. \A m, k \in Nanoids :
          actors'[m].name # "none" /\ actors'[m].name = actors'[k].name => m = k
    BY <1>1, <1>4 DEF NamesOK
  <2> QED
    BY <1>4, <2>1, <2>2, <2>3 DEF NamesOK
<1>6. NamesKept
  BY <1>1, <1>2, <1>4 DEF NamesKept
<1> QED
  BY <1>1, <1>5, <1>6, NamesKeptKeeps DEF ActorPagesInv, OutboxOK, DeliveredEntries

LEMMA VisibilityStep ==
  ASSUME ActorPagesInv, NEW n \in Nanoids, VisibilityChanged(n)
  PROVE  ActorPagesInv'
<1>1. /\ NamesOK /\ actors[n] # NoActor /\ actors' = [actors EXCEPT ![n].shown = ~@]
      /\ UNCHANGED <<base, fingers, reader, entries, outboxRead>>
  BY DEF VisibilityChanged, ActorPagesInv
<1>2. actors[n] \in ActorRecords /\ actors[n].name \in Usernames \ {"none"}
  BY <1>1 DEF NamesOK
<1> DEFINE next == [actors[n] EXCEPT !.shown = ~actors[n].shown]
<1>3. next \in ActorRecords /\ next.name = actors[n].name /\ next.key = actors[n].key
  BY <1>2 DEF ActorRecords
<1>4. actors' = [actors EXCEPT ![n] = next]
  BY <1>1 DEF NamesOK
<1> HIDE DEF next
<1>5. /\ actors' \in [Nanoids -> ActorRecords] /\ actors'[n].name = actors[n].name
      /\ actors'[n].key = actors[n].key
      /\ \A m \in Nanoids : m # n => actors'[m] = actors[m]
  BY <1>1, <1>3, <1>4 DEF NamesOK
<1>6. NamesOK'
  <2>3. \A m \in Nanoids : actors'[m].key = NoUrls \/ actors'[m].key.nanoid = m
    BY <1>1, <1>5 DEF NamesOK
  <2>1. \A m \in Nanoids : actors'[m] = NoActor \/ actors'[m].name \in Usernames \ {"none"}
    BY <1>1, <1>2, <1>5 DEF NamesOK
  <2>2. \A m, k \in Nanoids :
          actors'[m].name # "none" /\ actors'[m].name = actors'[k].name => m = k
    BY <1>1, <1>5 DEF NamesOK
  <2> QED
    BY <1>5, <2>1, <2>2, <2>3 DEF NamesOK
<1>7. NamesKept
  BY <1>5 DEF NamesKept
<1> QED
  BY <1>1, <1>6, <1>7, NamesKeptKeeps DEF ActorPagesInv, OutboxOK, DeliveredEntries

\* Requests that begin, or that end without an answer.
LEMMA ReaderBegins ==
  ASSUME NEW pc \in {"idle", "finger"}, NEW asked \in Usernames \cup {"none"}
  PROVE  ReaderOK(Reading(pc, asked))
<1>1. NoDocument \in DocumentRecords
  BY DEF NoDocument, Actor, NoUrls, DocumentRecords, UrlRecords, ActorUrls
<1>2. Reading(pc, asked) \in ReaderRecords /\ Reading(pc, asked).pc = pc
  BY <1>1 DEF Reading, ReaderRecords
<1> QED
  BY <1>2 DEF ReaderOK

LEMMA WebFingerStep ==
  ASSUME ActorPagesInv, get_webfinger
  PROVE  ActorPagesInv'
<1>1. reader.pc = "finger" /\ UNCHANGED <<base, actors, entries, outboxRead>>
  BY DEF get_webfinger
<1>2. CASE reader' = Reading("idle", "none") /\ UNCHANGED fingers
  BY <1>1, <1>2, ReaderBegins
  DEF ActorPagesInv, NamesOK, FingersOK, ReaderOK, OutboxOK, DeliveredEntries
<1>3. ASSUME NEW n \in find_by_name(reader.asked), fingers' = fingers \cup {<<reader.asked, n>>},
             reader' = [reader EXCEPT !.pc = "actor", !.found = n]
      PROVE  ActorPagesInv'
  <2>1. n \in Nanoids /\ actors[n].name = reader.asked /\ actors[n].shown
    BY <1>3 DEF find_by_name
  <2>2. reader.asked \in Usernames \ {"none"}
    <3>1. actors[n] # NoActor
      BY <2>1 DEF NoActor, Account
    <3> QED
      BY <2>1, <3>1 DEF ActorPagesInv, NamesOK
  <2>3. FingersOK(fingers')
    <3>1. fingers' \subseteq Usernames \X Nanoids
      BY <1>3, <2>1, <2>2 DEF ActorPagesInv, FingersOK
    <3>2. \A f \in fingers' : f[1] # "none" /\ actors[f[2]].name = f[1]
      BY <1>3, <2>1, <2>2 DEF ActorPagesInv, FingersOK
    <3> QED
      BY <3>1, <3>2 DEF FingersOK
  <2>4. /\ reader' \in ReaderRecords /\ reader'.pc = "actor" /\ reader'.found = n
        /\ reader'.asked = reader.asked
    BY <1>3, <2>1 DEF ActorPagesInv, ReaderOK, ReaderRecords
  <2>5. ReaderOK(reader')
    BY <2>1, <2>4 DEF ReaderOK
  <2> QED
    BY <1>1, <2>3, <2>5
    DEF ActorPagesInv, NamesOK, FingersOK, ReaderOK, OutboxOK, DeliveredEntries
<1> QED
  BY <1>2, <1>3 DEF get_webfinger

LEMMA ReaderStep ==
  ASSUME ActorPagesInv, ReaderOK(reader'), UNCHANGED <<base, actors, fingers, entries, outboxRead>>
  PROVE  ActorPagesInv'
BY DEF ActorPagesInv, NamesOK, FingersOK, ReaderOK, OutboxOK, DeliveredEntries

LEMMA ActorRouteStep ==
  ASSUME ActorPagesInv, NEW n \in Nanoids, actor_route(n)
  PROVE  ActorPagesInv'
<1> DEFINE q == Reading("actor", "none")
<1>1. reader' = [q EXCEPT !.found = n] /\ UNCHANGED <<base, actors, fingers, entries, outboxRead>>
  BY DEF actor_route
<1>2. NoDocument \in DocumentRecords
  BY DEF NoDocument, Actor, NoUrls, DocumentRecords, UrlRecords, ActorUrls
<1>3. q \in ReaderRecords /\ q.pc = "actor" /\ q.asked = "none"
  BY <1>2 DEF Reading, ReaderRecords
<1> HIDE DEF q
<1>4. /\ reader' \in ReaderRecords /\ reader'.pc = "actor" /\ reader'.found = n
      /\ reader'.asked = "none"
  BY <1>1, <1>3 DEF ReaderRecords
<1>5. ReaderOK(reader')
  BY <1>4 DEF ReaderOK
<1> QED
  BY <1>1, <1>5, ReaderStep

LEMMA DocumentStep ==
  ASSUME ActorPagesInv, get_actor
  PROVE  ActorPagesInv'
<1>1. reader.pc = "actor" /\ UNCHANGED <<base, actors, fingers, entries, outboxRead>>
  BY DEF get_actor
<1>2. CASE reader' = Reading("idle", "none")
  BY <1>1, <1>2, ReaderBegins, ReaderStep
<1> DEFINE document == Actor(ActorUrls(base, reader.found), actors[reader.found].name, NoUrls)
<1>3. CASE reader' = [reader EXCEPT !.pc = "key", !.document = document]
  <2>1. /\ reader \in ReaderRecords /\ reader.found \in Nanoids
        /\ reader.asked # "none" => actors[reader.found].name = reader.asked
    BY <1>1 DEF ActorPagesInv, ReaderOK
  <2>2. actors[reader.found].name \in Usernames \cup {"none"}
    BY <2>1 DEF ActorPagesInv, NamesOK, ActorRecords
  <2>3. /\ document \in DocumentRecords /\ document.urls = ActorUrls(base, reader.found)
        /\ document.name = actors[reader.found].name
    <3>1. ActorUrls(base, reader.found) \in UrlRecords /\ NoUrls \in UrlRecords
      BY <2>1 DEF ActorUrls, NoUrls, UrlRecords, ActorPagesInv
    <3> QED
      BY <2>2, <3>1 DEF Actor, DocumentRecords
  <2> HIDE DEF document
  <2>4. /\ reader' \in ReaderRecords /\ reader'.pc = "key" /\ reader'.document = document
        /\ reader'.found = reader.found /\ reader'.asked = reader.asked
    BY <1>3, <2>1, <2>3 DEF ReaderRecords
  <2>5. ReaderOK(reader')
    BY <2>1, <2>3, <2>4 DEF ReaderOK
  <2> QED
    BY <1>1, <2>5, ReaderStep
<1> QED
  BY <1>2, <1>3 DEF get_actor

LEMMA KeyStep ==
  ASSUME ActorPagesInv, ReadKey
  PROVE  ActorPagesInv'
<1>1. reader.pc = "key" /\ UNCHANGED <<base, actors, fingers, entries, outboxRead>>
  BY DEF ReadKey
<1>2. CASE reader' = Reading("idle", "none")
  BY <1>1, <1>2, ReaderBegins, ReaderStep
<1>3. ASSUME NEW key_id \in active_key_ids(reader.found),
             reader' = [reader EXCEPT !.pc = "answered", !.document.key_id = key_id]
      PROVE  ActorPagesInv'
  <2> DEFINE document == [reader.document EXCEPT !.key_id = key_id]
  <2>1. /\ reader \in ReaderRecords /\ reader.found \in Nanoids
        /\ reader.asked # "none" => actors[reader.found].name = reader.asked
        /\ reader.document.urls = ActorUrls(base, reader.found)
        /\ reader.asked # "none" => reader.document.name = reader.asked
    BY <1>1 DEF ActorPagesInv, ReaderOK
  <2>2. key_id \in UrlRecords /\ key_id.nanoid = reader.found
    <3>1. key_id = actors[reader.found].key /\ key_id # NoUrls
      BY <1>3 DEF active_key_ids
    <3> QED
      BY <2>1, <3>1 DEF ActorPagesInv, NamesOK, ActorRecords
  <2>3. reader' = [reader EXCEPT !.pc = "answered", !.document = document]
    BY <1>3, <2>1 DEF ReaderRecords, DocumentRecords
  <2>4. /\ document \in DocumentRecords /\ document.urls = reader.document.urls
        /\ document.name = reader.document.name /\ document.key_id = key_id
    BY <2>1, <2>2 DEF ReaderRecords, DocumentRecords
  <2> HIDE DEF document
  <2>5. /\ reader' \in ReaderRecords /\ reader'.pc = "answered" /\ reader'.document = document
        /\ reader'.found = reader.found /\ reader'.asked = reader.asked
    BY <2>1, <2>3, <2>4 DEF ReaderRecords
  <2>6. ReaderOK(reader')
    BY <2>1, <2>2, <2>4, <2>5 DEF ReaderOK
  <2> QED
    BY <1>1, <2>6, ReaderStep
<1> QED
  BY <1>2, <1>3 DEF ReadKey

\* Entries only become delivered.
LEMMA EntryStep ==
  ASSUME ActorPagesInv, NEW i \in Activities, ActivityStored(i) \/ mark_delivered(i)
  PROVE  ActorPagesInv'
<1>1. /\ entries' \in [Activities -> {"none", "pending", "delivered"}]
      /\ UNCHANGED <<base, actors, fingers, reader, outboxRead>>
  BY DEF ActorPagesInv, ActivityStored, mark_delivered
<1>2. \A j \in Activities : entries[j] = "delivered" => entries'[j] = "delivered"
  BY DEF ActorPagesInv, ActivityStored, mark_delivered
<1>3. DeliveredEntries \subseteq DeliveredEntries'
  BY <1>2 DEF DeliveredEntries
<1>4. OutboxOK(outboxRead)'
  BY <1>1, <1>3 DEF ActorPagesInv, OutboxOK
<1> QED
  BY <1>1, <1>4 DEF ActorPagesInv, NamesOK, FingersOK, ReaderOK

LEMMA OutboxStep ==
  ASSUME ActorPagesInv, OutboxOK(outboxRead'), UNCHANGED <<base, actors, fingers, reader, entries>>
  PROVE  ActorPagesInv'
BY DEF ActorPagesInv, NamesOK, FingersOK, ReaderOK, OutboxOK, DeliveredEntries

LEMMA OutboxBegins ==
  ASSUME NEW pc \in {"idle", "asked"}, NEW limit \in Nat, NEW cursor \in Activities \cup {0}
  PROVE  OutboxOK(OutboxRead(pc, limit, cursor))
<1> DEFINE q == OutboxRead(pc, limit, cursor)
<1>1. /\ q \in OutboxRecords /\ q.pc = pc /\ q.limit = limit /\ q.cursor = cursor
      /\ q.left = {"items", "count"} /\ q.items = {} /\ q.total = 0
  BY DEF OutboxRead, OutboxRecords
<1>2. Cardinality({}) = 0
  BY FS_EmptySet
<1> HIDE DEF q
<1>3. OutboxOK(q)
  BY <1>1, <1>2 DEF OutboxOK
<1> QED
  BY <1>3 DEF q

\* A restart ends the requests; the tables stay.
LEMMA RestartStep ==
  ASSUME ActorPagesInv, NEW b \in BaseUrls, Restarted(b)
  PROVE  ActorPagesInv'
<1>1. /\ base' = b /\ reader' = Reading("idle", "none") /\ outboxRead' = OutboxRead("idle", 0, 0)
      /\ UNCHANGED <<actors, fingers, entries>>
  BY DEF Restarted
<1>2. ReaderOK(reader)'
  <2>1. Reading("idle", "none") \in ReaderRecords /\ Reading("idle", "none").pc = "idle"
    BY ReaderBegins DEF ReaderOK, Reading
  <2> QED
    BY <1>1, <2>1 DEF ReaderOK
<1>3. OutboxOK(outboxRead)'
  <2>1. OutboxOK(OutboxRead("idle", 0, 0))
    BY OutboxBegins
  <2> QED
    BY <1>1, <2>1 DEF OutboxOK, DeliveredEntries
<1> QED
  BY <1>1, <1>2, <1>3 DEF ActorPagesInv, NamesOK, FingersOK

\* The entries of an outbox are finitely many.
LEMMA DeliveredFinite == IsFiniteSet(DeliveredEntries) /\ DeliveredEntries \in SUBSET Int
<1>1. IsFiniteSet(Activities) /\ Activities \subseteq Int
  BY FS_Interval, ActorPagesAssumption DEF Activities
<1> QED
  BY <1>1, FS_Subset DEF DeliveredEntries

\* A page of the outbox, newest first.
LEMMA OutboxPage ==
  ASSUME NEW limit \in Nat, NEW cursor \in Activities \cup {0}
  PROVE  LET page == find_by_account_id(limit, cursor)
         IN /\ page \subseteq DeliveredEntries /\ Cardinality(page) <= limit
            /\ cursor # 0 => \A i \in page : i < cursor
<1> DEFINE below == {i \in DeliveredEntries : cursor = 0 \/ i < cursor}
<1>1. IsFiniteSet(below) /\ below \in SUBSET Int /\ below \subseteq DeliveredEntries
  BY DeliveredFinite, FS_Subset
<1>2. \A i \in below : Rank(below, "prev", i) = Cardinality({j \in below : j > i})
  BY DEF Rank, Before
<1>3. find_by_account_id(limit, cursor) = PageOf(below, limit, "prev")
  BY <1>2 DEF find_by_account_id, PageOf
<1>4. \A i \in below : cursor # 0 => i < cursor
  OBVIOUS
<1> HIDE DEF below
<1>5. /\ PageOf(below, limit, "prev") \subseteq below
      /\ Cardinality(PageOf(below, limit, "prev")) <= limit
  BY <1>1, PageSize
<1> QED
  BY <1>1, <1>3, <1>4, <1>5

LEMMA FindAccountStep ==
  ASSUME ActorPagesInv, FindOutboxAccount
  PROVE  ActorPagesInv'
<1>1. /\ outboxRead \in OutboxRecords /\ OutboxOK(outboxRead)
      /\ UNCHANGED <<base, actors, fingers, reader, entries>>
  BY DEF ActorPagesInv, OutboxOK, FindOutboxAccount
<1>2. CASE outboxRead' = OutboxRead("idle", 0, 0)
  BY <1>1, <1>2, OutboxBegins, OutboxStep
<1>3. CASE outboxRead' = [outboxRead EXCEPT !.pc = "reading"]
  <2>1. /\ outboxRead' \in OutboxRecords /\ outboxRead'.items = outboxRead.items
        /\ outboxRead'.left = outboxRead.left /\ outboxRead'.pc = "reading"
        /\ outboxRead'.limit = outboxRead.limit /\ outboxRead'.cursor = outboxRead.cursor
        /\ outboxRead'.total = outboxRead.total
    BY <1>1, <1>3 DEF OutboxRecords
  <2>2. OutboxOK(outboxRead')
    BY <1>1, <2>1 DEF OutboxOK
  <2> QED
    BY <1>1, <2>2, OutboxStep
<1> QED
  BY <1>2, <1>3 DEF FindOutboxAccount

LEMMA CollectionStep ==
  ASSUME ActorPagesInv, get_outbox_collection
  PROVE  ActorPagesInv'
<1>1. /\ outboxRead \in OutboxRecords /\ outboxRead.pc = "reading" /\ outboxRead.left # {}
      /\ UNCHANGED <<base, actors, fingers, reader, entries>> /\ OutboxOK(outboxRead)
  BY DEF ActorPagesInv, OutboxOK, get_outbox_collection
<1>2. CASE "items" \in outboxRead.left
  <2> DEFINE page == find_by_account_id(outboxRead.limit, outboxRead.cursor)
  <2>1. outboxRead' = [outboxRead EXCEPT !.left = @ \ {"items"}, !.items = page]
    BY <1>1, <1>2 DEF get_outbox_collection, NextQuery, OutboxRecords
  <2>2. outboxRead.limit \in Nat /\ outboxRead.cursor \in Activities \cup {0}
    BY <1>1 DEF OutboxRecords
  <2>3. /\ page \subseteq DeliveredEntries /\ Cardinality(page) <= outboxRead.limit
        /\ outboxRead.cursor # 0 => \A i \in page : i < outboxRead.cursor
    BY <2>2, OutboxPage
  <2>4. page \in SUBSET Activities
    BY <2>3 DEF DeliveredEntries
  <2> HIDE DEF page
  <2>5. /\ outboxRead' \in OutboxRecords /\ outboxRead'.items = page
        /\ outboxRead'.left = outboxRead.left \ {"items"} /\ outboxRead'.pc = "reading"
        /\ outboxRead'.limit = outboxRead.limit /\ outboxRead'.cursor = outboxRead.cursor
    BY <1>1, <2>1, <2>4 DEF OutboxRecords
  <2>6. "count" \in outboxRead.left
    BY <1>1, <1>2 DEF OutboxOK
  <2>7. OutboxOK(outboxRead')
    BY <2>3, <2>5, <2>6 DEF OutboxOK
  <2> QED
    BY <1>1, <2>7, OutboxStep
<1>3. CASE "items" \notin outboxRead.left
  <2>1. outboxRead' = [outboxRead EXCEPT !.left = @ \ {"count"}, !.total = count_by_account_id]
    BY <1>1, <1>3 DEF get_outbox_collection, NextQuery, OutboxRecords
  <2>2. /\ count_by_account_id \in Nat
        /\ Cardinality(outboxRead.items) <= count_by_account_id
    BY <1>1, DeliveredFinite, FS_CardinalityType, FS_Subset DEF OutboxOK, count_by_account_id
  <2>3. /\ outboxRead' \in OutboxRecords /\ outboxRead'.items = outboxRead.items
        /\ outboxRead'.left = outboxRead.left \ {"count"} /\ outboxRead'.pc = "reading"
        /\ outboxRead'.limit = outboxRead.limit /\ outboxRead'.cursor = outboxRead.cursor
        /\ outboxRead'.total = count_by_account_id
    BY <1>1, <2>1, <2>2 DEF OutboxRecords
  <2>4. Cardinality(outboxRead.items) \in Nat
    BY <1>1, DeliveredFinite, FS_CardinalityType, FS_Subset DEF OutboxOK
  <2>5. OutboxOK(outboxRead')
    BY <1>1, <1>3, <2>2, <2>3, <2>4 DEF OutboxOK
  <2> QED
    BY <1>1, <2>5, OutboxStep
<1> QED
  BY <1>2, <1>3

LEMMA OrderedItemsStep ==
  ASSUME ActorPagesInv, with_ordered_items
  PROVE  ActorPagesInv'
<1>1. /\ outboxRead \in OutboxRecords /\ outboxRead.left = {} /\ OutboxOK(outboxRead)
      /\ UNCHANGED <<base, actors, fingers, reader, entries>>
      /\ outboxRead' = [outboxRead EXCEPT !.pc = "answered"]
  BY DEF ActorPagesInv, OutboxOK, with_ordered_items
<1>2. /\ outboxRead' \in OutboxRecords /\ outboxRead'.items = outboxRead.items
      /\ outboxRead'.left = outboxRead.left /\ outboxRead'.pc = "answered"
      /\ outboxRead'.limit = outboxRead.limit /\ outboxRead'.cursor = outboxRead.cursor
      /\ outboxRead'.total = outboxRead.total
  BY <1>1 DEF OutboxRecords
<1>3. OutboxOK(outboxRead')
  BY <1>1, <1>2 DEF OutboxOK
<1> QED
  BY <1>1, <1>3, OutboxStep

LEMMA ActorPagesInvInit == ActorPagesInit => ActorPagesInv
<1> SUFFICES ASSUME ActorPagesInit PROVE ActorPagesInv
  OBVIOUS
<1>1. NoActor \in ActorRecords /\ NoActor.name = "none"
  BY DEF NoActor, Account, ActorRecords, NoUrls, ActorUrls, UrlRecords
<1>2. NamesOK
  <2>1. NoActor.key = NoUrls
    BY DEF NoActor, Account
  <2>2. ASSUME NEW name \in Usernames
        PROVE  /\ Account(name, TRUE, NoUrls) \in ActorRecords
               /\ Account(name, TRUE, NoUrls).name = name
               /\ Account(name, TRUE, NoUrls).key = NoUrls
    BY DEF Account, NoUrls, ActorUrls, UrlRecords, ActorRecords
  <2>3. ASSUME NEW n \in Nanoids
        PROVE  /\ actors[n] \in ActorRecords /\ actors[n].key = NoUrls
               /\ \/ actors[n] = NoActor
                  \/ actors[n].name \in Usernames /\ actors[n] = Account(actors[n].name, TRUE, NoUrls)
    <3>1. actors[n] = NoActor \/ \E name \in Usernames : actors[n] = Account(name, TRUE, NoUrls)
      BY DEF ActorPagesInit
    <3> QED
      BY <1>1, <2>1, <2>2, <3>1
  <2>4. actors \in [Nanoids -> ActorRecords]
    <3>1. actors = [n \in Nanoids |-> actors[n]]
      BY DEF ActorPagesInit
    <3> QED
      BY <2>3, <3>1
  <2>5. \A m, n \in Nanoids : actors[m].name # "none" /\ actors[m].name = actors[n].name => m = n
    BY <1>1, <2>3 DEF ActorPagesInit
  <2> QED
    BY <2>3, <2>4, <2>5, ActorPagesAssumption DEF NamesOK
<1>3. FingersOK(fingers)
  BY DEF ActorPagesInit, FingersOK
<1>4. ReaderOK(reader)
  BY ReaderBegins DEF ActorPagesInit
<1>5. OutboxOK(outboxRead)
  BY OutboxBegins DEF ActorPagesInit
<1> QED
  BY <1>2, <1>3, <1>4, <1>5 DEF ActorPagesInv, ActorPagesInit

LEMMA ActorPagesInvStep ==
  ActorPagesInv /\ [ActorPagesNext]_actorPageVars => ActorPagesInv'
<1> SUFFICES ASSUME ActorPagesInv, [ActorPagesNext]_actorPageVars PROVE ActorPagesInv'
  OBVIOUS
<1>1. CASE UNCHANGED actorPageVars
  BY <1>1
  DEF actorPageVars, ActorPagesInv, NamesOK, FingersOK, ReaderOK, OutboxOK, DeliveredEntries
<1>2. ASSUME NEW name \in Usernames, webfinger(name) PROVE ActorPagesInv'
  BY <1>2, ReaderBegins, ReaderStep DEF webfinger
<1>3. ASSUME NEW limit \in OutboxLimits, NEW cursor \in Activities \cup {0},
             get_outbox(limit, cursor)
      PROVE  ActorPagesInv'
  BY <1>3, ActorPagesAssumption, OutboxBegins, OutboxStep DEF get_outbox
<1>4. CASE ActorNext
  BY <1>2, <1>4, AccountCreatedStep, VisibilityStep, RestartStep, ActorRouteStep, WebFingerStep,
     DocumentStep, KeyStep
  DEF ActorNext, AccountNext
<1>5. CASE OutboxNext
  BY <1>3, <1>5, AccountCreatedStep, VisibilityStep, EntryStep, FindAccountStep, CollectionStep,
     OrderedItemsStep, ActorPagesAssumption
  DEF OutboxNext, AccountNext
<1> QED
  BY <1>1, <1>4, <1>5 DEF ActorPagesNext

LEMMA ActorPagesInvSuffices == ActorPagesInv => ActorPageSafety
<1> SUFFICES ASSUME ActorPagesInv PROVE ActorPageSafety
  OBVIOUS
<1>1. ActorPagesTypeOK
  BY DEF ActorPagesInv, NamesOK, FingersOK, OutboxOK, OutboxRecords, ActorPagesTypeOK
<1>2. NamesKeepTheirActor
  <2>1. \A f \in fingers : f[1] # "none" /\ f[2] \in Nanoids /\ actors[f[2]].name = f[1]
    BY DEF ActorPagesInv, FingersOK
  <2> QED
    BY <2>1 DEF ActorPagesInv, NamesOK, NamesKeepTheirActor
<1>3. DocumentOfTheNamed
  BY DEF ActorPagesInv, ReaderOK, DocumentOfTheNamed
<1>4. CountCoversItems
  BY DEF ActorPagesInv, OutboxOK, CountCoversItems
<1> QED
  BY <1>1, <1>2, <1>3, <1>4 DEF ActorPageSafety

\* For every set of accounts, names and limits: a name that WebFinger resolved
\* names the same actor for ever, the actor document of a name is that of the
\* account found for it, and totalItems of an outbox covers the items.
THEOREM ActorPagesCorrect == ActorPagesSpec => []ActorPageSafety
BY ActorPagesInvInit, ActorPagesInvStep, ActorPagesInvSuffices, PTL DEF ActorPagesSpec
=============================================================================
