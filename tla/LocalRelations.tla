--------------------------- MODULE LocalRelations ---------------------------
(***************************************************************************)
(* Mutes and blocks that a client sets on other accounts of this instance  *)
(* (mutes on remote actors too), and the lists of mutes, blocks and        *)
(* follows.  A use case takes several statements: find the account, check  *)
(* the permission, resolve the target, then read or write.  A moderator or *)
(* an owner can hide any account between two of them, and other requests   *)
(* of the same account run at the same time.                               *)
(*                                                                         *)
(* A block on a remote actor, with its follows and its outbox, is the      *)
(* subject of Relations.                                                   *)
(***************************************************************************)
EXTENDS Integers

CONSTANTS
  Members,        \* local accounts
  Callers,        \* those of them that make requests
  Strangers,      \* remote actors
  Tasks,          \* concurrent requests
  MaxRelation     \* bound of the model: ids handed out to relations

ASSUME CallersAssumption == Callers \subseteq Members /\ Members \cap Strangers = {}
ASSUME MaxRelationAssumption == MaxRelation \in Nat

VARIABLES
  visible,      \* accounts that are not deleted, suspended or banned
  relations,    \* the rows of mutes, blocks and follows
  made,         \* history: every row there ever was
  nextRelation, \* next id of generate_id()
  tasks         \* what each request is doing

relationVars == <<visible, relations, made, nextRelation, tasks>>

Targets == Members \cup Strangers

Kinds == {"mute", "block", "follow"}

\* A follow can wait for its Accept; mutes and blocks are in force at once.
Relation(kind, id, source, destination, approved) ==
  [kind |-> kind, id |-> id, source |-> source, destination |-> destination,
   approved |-> approved]

\* Faulty variant: every row gets the same id.
SameIdFaulty(id, source, destination) == Relation("mute", 1, source, destination, TRUE)

\* Mute::new and Block::new; one end is always local.
Mute(id, source, destination) == Relation("mute", id, source, destination, TRUE)
Block(id, source, destination) == Relation("block", id, source, destination, TRUE)

\* known (a history): the rows there had been when the request read those it
\* works on; left and listed: the rows a list has still to look up, and those it has.
Task(pc, op, account, target) ==
  [pc |-> pc, op |-> op, account |-> account, target |-> target,
   id |-> 0, known |-> {}, left |-> {}, listed |-> {}]

\* Also a request that is over, unless its answer tells something.
NoTask == Task("idle", "none", "none", "none")

LocalRelationsInit ==
  /\ visible = Members
  /\ relations = {}
  /\ made = {}
  /\ nextRelation = 1
  /\ tasks = [t \in Tasks |-> NoTask]

-----------------------------------------------------------------------------
(* The routes.                                                             *)

\* An empty account or target is a 400 and starts nothing.
validate_relation_request(t, op, targets) ==
  /\ tasks[t].pc \in {"idle", "done"}
  /\ \E a \in Callers, x \in targets :
       tasks' = [tasks EXCEPT ![t] = Task("account", op, a, x)]
  /\ UNCHANGED <<visible, relations, made, nextRelation>>

mute_route(t) == validate_relation_request(t, "mute", Targets)
unmute_route(t) == validate_relation_request(t, "unmute", Targets)
block_route(t) == validate_relation_request(t, "block", Members)
unblock_route(t) == validate_relation_request(t, "unblock", Members)

\* A list has no target.
mutes_route(t) == validate_relation_request(t, "mutes", {"none"})
blocks_route(t) == validate_relation_request(t, "blocks", {"none"})
following_route(t) == validate_relation_request(t, "following", {"none"})
followers_route(t) == validate_relation_request(t, "followers", {"none"})

-----------------------------------------------------------------------------
(* The common steps of the use cases.                                      *)

Advance(t, pc) == tasks' = [tasks EXCEPT ![t].pc = pc]

Ends(t) == tasks' = [tasks EXCEPT ![t] = NoTask]

\* The queries leave deleted, suspended and banned accounts out.
find_by_nanoid(a) == a \in visible
find_by_id(a) == a \in visible

Lists == {"mutes", "blocks", "following", "followers"}

\* The account is found and its caller has account_sign, which its owner has.
check_permission(t) ==
  /\ tasks[t].pc = "account"
  /\ find_by_nanoid(tasks[t].account)
  /\ Advance(t, IF tasks[t].op \in Lists THEN "list" ELSE "target")
  /\ UNCHANGED <<visible, relations, made, nextRelation>>

\* NotFound, or PermissionDenied for a caller who does not own the account.
Refused(t) ==
  /\ tasks[t].pc = "account"
  /\ Ends(t)
  /\ UNCHANGED <<visible, relations, made, nextRelation>>

\* resolve_mute_target: what is not the nanoid of a visible account is taken
\* for a remote actor, which a nanoid never is; a look at a remote server may fail.
resolve_mute_target(x, reached) == IF x \in Members THEN find_by_nanoid(x) ELSE reached

resolve_block_target(x) == find_by_nanoid(x)

\* "Cannot mute yourself", "Cannot block yourself".
Yourself(task) == task.op \in {"mute", "block"} /\ task.account = task.target

ResolveTarget(t, reached) ==
  /\ tasks[t].pc = "target"
  /\ LET found == IF tasks[t].op \in {"mute", "unmute"}
                  THEN resolve_mute_target(tasks[t].target, reached)
                  ELSE resolve_block_target(tasks[t].target)
     IN IF found /\ ~Yourself(tasks[t]) THEN Advance(t, tasks[t].op) ELSE Ends(t)
  /\ UNCHANGED <<visible, relations, made, nextRelation>>

SamePair(kind, task) ==
  {r \in relations : r.kind = kind /\ r.source = task.account /\ r.destination = task.target}

-----------------------------------------------------------------------------
(* Mutes.                                                                  *)

\* Faulty variant: one mute per muting account.
OnePerMuterFaulty(task) == {r \in relations : r.kind = "mute" /\ r.source = task.account}

\* The unique indexes of mutes.
MutesInConflict(task) == SamePair("mute", task)

\* insert_if_absent: a duplicate is no error.
mute_account(t) ==
  /\ tasks[t].pc = "mute"
  /\ nextRelation <= MaxRelation
  /\ LET row == Mute(nextRelation, tasks[t].account, tasks[t].target)
         added == IF MutesInConflict(tasks[t]) = {} THEN {row} ELSE {}
     IN relations' = relations \cup added /\ made' = made \cup added
  /\ nextRelation' = nextRelation + 1
  /\ tasks' = [tasks EXCEPT ![t].pc = "done", ![t].id = nextRelation]
  /\ UNCHANGED visible

\* delete_if_exists: no mute to delete is no error.
unmute_account(t) ==
  /\ tasks[t].pc = "unmute"
  /\ relations' = relations \ SamePair("mute", tasks[t])
  /\ Ends(t)
  /\ UNCHANGED <<visible, made, nextRelation>>

-----------------------------------------------------------------------------
(* Blocks.  The transaction reads the blocks of the account first.         *)

\* The id of the block is drawn before find_blocks; already blocked is an error.
block_account(t) ==
  /\ tasks[t].pc = "block"
  /\ nextRelation <= MaxRelation
  /\ IF SamePair("block", tasks[t]) = {}
     THEN tasks' = [tasks EXCEPT ![t].pc = "create", ![t].id = nextRelation]
     ELSE Ends(t)
  /\ nextRelation' = nextRelation + 1
  /\ UNCHANGED <<visible, relations, made>>

\* Faulty variant: the look before is all that keeps a pair from two blocks.
NoIndexFaulty(task) == {}

\* The unique indexes of blocks.
BlocksInConflict(task) == SamePair("block", task)

\* create; between local accounts there is no follow to remove and no activity
\* to send, so the transaction commits with it.
CreateBlock(t) ==
  /\ tasks[t].pc = "create"
  /\ LET row == Block(tasks[t].id, tasks[t].account, tasks[t].target)
         added == IF BlocksInConflict(tasks[t]) = {} THEN {row} ELSE {}
     IN relations' = relations \cup added /\ made' = made \cup added
  /\ Ends(t)
  /\ UNCHANGED <<visible, nextRelation>>

\* find_blocks of unblock_account, for the id of the block.
unblock_account(t) ==
  /\ tasks[t].pc = "unblock"
  /\ \/ /\ SamePair("block", tasks[t]) = {}
        /\ Ends(t)
     \/ \E b \in SamePair("block", tasks[t]) :
          tasks' = [tasks EXCEPT ![t].pc = "delete", ![t].id = b.id, ![t].known = made]
  /\ UNCHANGED <<visible, relations, made, nextRelation>>

\* Faulty variant: the pair is deleted, whichever row it is by now.
DeleteByPairFaulty(task) == SamePair("block", task)

\* DELETE FROM blocks WHERE id = ..
DeletedBlocks(task) == {r \in relations : r.kind = "block" /\ r.id = task.id}

\* A block that another request has deleted meanwhile is an error.
DeleteBlock(t) ==
  /\ tasks[t].pc = "delete"
  /\ relations' = relations \ DeletedBlocks(tasks[t])
  /\ Ends(t)
  /\ UNCHANGED <<visible, made, nextRelation>>

-----------------------------------------------------------------------------
(* Lists.                                                                  *)

find_mutes(a) == {r \in relations : r.kind = "mute" /\ r.source = a}
find_blocks(a) == {r \in relations : r.kind = "block" /\ r.source = a}
find_followings(a) == {r \in relations : r.kind = "follow" /\ r.source = a}
find_followers(a) == {r \in relations : r.kind = "follow" /\ r.destination = a}

Followings == {"following", "following_collection"}

\* Only follows that are approved are listed.
list_approved_relations(op, a) ==
  {r \in IF op \in Followings THEN find_followings(a) ELSE find_followers(a) : r.approved}

Listed(op, a) ==
  CASE op = "mutes" -> find_mutes(a)
    [] op = "blocks" -> find_blocks(a)
    [] OTHER -> list_approved_relations(op, a)

ReadList(t) ==
  /\ tasks[t].pc = "list"
  /\ tasks' = [tasks EXCEPT ![t].pc = "lookup", ![t].known = made,
                            ![t].left = Listed(tasks[t].op, tasks[t].account)]
  /\ UNCHANGED <<visible, relations, made, nextRelation>>

\* The account at the other end.
Other(op, r) == IF op = "followers" THEN r.source ELSE r.destination

\* The row of a remote actor is never deleted.
Found(op, r) == Other(op, r) \in Members => find_by_id(Other(op, r))

\* Faulty variant: a target that is not found is left out of the list.
SkipHiddenFaulty(t, r) ==
  tasks' = [tasks EXCEPT ![t].left = @ \ {r},
                         ![t].listed = IF Found(tasks[t].op, r) THEN @ \cup {r} ELSE @]

\* "Muted local account not found": an Internal error, and no list at all.
LookedUp(t, r) ==
  IF Found(tasks[t].op, r)
  THEN tasks' = [tasks EXCEPT ![t].left = @ \ {r}, ![t].listed = @ \cup {r}]
  ELSE Ends(t)

\* One query per row.
LookUp(t) ==
  /\ tasks[t].pc = "lookup"
  /\ \/ /\ tasks[t].left = {}
        /\ Advance(t, "done")
     \/ \E r \in tasks[t].left : LookedUp(t, r)
  /\ UNCHANGED <<visible, relations, made, nextRelation>>

-----------------------------------------------------------------------------
(* The collections that other servers read, without a permission.          *)

Collections == {"followers_collection", "following_collection"}

\* An account that is not visible is a 404.
find_account_id_by_nanoid(t, op) ==
  /\ tasks[t].pc \in {"idle", "done"}
  /\ \E a \in Callers : /\ find_by_nanoid(a)
                        /\ tasks' = [tasks EXCEPT ![t] = Task("collection", op, a, "none")]
  /\ UNCHANGED <<visible, relations, made, nextRelation>>

followers_collection_route(t) == find_account_id_by_nanoid(t, "followers_collection")
following_collection_route(t) == find_account_id_by_nanoid(t, "following_collection")

\* Only the number of the follows is told, and no account is looked up.
Counted(t) ==
  /\ tasks' = IF find_by_id(tasks[t].account)
              THEN [tasks EXCEPT ![t].pc = "done", ![t].known = made,
                                 ![t].listed = Listed(tasks[t].op, tasks[t].account)]
              ELSE [tasks EXCEPT ![t] = NoTask]
  /\ UNCHANGED <<visible, relations, made, nextRelation>>

get_followers_collection(t) ==
  /\ tasks[t].pc = "collection" /\ tasks[t].op = "followers_collection"
  /\ Counted(t)

get_following_collection(t) ==
  /\ tasks[t].pc = "collection" /\ tasks[t].op = "following_collection"
  /\ Counted(t)

-----------------------------------------------------------------------------
(* What happens beside the requests.                                       *)

\* Suspended, banned or deactivated; mutes and blocks stay, and a deactivated
\* account loses its follows.
Hidden(a, deactivated) ==
  /\ a \in visible
  /\ visible' = visible \ {a}
  /\ relations' = IF deactivated
                  THEN {r \in relations : r.kind # "follow" \/ a \notin {r.source, r.destination}}
                  ELSE relations
  /\ UNCHANGED <<made, nextRelation, tasks>>

Shown(a) ==
  /\ a \in Members \ visible
  /\ visible' = visible \cup {a}
  /\ UNCHANGED <<relations, made, nextRelation, tasks>>

\* A follow from or to a remote actor, as Relations has them.
Followed(source, destination, approved) ==
  /\ nextRelation <= MaxRelation
  /\ \A r \in relations :
       ~(r.kind = "follow" /\ r.source = source /\ r.destination = destination)
  /\ LET row == Relation("follow", nextRelation, source, destination, approved)
     IN relations' = relations \cup {row} /\ made' = made \cup {row}
  /\ nextRelation' = nextRelation + 1
  /\ UNCHANGED <<visible, tasks>>

UseCaseStep(t) ==
  \/ check_permission(t) \/ Refused(t)
  \/ \E reached \in BOOLEAN : ResolveTarget(t, reached)
  \/ ReadList(t) \/ LookUp(t)

Moderation ==
  \E a \in Members : Shown(a) \/ \E deactivated \in BOOLEAN : Hidden(a, deactivated)

\* The three tables share nothing but the accounts: each is explored alone.
MutesNext ==
  \/ \E t \in Tasks : \/ mute_route(t) \/ unmute_route(t) \/ mutes_route(t)
                      \/ UseCaseStep(t) \/ mute_account(t) \/ unmute_account(t)
  \/ Moderation

BlocksNext ==
  \/ \E t \in Tasks : \/ block_route(t) \/ unblock_route(t) \/ blocks_route(t)
                      \/ UseCaseStep(t) \/ block_account(t) \/ CreateBlock(t)
                      \/ unblock_account(t) \/ DeleteBlock(t)
  \/ Moderation

FollowsNext ==
  \/ \E t \in Tasks : \/ following_route(t) \/ followers_route(t) \/ UseCaseStep(t)
                      \/ followers_collection_route(t) \/ following_collection_route(t)
                      \/ get_followers_collection(t) \/ get_following_collection(t)
  \/ \E a \in Callers, x \in Strangers :
       Followed(x, a, TRUE) \/ \E approved \in BOOLEAN : Followed(a, x, approved)
  \/ Moderation

LocalRelationsNext == MutesNext \/ BlocksNext \/ FollowsNext

LocalRelationsSpec == LocalRelationsInit /\ [][LocalRelationsNext]_relationVars

-----------------------------------------------------------------------------
(* Properties.                                                             *)

(* Ids are handed out once, every row there is has been made, and a        *)
(* request works on an account of this instance.                           *)
LocalRelationsTypeOK ==
  /\ visible \subseteq Members
  /\ relations \subseteq made
  /\ \A r, s \in made : r.id = s.id => r = s
  /\ \A r \in made : /\ r.kind \in Kinds
                     /\ r.id \in 1..(nextRelation - 1)
                     /\ {r.source, r.destination} \cap Members # {}
  /\ nextRelation \in 1..(MaxRelation + 1)
  /\ \A t \in Tasks : tasks[t] = NoTask \/ tasks[t].account \in Callers

(* However two requests of one account interleave, mutes and blocks hold at*)
(* most one row per pair, and none of an account with itself: what         *)
(* find_blocks saw before the insert does not have to be true any more.    *)
OneRelationEach ==
  /\ \A r \in relations : r.source # r.destination
  /\ \A r, s \in relations :
       /\ r.kind = s.kind
       /\ r.source = s.source
       /\ r.destination = s.destination
       => r = s

(* A mute answered with success was in force: the target has been muted by *)
(* this account, by this request or by an earlier one whose row it found.  *)
MutedWhenAnswered ==
  \A t \in Tasks :
    tasks[t].op = "mute" /\ tasks[t].pc = "done" =>
      \E r \in made : /\ r.kind = "mute"
                      /\ r.id <= tasks[t].id
                      /\ r.source = tasks[t].account
                      /\ r.destination = tasks[t].target

(* A list or a count that is answered is whole: a relation of the account  *)
(* that is not in it was made after it was read.  An account that is hidden*)
(* while the list looks it up fails the list and never thins it out.       *)
ListsAreWhole ==
  \A t \in Tasks :
    tasks[t].op \in Lists \cup Collections /\ tasks[t].pc = "done" =>
      /\ \A r \in Listed(tasks[t].op, tasks[t].account) :
           r \in tasks[t].listed \/ r \notin tasks[t].known
      /\ \A r \in tasks[t].listed : r.approved /\ r \in tasks[t].known

(* An unblock that was overtaken by another unblock and a new block deletes*)
(* nothing: a block goes only through a request that found it.             *)
UnblockDeletesWhatItFound ==
  [][\A b \in relations \ relations' :
       b.kind = "block" =>
         \E t \in Tasks : tasks[t].pc = "delete" /\ b \in tasks[t].known]_relationVars

(* What holds of mutes, blocks and lists however requests interleave with  *)
(* each other and with the hiding of accounts.                             *)
LocalRelationSafety ==
  LocalRelationsTypeOK /\ OneRelationEach /\ MutedWhenAnswered /\ ListsAreWhole
=============================================================================
