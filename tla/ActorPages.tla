----------------------------- MODULE ActorPages -----------------------------
(***************************************************************************)
(* What other servers read of an account: WebFinger, the actor document and*)
(* the outbox.  Each request takes several statements, while accounts are  *)
(* created, hidden and shown again and deliveries end.                     *)
(***************************************************************************)
EXTENDS Integers, FiniteSets

CONSTANTS
  Nanoids,         \* ids that accounts get
  Usernames,       \* names that accounts ask for
  BaseUrls,        \* values of PUBLIC_BASE_URL, which a restart may change
  OutboxAccount,   \* the account whose outbox is followed
  OutboxLimits,    \* limits of the outbox requests
  MaxActivity      \* bound of the model: activities of the account's outbox

ASSUME ActorPagesAssumption ==
  /\ OutboxLimits \subseteq Nat /\ MaxActivity \in Nat /\ OutboxAccount \in Nanoids
  /\ "none" \notin Usernames

VARIABLES
  base,        \* public_base_url
  actors,      \* actors[n]: name, visibility and key of the account, NoActor if none
  fingers,     \* history: the pairs of name and nanoid that WebFinger answered
  reader,      \* a request for WebFinger or for an actor document
  entries,     \* entries[i]: activity i of OutboxAccount: none, pending, delivered
  outboxRead   \* a request for its outbox

actorPageVars == <<base, actors, fingers, reader, entries, outboxRead>>

Activities == 1..MaxActivity

\* ActorUrlBuilder derives every URL of an actor, that of its key too, from these.
ActorUrls(b, n) == [base |-> b, nanoid |-> n]
NoUrls == ActorUrls("none", "none")

\* key is the stored key_id_uri of the active signing key.
Account(name, shown, key) == [name |-> name, shown |-> shown, key |-> key]
NoActor == Account("none", FALSE, NoUrls)

\* Actor::new, with the key that find_active_by_account_id returned.
Actor(urls, name, key_id) == [urls |-> urls, name |-> name, key_id |-> key_id]
NoDocument == Actor(NoUrls, "none", NoUrls)

Reading(pc, asked) == [pc |-> pc, asked |-> asked, found |-> "none", document |-> NoDocument]

OutboxRead(pc, limit, cursor) ==
  [pc |-> pc, limit |-> limit, cursor |-> cursor, left |-> {"items", "count"},
   items |-> {}, total |-> 0]

\* Accounts older than the table signing_keys have no key.
ActorPagesInit ==
  /\ base \in BaseUrls
  /\ actors \in [Nanoids -> {NoActor} \cup {Account(name, TRUE, NoUrls) : name \in Usernames}]
  /\ \A m, n \in Nanoids : actors[m] = actors[n] /\ actors[m] # NoActor => m = n
  /\ fingers = {}
  /\ reader = Reading("idle", "none")
  /\ entries = [i \in Activities |-> "none"]
  /\ outboxRead = OutboxRead("idle", 0, 0)

-----------------------------------------------------------------------------
(* The accounts.                                                           *)

\* Faulty variant: the name of an account that is gone can be taken again.
FreedNameFaulty(name) == \A n \in Nanoids : actors[n].name # name \/ ~actors[n].shown

\* accounts_name_key: a name is taken for good, also by a deleted account.
NameFree(name) == \A n \in Nanoids : actors[n].name # name

\* The transaction of create_account, which also stores a signing key; key_id_uri is
\* made of the base URL of that time.
AccountCreated(n, name) ==
  /\ actors[n] = NoActor
  /\ NameFree(name)
  /\ actors' = [actors EXCEPT ![n] = Account(name, TRUE, ActorUrls(base, n))]
  /\ UNCHANGED <<base, fingers, reader, entries, outboxRead>>

\* Suspended, banned or deactivated, and back.
VisibilityChanged(n) ==
  /\ actors[n] # NoActor
  /\ actors' = [actors EXCEPT ![n].shown = ~@]
  /\ UNCHANGED <<base, fingers, reader, entries, outboxRead>>

\* The process is restarted, with the same base URL or another.
Restarted(b) ==
  /\ base' = b
  /\ reader' = Reading("idle", "none")
  /\ outboxRead' = OutboxRead("idle", 0, 0)
  /\ UNCHANGED <<actors, fingers, entries>>

-----------------------------------------------------------------------------
(* WebFinger.                                                              *)

Idle == reader.pc \in {"idle", "answered"}

\* A resource that is no acct: URI is a 400, one of another domain a 404.
webfinger(name) ==
  /\ Idle
  /\ reader' = Reading("finger", name)
  /\ UNCHANGED <<base, actors, fingers, entries, outboxRead>>

find_by_name(name) == {n \in Nanoids : actors[n].name = name /\ actors[n].shown}

\* The href that is answered is the actor's URL, which the client then reads.
get_webfinger ==
  /\ reader.pc = "finger"
  /\ \/ /\ find_by_name(reader.asked) = {}
        /\ reader' = Reading("idle", "none")
        /\ UNCHANGED fingers
     \/ \E n \in find_by_name(reader.asked) :
          /\ fingers' = fingers \cup {<<reader.asked, n>>}
          /\ reader' = [reader EXCEPT !.pc = "actor", !.found = n]
  /\ UNCHANGED <<base, actors, entries, outboxRead>>

-----------------------------------------------------------------------------
(* The actor document.                                                     *)

\* A client that has the URL of an actor.
actor_route(n) ==
  /\ Idle
  /\ reader' = [Reading("actor", "none") EXCEPT !.found = n]
  /\ UNCHANGED <<base, actors, fingers, entries, outboxRead>>

\* get_actor finds the account, then its profile, its key and its images.
get_actor ==
  /\ reader.pc = "actor"
  /\ reader' = IF actors[reader.found].shown
               THEN [reader EXCEPT !.pc = "key",
                       !.document = Actor(ActorUrls(base, reader.found),
                                          actors[reader.found].name, NoUrls)]
               ELSE Reading("idle", "none")
  /\ UNCHANGED <<base, actors, fingers, entries, outboxRead>>

\* Faulty variant: the key of some account.
AnyKeyFaulty(n) == {actors[m].key : m \in Nanoids} \ {NoUrls}

\* find_active_by_account_id: the program makes one key for an account and revokes none.
active_key_ids(n) == {actors[n].key} \ {NoUrls}

\* The id in the document is the stored one; without a key there is no document.
ReadKey ==
  /\ reader.pc = "key"
  /\ \/ /\ active_key_ids(reader.found) = {}
        /\ reader' = Reading("idle", "none")
     \/ \E key_id \in active_key_ids(reader.found) :
          reader' = [reader EXCEPT !.pc = "answered", !.document.key_id = key_id]
  /\ UNCHANGED <<base, actors, fingers, entries, outboxRead>>

-----------------------------------------------------------------------------
(* The outbox.                                                             *)

\* create: ids are drawn in order, but the transactions commit in any.
ActivityStored(i) ==
  /\ actors[OutboxAccount] # NoActor
  /\ entries[i] = "none"
  /\ entries' = [entries EXCEPT ![i] = "pending"]
  /\ UNCHANGED <<base, actors, fingers, reader, outboxRead>>

\* mark_delivered; deliveries end in any order, or never.
mark_delivered(i) ==
  /\ entries[i] = "pending"
  /\ entries' = [entries EXCEPT ![i] = "delivered"]
  /\ UNCHANGED <<base, actors, fingers, reader, outboxRead>>

\* find_account_id_by_nanoid, a 404 for an account that is not shown; parse_limit and
\* parse_cursor: 20 and none when absent, a 400 when no number.
get_outbox(limit, cursor) ==
  /\ outboxRead.pc \in {"idle", "answered"}
  /\ actors[OutboxAccount].shown
  /\ outboxRead' = OutboxRead("asked", limit, cursor)
  /\ UNCHANGED <<base, actors, fingers, reader, entries>>

\* get_outbox_collection looks the account up again, by its id.
FindOutboxAccount ==
  /\ outboxRead.pc = "asked"
  /\ outboxRead' = IF actors[OutboxAccount].shown
                   THEN [outboxRead EXCEPT !.pc = "reading"] ELSE OutboxRead("idle", 0, 0)
  /\ UNCHANGED <<base, actors, fingers, reader, entries>>

DeliveredEntries == {i \in Activities : entries[i] = "delivered"}

\* Faulty variant: everything below the cursor.
UnlimitedFaulty(limit, cursor) == {i \in DeliveredEntries : cursor = 0 \/ i < cursor}

\* Delivered, id below the cursor, the newest ones first.
find_by_account_id(limit, cursor) ==
  LET below == {i \in DeliveredEntries : cursor = 0 \/ i < cursor}
  IN {i \in below : Cardinality({j \in below : j > i}) < limit}

count_by_account_id == Cardinality(DeliveredEntries)

\* Faulty variant: the count comes first.
CountFirstFaulty(left) == IF "count" \in left THEN "count" ELSE "items"

\* Then it reads the page and counts afterwards.
NextQuery(left) == IF "items" \in left THEN "items" ELSE "count"

get_outbox_collection ==
  /\ outboxRead.pc = "reading" /\ outboxRead.left # {}
  /\ LET query == NextQuery(outboxRead.left)
     IN outboxRead' =
          [outboxRead EXCEPT !.left = @ \ {query},
             !.items = IF query = "items"
                       THEN find_by_account_id(outboxRead.limit, outboxRead.cursor) ELSE @,
             !.total = IF query = "count" THEN count_by_account_id ELSE @]
  /\ UNCHANGED <<base, actors, fingers, reader, entries>>

\* OrderedCollection::with_ordered_items.
with_ordered_items ==
  /\ outboxRead.pc = "reading" /\ outboxRead.left = {}
  /\ outboxRead' = [outboxRead EXCEPT !.pc = "answered"]
  /\ UNCHANGED <<base, actors, fingers, reader, entries>>

-----------------------------------------------------------------------------

AccountNext(n) == VisibilityChanged(n) \/ \E name \in Usernames : AccountCreated(n, name)

ActorNext ==
  \/ \E n \in Nanoids : AccountNext(n) \/ actor_route(n)
  \/ \E b \in BaseUrls : Restarted(b)
  \/ \E name \in Usernames : webfinger(name)
  \/ get_webfinger \/ get_actor \/ ReadKey

OutboxNext ==
  \/ AccountNext(OutboxAccount)
  \/ \E i \in Activities : ActivityStored(i) \/ mark_delivered(i)
  \/ \E limit \in OutboxLimits, cursor \in Activities \cup {0} : get_outbox(limit, cursor)
  \/ FindOutboxAccount \/ get_outbox_collection \/ with_ordered_items

ActorPagesNext == ActorNext \/ OutboxNext

ActorPagesSpec == ActorPagesInit /\ [][ActorPagesNext]_actorPageVars

-----------------------------------------------------------------------------
(* Properties.                                                             *)

(* A page of the outbox has at most as many items as were asked for, all   *)
(* of them below the cursor.                                               *)
ActorPagesTypeOK ==
  /\ \A n \in Nanoids : actors[n] = NoActor \/ actors[n].name \in Usernames
  /\ fingers \subseteq Usernames \X Nanoids
  /\ entries \in [Activities -> {"none", "pending", "delivered"}]
  /\ outboxRead.items \subseteq Activities
  /\ Cardinality(outboxRead.items) <= outboxRead.limit
  /\ outboxRead.cursor # 0 => \A i \in outboxRead.items : i < outboxRead.cursor

(* A name that WebFinger has answered once names the same actor for ever:  *)
(* servers keep what they resolved, so a deactivated account must not hand *)
(* its name on.                                                            *)
NamesKeepTheirActor == \A f, g \in fingers : f[1] = g[1] => f[2] = g[2]

(* The actor document found through WebFinger is that of the account asked *)
(* for: same name, under the URL of the answer, with that account's own    *)
(* key, whatever happened to the accounts between the reads.  The id of the*)
(* key keeps the base URL under which it was made.                         *)
DocumentOfTheNamed ==
  reader.pc = "answered" =>
    /\ reader.document.urls = ActorUrls(base, reader.found)
    /\ reader.document.key_id.nanoid = reader.found
    /\ reader.asked # "none" => reader.document.name = reader.asked

(* totalItems is never less than the items of the page, though a delivery  *)
(* can end between the two queries.                                        *)
CountCoversItems ==
  outboxRead.pc = "answered" => outboxRead.total >= Cardinality(outboxRead.items)

(* What holds of every answer to another server.                           *)
ActorPageSafety ==
  ActorPagesTypeOK /\ NamesKeepTheirActor /\ DocumentOfTheNamed /\ CountCoversItems
=============================================================================
