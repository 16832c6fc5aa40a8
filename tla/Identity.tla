------------------------------ MODULE Identity ------------------------------
(***************************************************************************)
(* Who a request speaks for and which instance roles that person has: the  *)
(* hosts and auth accounts behind a token's issuer and subject, and the    *)
(* role tuples in Keto that administrators assign, revoke and list.        *)
(*                                                                         *)
(* Requests run concurrently and every call of the database or of Keto is a*)
(* step.  All tokens have one issuer, the configured one.  Keto (external) *)
(* lists tuples in pages of one, in the order of its keys; a call of it may*)
(* fail.  A request that is refused changes nothing and only ends.         *)
(***************************************************************************)
EXTENDS Naturals, FiniteSets

CONSTANTS
  Requests,  \* concurrent requests
  Subjects,  \* subjects of the tokens
  Accounts   \* local accounts

ASSUME IdentityAssumption == Subjects # {}

NoAuth == 0

\* parse_instance_role accepts these two; they are the order of Keto's keys too.
InstanceRoles == {"admins", "moderators"}
Position(role) == IF role = "admins" THEN 1 ELSE 2

VARIABLES
  hosts,      \* ids of the rows of auth_hosts for the issuer
  people,     \* rows of auth_accounts
  owner,      \* owner[a]: the auth account linked to a projected account
  tuples,     \* Keto: the role tuples <<role, auth account>>
  call,       \* call[r]: the request being served
  seeded,     \* history: an administrator was installed with the instance
  staleWrite  \* history: an admin was removed by one who was admin no more

identityVars == <<hosts, people, owner, tuples, call, seeded, staleWrite>>

\* always and ever are histories of a listing: the roles its subject had all
\* the while and at some time of it.
Call(pc, op, subject) ==
  [pc |-> pc, op |-> op, subject |-> subject, target |-> NoAuth, role |-> "admins", host |-> 0,
   id |-> NoAuth, page |-> 0, listed |-> {}, always |-> {}, ever |-> {}]

NoSubject == "nobody"
NoCall == Call("idle", "none", NoSubject)

Person(id, host, client) == [id |-> id, host |-> host, client_id |-> client]

RolesOf(id, ts) == {role \in InstanceRoles : <<role, id>> \in ts}
Admins == {p.id : p \in {q \in people : <<"admins", q.id>> \in tuples}}

\* A new database, or one with an administrator, who owns an account.  Which
\* subject and which account makes no difference.
IdentityInit ==
  /\ call = [r \in Requests |-> NoCall]
  /\ staleWrite = FALSE
  /\ \/ /\ hosts = {} /\ people = {} /\ tuples = {} /\ seeded = FALSE
        /\ owner = [a \in Accounts |-> NoAuth]
     \/ /\ hosts = {1} /\ tuples = {<<"admins", 1>>} /\ seeded = TRUE
        /\ people = {Person(1, 1, CHOOSE s \in Subjects : TRUE)}
        /\ LET mine == CHOOSE a \in Accounts : TRUE
           IN owner = [a \in Accounts |-> IF a = mine THEN 1 ELSE NoAuth]

-----------------------------------------------------------------------------
(* Requests and the auth account they speak for.                           *)

Begin(r, op, subject) ==
  /\ call[r].pc \in {"idle", "listed"}
  /\ call' = [call EXCEPT ![r] = Call("host", op, subject)]
  /\ UNCHANGED <<hosts, people, owner, tuples, seeded, staleWrite>>

get_me(r, subject) == Begin(r, "me", subject)
assign_route(r, subject) == Begin(r, "assign", subject)
revoke_route(r, subject) == Begin(r, "revoke", subject)

find_by_url(r) ==
  /\ call[r].pc = "host"
  /\ call' = [call EXCEPT
       ![r].pc = IF hosts = {} THEN "create_host" ELSE "person",
       ![r].host = IF hosts = {} THEN 0 ELSE CHOOSE h \in hosts : TRUE]
  /\ UNCHANGED <<hosts, people, owner, tuples, seeded, staleWrite>>

\* Faulty variant: the url of a host is not unique.
HostInsertedFaulty == TRUE

\* The url is UNIQUE: the INSERT fails if another request was first.
HostInserted == hosts = {}

create_host(r) ==
  /\ call[r].pc = "create_host"
  /\ LET id == Cardinality(hosts) + 1
     IN IF HostInserted
        THEN /\ hosts' = hosts \cup {id}
             /\ call' = [call EXCEPT ![r].pc = "person", ![r].host = id]
        ELSE /\ call' = [call EXCEPT ![r] = NoCall]
             /\ UNCHANGED hosts
  /\ UNCHANGED <<people, owner, tuples, seeded, staleWrite>>

\* INSERT .. ON CONFLICT (host_id, client_id) DO NOTHING, or else the SELECT.
find_or_create(r) ==
  /\ call[r].pc = "person"
  /\ LET known == {p \in people : p.host = call[r].host /\ p.client_id = call[r].subject}
         new == Person(Cardinality(people) + 1, call[r].host, call[r].subject)
         row == IF known = {} THEN new ELSE CHOOSE p \in known : TRUE
     IN /\ people' = people \cup {row}
        /\ call' = [call EXCEPT ![r].pc = call[r].op, ![r].id = row.id,
                                ![r].always = RolesOf(row.id, tuples),
                                ![r].ever = RolesOf(row.id, tuples)]
  /\ UNCHANGED <<hosts, owner, tuples, seeded, staleWrite>>

-----------------------------------------------------------------------------
(* Roles.                                                                  *)

\* Listings under way see the tuples change.
Observed(calls, ts) ==
  [r \in Requests |->
     IF calls[r].pc = "me"
     THEN [calls[r] EXCEPT !.always = @ \cap RolesOf(calls[r].id, ts),
                           !.ever = @ \cup RolesOf(calls[r].id, ts)]
     ELSE calls[r]]

\* Faulty variant: the first page is taken for the whole list.
FirstPageFaulty(rest) == TRUE

\* The loop ends with an empty next_page_token.
LastPage(rest) == Cardinality(rest) <= 1

\* One page of list_instance_roles.
list_instance_roles(r) ==
  /\ call[r].pc = "me"
  /\ LET rest == {role \in RolesOf(call[r].id, tuples) : Position(role) > call[r].page}
         page == {role \in rest : \A other \in rest : Position(role) <= Position(other)}
     IN call' = [call EXCEPT
          ![r].listed = @ \cup page,
          ![r].page = IF page = {} THEN @ ELSE Position(CHOOSE role \in page : TRUE),
          ![r].pc = IF LastPage(rest) THEN "listed" ELSE "me"]
  /\ UNCHANGED <<hosts, people, owner, tuples, seeded, staleWrite>>

\* Keto's namespaces: administrate is for admins only.
administrate(id) == <<"admins", id>> \in tuples

\* Faulty variant: an account nobody is linked to will do.
UnlinkedFaulty(account) == TRUE

\* find_auth_account_id_by_account_id finds the person linked to the account.
Linked(account) == owner[account] # NoAuth

\* The account of the request is looked up, the caller's permission checked in
\* Keto, and the owner of the account looked up.  What no step reads before is chosen here.
Authorize(r, account, role) ==
  /\ call[r].pc \in {"assign", "revoke"}
  /\ call' = [call EXCEPT ![r] =
       IF Linked(account) /\ administrate(call[r].id)
       THEN [@ EXCEPT !.pc = "write", !.target = owner[account], !.role = role]
       ELSE NoCall]
  /\ UNCHANGED <<hosts, people, owner, tuples, seeded, staleWrite>>

\* create_relation: a tuple that is there already is no error.
assign_instance_role(r) ==
  /\ call[r].pc = "write" /\ call[r].op = "assign"
  /\ tuples' = tuples \cup {<<call[r].role, call[r].target>>}
  /\ call' = Observed([call EXCEPT ![r] = NoCall], tuples')
  /\ UNCHANGED <<hosts, people, owner, seeded, staleWrite>>

\* Faulty variant: an admin may step down.
OwnAdminFaulty(r) == FALSE

\* "Cannot revoke your own admin role".
OwnAdmin(r) == call[r].role = "admins" /\ call[r].target = call[r].id

\* delete_relation: a tuple that is not there is no error.
revoke_instance_role(r) ==
  /\ call[r].pc = "write" /\ call[r].op = "revoke"
  /\ tuples' = IF OwnAdmin(r) THEN tuples
               ELSE tuples \ {<<call[r].role, call[r].target>>}
  /\ staleWrite' = (staleWrite \/ (tuples' # tuples /\ call[r].role = "admins"
                                   /\ ~administrate(call[r].id)))
  /\ call' = Observed([call EXCEPT ![r] = NoCall], tuples')
  /\ UNCHANGED <<hosts, people, owner, seeded>>

\* A call of the database or of Keto fails, or the client goes away.
GiveUp(r) ==
  /\ call[r].pc \notin {"idle", "listed"}
  /\ call' = [call EXCEPT ![r] = NoCall]
  /\ UNCHANGED <<hosts, people, owner, tuples, seeded, staleWrite>>

\* The transaction of create_account links the account's row to its creator.
link_auth_account(account, id) ==
  /\ owner[account] = NoAuth
  /\ id \in {p.id : p \in people}
  /\ owner' = [owner EXCEPT ![account] = id]
  /\ UNCHANGED <<hosts, people, tuples, call, seeded, staleWrite>>

IdentityNext ==
  \/ \E r \in Requests, s \in Subjects :
       \/ get_me(r, s)
       \/ assign_route(r, s)
       \/ revoke_route(r, s)
  \/ \E r \in Requests :
       \/ find_by_url(r) \/ create_host(r) \/ find_or_create(r)
       \/ list_instance_roles(r)
       \/ \E a \in Accounts, role \in InstanceRoles : Authorize(r, a, role)
       \/ assign_instance_role(r) \/ revoke_instance_role(r)
       \/ GiveUp(r)
  \/ \E a \in Accounts, p \in people : link_auth_account(a, p.id)

IdentitySpec == IdentityInit /\ [][IdentityNext]_identityVars

-----------------------------------------------------------------------------
(* Properties.                                                             *)

\* The type invariant: links, role tuples and the requests that write them name
\* auth accounts that are there.
IdentityTypeOK ==
  /\ hosts \subseteq Nat
  /\ people \subseteq [id : Nat, host : Nat, client_id : Subjects]
  /\ owner \in [Accounts -> {NoAuth} \cup {p.id : p \in people}]
  /\ tuples \subseteq InstanceRoles \X {p.id : p \in people}
  /\ call \in [Requests ->
       [pc : {"idle", "host", "create_host", "person", "me", "listed", "assign", "revoke", "write"},
        op : {"none", "me", "assign", "revoke"}, subject : Subjects \cup {NoSubject},
        target : Nat, role : InstanceRoles, host : Nat, id : Nat,
        page : 0..2, listed : SUBSET InstanceRoles, always : SUBSET InstanceRoles,
        ever : SUBSET InstanceRoles]]
  /\ seeded \in BOOLEAN
  /\ staleWrite \in BOOLEAN

\* A person is one auth account, however many first requests race to create the
\* host and the account (resolve_auth_account_id).
OneAuthAccountPerSubject ==
  \A p, q \in people : p.client_id = q.client_id => p = q

\* An instance that had an administrator loses the last one only if admins
\* revoke each other at once: the check of revoke_instance_role and its write
\* are two calls of Keto.
LastAdminLostOnlyToStaleCheck == seeded /\ Admins = {} => staleWrite

\* GET /me lists every role held while the listing lasts, and none that was
\* not held at some time of it, although it is read page by page.
ListedRolesWereHeld ==
  \A r \in Requests : call[r].pc = "listed" =>
    call[r].always \subseteq call[r].listed /\ call[r].listed \subseteq call[r].ever

\* What holds of people and roles in every state: references are sound, a
\* person is one account, the last admin goes only in a race, and a list of
\* roles is true of the time it took.
IdentitySafety ==
  /\ IdentityTypeOK
  /\ OneAuthAccountPerSubject
  /\ LastAdminLostOnlyToStaleCheck
  /\ ListedRolesWereHeld
=============================================================================
