--------------------------- MODULE AccountCommands ---------------------------
(***************************************************************************)
(* The write side of accounts: the use cases of application/service/account*)
(* over the account event store, as concurrent request handlers.           *)
(*                                                                         *)
(* A handler admits a request against the read model and Keto, opens a     *)
(* transaction (READ COMMITTED, the default of the pool), rehydrates the   *)
(* aggregate, validates, INSERTs one event under its expected version and  *)
(* commits; create, deactivate and reactivate then change relation tuples  *)
(* in Keto one call at a time, after the commit.  Each of these is a step, *)
(* so handlers interleave wherever the code awaits.                        *)
(*                                                                         *)
(* One principal per account is modelled, its creator; moderation requests *)
(* come from a principal that holds the instance permission "moderate".    *)
(***************************************************************************)
EXTENDS Account

CONSTANTS
  Accounts,  \* account ids
  Handlers,  \* concurrent requests
  Ops,       \* the use cases the clients of this instance call; "follow" stands for
             \* all that write or delete follow rows
  Faults,    \* what may fail: "handler", "poll", "write", "keto"
  MaxSeq,    \* bound of the model: rows ever inserted in account_events
  MaxVersion \* bound of the model: versions the id generator hands out

AllOps == {"create", "update", "detail", "suspend", "unsuspend", "ban", "unban",
           "deactivate", "reactivate", "follow"}

ASSUME OpsAssumption == Ops \subseteq AllOps
ASSUME BoundsAssumption == MaxSeq \in Nat /\ MaxVersion \in Nat
ASSUME FaultsAssumption == Faults \subseteq {"handler", "poll", "write", "keto"}

VARIABLES
  log,   \* account_events: log[seq] = [acc, event, prev, state]
  rows,  \* accounts: the read model row of each account (NoAccount: no row)
  dependents,  \* dependents[a]: kinds of rows other tables hold for a
  keto,  \* keto[a]: relations of the creator on a
  req,   \* req[h]: the request handler h is processing
  now    \* the clock

commandVars == <<log, rows, dependents, keto, req, now>>

Relations == {"owner", "editor", "signer"}

DependentKinds == {"profile", "metadata", "follow"}

NoEvent == Event("none", 0, Never)

Idle == [pc |-> "idle", op |-> "none", acc |-> "none", event |-> NoEvent,
         acct |-> NoAccount, seq |-> 0, calls |-> <<>>]

Init ==
  /\ log = <<>>
  /\ rows = [a \in Accounts |-> NoAccount]
  /\ dependents = [a \in Accounts |-> {}]
  /\ keto = [a \in Accounts |-> {}]
  /\ req = [h \in Handlers |-> Idle]
  /\ now = 0

-----------------------------------------------------------------------------
(* The event store.                                                        *)

CommittedSeqs == {i \in DOMAIN log : log[i].state = "committed"}

EventsOf(a, seqs) == {log[i].event : i \in {j \in seqs : log[j].acc = a}}

Stream(a) == EventsOf(a, CommittedSeqs)

\* AggregateRepository::load.
load(a) == from_events(Stream(a))

HeadVersion(a) ==
  IF Stream(a) = {} THEN 0 ELSE Latest(Stream(a)).version

\* generate_id(): above every version generated before it that is still around.
generate_id ==
  LET used == {log[i].event.version : i \in DOMAIN log}
              \cup {req[h].event.version : h \in Handlers}
  IN  1 + CHOOSE v \in used \cup {0} : \A u \in used : u <= v

-----------------------------------------------------------------------------
(* The use cases.  Each is described by what the steps of a request need:  *)
(*   admits     the look at the read model and Keto before the transaction *)
(*   kind       the event the command emits                                *)
(*   validates  what it asks of the rehydrated aggregate acct              *)
(*   calls      the Keto calls after the commit, in the order of the code  *)

\* find_by_nanoid_unfiltered.
FoundUnfiltered(a) == Exists(rows[a]) /\ ~rows[a].deleted

\* check_permission, by the relations that grant the permission.
Holds(a, relations) == keto[a] \cap relations # {}

\* AccountId::default() is new: no event and no request has it.
FreshId(a) ==
  /\ \A i \in DOMAIN log : log[i].acc # a
  /\ \A h \in Handlers : req[h].acc # a

UseCase(admits, kind, validates, calls) ==
  [admits |-> admits, kind |-> kind, validates |-> validates, calls |-> calls]

create_account(a, acct) ==
  UseCase(FreshId(a), "Created", ~Exists(acct), <<"owner">>)

update_account(a, acct) ==
  UseCase(FoundUnfiltered(a) /\ Holds(a, {"owner", "editor"}), "Updated",
          acct.status = "active" /\ ~acct.deleted, <<>>)

\* An update_account_detail that changes is_bot; one that does not leaves the
\* account alone.
update_account_detail(a, acct) ==
  UseCase(/\ FoundUnfiltered(a)
          /\ Holds(a, {"owner", "editor"})
          /\ account_from_row(rows[a], now).status = "active",
          "Updated", Exists(acct), <<>>)

\* Faulty variant: suspend_account without its is_active check.
SuspendsAnyFaulty(a, acct) ==
  UseCase(FoundUnfiltered(a), "Suspended", Exists(acct) /\ ~acct.deleted, <<>>)

suspend_account(a, acct) ==
  UseCase(FoundUnfiltered(a), "Suspended", acct.status = "active" /\ ~acct.deleted, <<>>)

unsuspend_account(a, acct) ==
  UseCase(FoundUnfiltered(a), "Unsuspended", acct.status = "suspended", <<>>)

ban_account(a, acct) ==
  UseCase(FoundUnfiltered(a), "Banned",
          Exists(acct) /\ acct.status # "banned" /\ ~acct.deleted, <<>>)

unban_account(a, acct) ==
  UseCase(FoundUnfiltered(a), "Unbanned", acct.status = "banned", <<>>)

\* It finds the account through the filtered finder; deleted_at is not asked.
deactivate_account(a, acct) ==
  UseCase(VisibleRow(rows[a], now) /\ Holds(a, {"owner"}), "Deactivated",
          Exists(acct), <<"owner", "editor", "signer">>)

find_by_nanoid_including_deleted(a) == Exists(rows[a])

\* create_account links its creator in the transaction that writes the row, and
\* nothing removes the link.
is_linked_including_deleted(a) == Exists(rows[a])

\* The link, and no permission, is asked for.
reactivate_account(a, acct) ==
  UseCase(find_by_nanoid_including_deleted(a) /\ is_linked_including_deleted(a), "Reactivated", Exists(acct) /\ acct.deleted,
          <<"owner", "editor", "signer">>)

Case(op, a, acct) ==
  CASE op = "create" -> create_account(a, acct)
    [] op = "update" -> update_account(a, acct)
    [] op = "detail" -> update_account_detail(a, acct)
    [] op = "suspend" -> suspend_account(a, acct)
    [] op = "unsuspend" -> unsuspend_account(a, acct)
    [] op = "ban" -> ban_account(a, acct)
    [] op = "unban" -> unban_account(a, acct)
    [] op = "deactivate" -> deactivate_account(a, acct)
    [] op = "reactivate" -> reactivate_account(a, acct)

-----------------------------------------------------------------------------
(* A request, step by step.                                                *)

\* until is the expires_at of a suspension, which must be in the future.
Admit(h, op, a, until) ==
  LET case == Case(op, a, NoAccount)
  IN  /\ req[h] = Idle
      /\ op \in Ops
      /\ until > now
      /\ case.admits
      /\ req' = [req EXCEPT ![h] = [Idle EXCEPT !.pc = "admitted", !.op = op, !.acc = a,
                                                !.event = Event(case.kind, 0, until)]]
      /\ UNCHANGED <<log, rows, dependents, keto, now>>

\* The routes.  What a route refuses by itself (an empty id, a name that is too
\* long) starts nothing.
create_account_route(h, a) == Admit(h, "create", a, Never)
update_account_by_id(h, a) == Admit(h, "detail", a, Never)
deactivate_account_by_id(h, a) == Admit(h, "deactivate", a, Never)
reactivate_account_by_id(h, a) == Admit(h, "reactivate", a, Never)
suspend_account_by_id(h, a) == \E until \in 0 .. Never : Admit(h, "suspend", a, until)
unsuspend_account_by_id(h, a) == Admit(h, "unsuspend", a, Never)
ban_account_by_id(h, a) == Admit(h, "ban", a, Never)
unban_account_by_id(h, a) == Admit(h, "unban", a, Never)

\* No route calls update_account.
Arrives(h, a) ==
  \/ create_account_route(h, a) \/ update_account_by_id(h, a) \/ Admit(h, "update", a, Never)
  \/ deactivate_account_by_id(h, a) \/ reactivate_account_by_id(h, a)
  \/ suspend_account_by_id(h, a) \/ unsuspend_account_by_id(h, a)
  \/ ban_account_by_id(h, a) \/ unban_account_by_id(h, a)

\* The stream folds, and the use case accepts what it folds into.
Loads(op, a) == load(a) # Broken /\ Case(op, a, load(a)).validates

\* Rehydrate, validate, generate the version.  The generator reads nothing of
\* the database, so this is one step; the INSERT that follows is another.
Load(h) ==
  LET r == req[h]
      event == [r.event EXCEPT !.version = generate_id]
  IN  /\ r.pc = "admitted"
      /\ Loads(r.op, r.acc)
      /\ generate_id <= MaxVersion
      /\ req' = [req EXCEPT ![h] = [r EXCEPT !.pc = "loaded", !.event = event,
                                             !.acct = load(r.acc)]]
      /\ UNCHANGED <<log, rows, dependents, keto, now>>

\* NotFound, Rejected, or a stream that does not fold: the request ends.
Reject(h) ==
  /\ req[h].pc = "admitted"
  /\ ~Loads(req[h].op, req[h].acc)
  /\ req' = [req EXCEPT ![h] = Idle]
  /\ UNCHANGED <<log, rows, dependents, keto, now>>

\* The WHERE of persist_internal, evaluated over the committed rows: the other
\* transactions in progress are not visible to it.
ExpectedVersionHolds(r) == HeadVersion(r.acc) = r.acct.version

\* save.  update_account runs on a plain connection: its INSERT commits at once.
Save(h) ==
  LET r == req[h]
      autocommit == r.op = "update"
      row == [acc |-> r.acc, event |-> r.event, prev |-> r.acct.version,
              state |-> IF autocommit THEN "committed" ELSE "open"]
  IN  /\ r.pc = "loaded"
      /\ Len(log) < MaxSeq
      /\ ExpectedVersionHolds(r)
      /\ log' = Append(log, row)
      /\ req' = [req EXCEPT ![h] =
                   IF autocommit THEN Idle
                   ELSE [r EXCEPT !.pc = "saved", !.seq = Len(log) + 1,
                                  !.acct = apply(r.acct, r.event)]]
      /\ UNCHANGED <<rows, dependents, keto, now>>

\* rows_affected() = 0: KernelError::Concurrency, the transaction rolls back.
Conflict(h) ==
  /\ req[h].pc = "loaded"
  /\ ~ExpectedVersionHolds(req[h])
  /\ req' = [req EXCEPT ![h] = Idle]
  /\ UNCHANGED <<log, rows, dependents, keto, now>>

\* The transaction writes the read model row itself: create_account and
\* update_account_detail.
WritesRow(op) == op \in {"create", "detail"}

\* update_account_detail needs the profile row, and reads the account back
\* through the filtered finder; it gives up when either is not there.
ReadsBack(r) ==
  r.op = "detail" => "profile" \in dependents[r.acc] /\ VisibleRow(r.acct, now)

\* create_account writes the profile; update_account_detail replaces the
\* metadata rows by the fields submitted, or leaves them.
DependentsAfter(r, fields) ==
  CASE r.op = "create" -> {"profile"}
    [] r.op = "detail" -> (dependents[r.acc] \ {"metadata"}) \cup fields
    [] OTHER -> dependents[r.acc]

CommitTx(h, fields) ==
  LET r == req[h]
      calls == Case(r.op, r.acc, r.acct).calls
  IN  /\ r.pc = "saved"
      /\ ReadsBack(r)
      /\ fields \subseteq {"metadata"}
      /\ r.op # "detail" => fields = {}
      /\ dependents' = [dependents EXCEPT ![r.acc] = DependentsAfter(r, fields)]
      /\ log' = [log EXCEPT ![r.seq].state = "committed"]
      /\ rows' = IF WritesRow(r.op) THEN [rows EXCEPT ![r.acc] = r.acct] ELSE rows
      /\ req' = [req EXCEPT ![h] =
                   IF calls = <<>> THEN Idle
                   ELSE [Idle EXCEPT !.pc = "relations", !.op = r.op, !.acc = r.acc,
                                     !.calls = calls]]
      /\ UNCHANGED <<keto, now>>

\* The profile is missing or the read back of update_account_detail
\* failed: NotFound, rolled back.
DetailNotFound(h) ==
  /\ req[h].pc = "saved"
  /\ ~ReadsBack(req[h])
  /\ log' = [log EXCEPT ![req[h].seq].state = "aborted"]
  /\ req' = [req EXCEPT ![h] = Idle]
  /\ UNCHANGED <<rows, dependents, keto, now>>

\* One create_relation or delete_relation call; both are idempotent.
ChangeRelation(h) ==
  LET r == req[h]
      rel == Head(r.calls)
  IN  /\ r.pc = "relations"
      /\ keto' = [keto EXCEPT ![r.acc] =
                    IF r.op = "deactivate" THEN @ \ {rel} ELSE @ \cup {rel}]
      /\ req' = [req EXCEPT ![h] =
                   IF Tail(r.calls) = <<>> THEN Idle ELSE [r EXCEPT !.calls = Tail(@)]]
      /\ UNCHANGED <<log, rows, dependents, now>>

\* The database or Keto answers with an error, or the process stops: an open
\* transaction rolls back, the Keto calls not made yet are never made.
Fail(h) ==
  LET r == req[h]
  IN  /\ "handler" \in Faults
      /\ r.pc # "idle"
      /\ log' = IF r.pc = "saved" THEN [log EXCEPT ![r.seq].state = "aborted"] ELSE log
      /\ req' = [req EXCEPT ![h] = Idle]
      /\ UNCHANGED <<rows, dependents, keto, now>>

Tick ==
  /\ now < MaxNow
  /\ now' = now + 1
  /\ UNCHANGED <<log, rows, dependents, keto, req>>

\* A follow row of a is written or deleted.  The request looked the account up
\* earlier and does not look again, so a may be deactivated by now.
FollowChanges(a) ==
  /\ "follow" \in Ops
  /\ Exists(rows[a])
  /\ \E after \in {dependents[a] \cup {"follow"}, dependents[a] \ {"follow"}} :
       /\ after # dependents[a]
       /\ dependents' = [dependents EXCEPT ![a] = after]
  /\ UNCHANGED <<log, rows, keto, req, now>>
=============================================================================
