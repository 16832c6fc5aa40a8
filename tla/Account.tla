------------------------------- MODULE Account -------------------------------
(***************************************************************************)
(* The account aggregate: its events, EventApplier::apply and rehydration. *)
(*                                                                         *)
(* The state keeps what the guards and the visibility rules look at: the   *)
(* moderation status with the expiry of a suspension, whether deleted_at   *)
(* is set, and the version of the last applied event.  Name, nanoid,       *)
(* is_bot, reasons and timestamps are payload.  Status "none" stands for   *)
(* Option::None and "broken" for a stream whose fold returned an error.    *)
(***************************************************************************)
EXTENDS Integers, Sequences, FiniteSets, Folds

CONSTANT MaxNow  \* last instant of the modelled clock

ASSUME MaxNowAssumption == MaxNow \in Nat

Never == MaxNow + 1  \* expiry of a suspension without expires_at

Kinds == {"Created", "Updated", "Deactivated", "Reactivated",
          "Suspended", "Unsuspended", "Banned", "Unbanned"}

\* An event of the stream; until is the expires_at of a Suspended event.
Event(kind, version, until) == [kind |-> kind, version |-> version, until |-> until]

AccountState(status, until, deleted, version) ==
  [status |-> status, until |-> until, deleted |-> deleted, version |-> version]

NoAccount == AccountState("none", Never, FALSE, 0)
Broken == AccountState("broken", Never, FALSE, 0)

Exists(acct) == acct.status \in {"active", "suspended", "banned"}

\* Account::apply returns Ok for this event in this state.
Applies(acct, e) ==
  IF e.kind = "Created" THEN acct.status = "none"
  ELSE /\ Exists(acct)
       /\ e.kind = "Deactivated" => ~acct.deleted
       /\ e.kind = "Reactivated" => acct.deleted
       /\ e.kind = "Suspended" => acct.status = "active" /\ ~acct.deleted
       /\ e.kind = "Unsuspended" => acct.status = "suspended"
       /\ e.kind = "Banned" => acct.status # "banned" /\ ~acct.deleted
       /\ e.kind = "Unbanned" => acct.status = "banned"

StatusAfter(acct, kind) ==
  CASE kind \in {"Created", "Unsuspended", "Unbanned"} -> "active"
    [] kind = "Suspended" -> "suspended"
    [] kind = "Banned" -> "banned"
    [] OTHER -> acct.status

DeletedAfter(acct, kind) ==
  CASE kind = "Deactivated" -> TRUE
    [] kind \in {"Created", "Reactivated"} -> FALSE
    [] OTHER -> acct.deleted

UntilAfter(acct, e) ==
  CASE e.kind = "Suspended" -> e.until
    [] e.kind \in {"Unsuspended", "Banned", "Created"} -> Never
    [] OTHER -> acct.until

apply(acct, e) ==
  IF Applies(acct, e)
  THEN AccountState(StatusAfter(acct, e.kind), UntilAfter(acct, e),
                    DeletedAfter(acct, e.kind), e.version)
  ELSE Broken

Latest(events) == CHOOSE e \in events : \A f \in events : f.version <= e.version

\* Left fold of apply over a set of events in version order (ORDER BY version
\* in the store, sort_by_key in the projector): the latest is applied last.
Fold(acct, events) ==
  MapThenFoldSet(LAMBDA e, before : apply(before, e), acct,
                 LAMBDA e : e, Latest, events)

from_events(events) == Fold(NoAccount, events)

\* A suspension whose expires_at has passed no longer counts.
Expired(acct, now) == acct.status = "suspended" /\ acct.until <= now

\* account_from_row(row, true): a row read by the unfiltered finders.
account_from_row(row, now) ==
  IF Expired(row, now) THEN [row EXCEPT !.status = "active", !.until = Never]
  ELSE row

\* The WHERE clause of the filtered finders.
VisibleRow(row, now) ==
  /\ Exists(row)
  /\ ~row.deleted
  /\ row.status = "active" \/ Expired(row, now)
=============================================================================
