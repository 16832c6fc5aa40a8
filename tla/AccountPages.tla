---------------------------- MODULE AccountPages ----------------------------
(***************************************************************************)
(* The list of an owner's accounts, read page by page (GET /accounts): the *)
(* rows of the owner, the account the cursor names, a page cut out of the  *)
(* sorted rows, and the details of the accounts on it.  The reads are      *)
(* separate statements, and between two pages accounts come, go and are    *)
(* moderated.  A client asks for the next (previous) page with the last    *)
(* (first) id of the page it has, until a page is empty.                   *)
(***************************************************************************)
EXTENDS Integers, FiniteSets

CONSTANTS
  MaxAccount,  \* bound of the model: ids of the owner's accounts
  PageLimits   \* limits of the requests; 0 is one too, and gets an empty page

ASSUME PageAssumption == MaxAccount \in Nat /\ PageLimits \subseteq Nat

VARIABLES
  standing,   \* standing[i]: the row of account i: none, live, hidden, deleted
  profiled,   \* accounts with a profile row
  walk,       \* the client's walk and the request it is in
  owned      \* history: accounts the owner had ever since the walk began

pageVars == <<standing, profiled, walk, owned>>

AccountIds == 1..MaxAccount

\* No cursor, and the answer of a lookup that finds nothing.
NoCursor == 0

Walk(pc, direction, limit) ==
  [pc |-> pc, direction |-> direction, limit |-> limit, cursor |-> NoCursor, from |-> NoCursor,
   rows |-> {}, page |-> {}, seen |-> {}]

AccountPagesInit ==
  /\ standing \in [AccountIds -> {"none", "live", "hidden"}]
  /\ profiled = {i \in AccountIds : standing[i] # "none"}
  /\ walk = Walk("idle", "next", 0)
  /\ owned = {}

-----------------------------------------------------------------------------
(* The queries.                                                            *)

\* Suspended and banned accounts included: the owner is to see them.
find_by_auth_id == {i \in AccountIds : standing[i] \in {"live", "hidden"}}

\* Suspended and banned accounts left out.
find_cursor(i) == IF i # NoCursor /\ standing[i] = "live" THEN i ELSE NoCursor

\* find_by_nanoids, then account_view for each: the owner has it for his own.
find_by_nanoids(ids) == {i \in ids : standing[i] = "live"}

-----------------------------------------------------------------------------
(* A page.                                                                 *)

\* The first and the last n of a set of ids.
FirstIds(S, n) == {x \in S : Cardinality({y \in S : y < x}) < n}
LastIds(S, n) == {x \in S : Cardinality({y \in S : y > x}) < n}

\* Faulty variant: the previous page is taken from the front.
FrontFaulty(rows, limit, cursor, direction) ==
  IF direction = "next"
  THEN FirstIds({i \in rows : cursor = NoCursor \/ i > cursor}, limit)
  ELSE FirstIds({i \in rows : cursor = NoCursor \/ i < cursor}, limit)

\* Faulty variant: the account of the cursor is on the next page too.
InclusiveFaulty(rows, limit, cursor, direction) ==
  IF direction = "next"
  THEN FirstIds({i \in rows : cursor = NoCursor \/ i >= cursor}, limit)
  ELSE LastIds({i \in rows : cursor = NoCursor \/ i <= cursor}, limit)

\* Faulty variant: everything beyond the cursor.
NoLimitFaulty(rows, limit, cursor, direction) ==
  {i \in rows : cursor = NoCursor \/ IF direction = "next" THEN i > cursor ELSE i < cursor}

\* Account ids are compared; both directions answer in ascending order.
apply_pagination(rows, limit, cursor, direction) ==
  IF direction = "next"
  THEN FirstIds({i \in rows : cursor = NoCursor \/ i > cursor}, limit)
  ELSE LastIds({i \in rows : cursor = NoCursor \/ i < cursor}, limit)

\* The profile rows; the rows of fields and images may be missing.
find_by_account_ids(page) == page \cap profiled

\* One account without a profile row fails them all.
compose_account_details(page) == find_by_account_ids(page) = page

-----------------------------------------------------------------------------
(* The client's walk.                                                      *)

StartWalk(direction, limit) ==
  /\ walk.pc \in {"idle", "ended", "failed", "detail"}
  /\ walk' = Walk("rows", direction, limit)
  /\ owned' = find_by_auth_id
  /\ UNCHANGED <<standing, profiled>>

\* get_accounts without ids, get_all_account_details.
get_all_account_details ==
  /\ walk.pc = "rows"
  /\ walk' = [walk EXCEPT !.pc = "cursor", !.rows = find_by_auth_id]
  /\ UNCHANGED <<standing, profiled, owned>>

ReadCursor ==
  /\ walk.pc = "cursor"
  /\ walk' = [walk EXCEPT !.pc = "compose", !.rows = {}, !.from = find_cursor(walk.cursor),
                          !.page = apply_pagination(walk.rows, walk.limit,
                                                    find_cursor(walk.cursor), walk.direction)]
  /\ UNCHANGED <<standing, profiled, owned>>

\* Faulty variant: the response names no account to go on from.
NoEndFaulty(page, direction) == NoCursor

\* first and last of the response.
ResponseEnd(page, direction) ==
  CHOOSE x \in page : \A y \in page : IF direction = "next" THEN y <= x ELSE x <= y

\* The answer, and the client's next request.
ComposePage ==
  /\ walk.pc = "compose"
  /\ \/ /\ ~compose_account_details(walk.page)
        /\ walk' = [walk EXCEPT !.pc = "failed"]
     \/ /\ compose_account_details(walk.page) /\ walk.page = {}
        /\ walk' = [walk EXCEPT !.pc = "ended"]
     \/ /\ compose_account_details(walk.page) /\ walk.page # {}
        /\ walk' = [walk EXCEPT !.pc = "rows", !.seen = @ \cup walk.page,
                                !.cursor = ResponseEnd(walk.page, walk.direction)]
  /\ UNCHANGED <<standing, profiled, owned>>

\* What is left of the ids of a request; none, or too many, are a 400.
parse_comma_ids == SUBSET AccountIds \ {{}}

\* get_account_by_id and get_accounts with ids; ids with a cursor are a 400.
get_account_details_by_ids(ids) ==
  /\ walk.pc \in {"idle", "ended", "failed", "detail"}
  /\ walk' = [Walk("ids", "next", 0) EXCEPT !.rows = ids, !.page = find_by_nanoids(ids)]
  /\ owned' = {}
  /\ UNCHANGED <<standing, profiled>>

ComposeDetails ==
  /\ walk.pc = "ids"
  /\ walk' = [walk EXCEPT !.pc = IF compose_account_details(walk.page) THEN "detail" ELSE "failed",
                          !.seen = IF compose_account_details(walk.page) THEN walk.page ELSE {}]
  /\ UNCHANGED <<standing, profiled, owned>>

-----------------------------------------------------------------------------
(* What happens to the accounts meanwhile.                                 *)

Stands(i, new) == standing' = [standing EXCEPT ![i] = new]

\* create_account writes the account and its profile in one transaction; ids
\* are drawn before the commit, so they need not become visible in order.
Created(i) ==
  /\ standing[i] = "none"
  /\ Stands(i, "live")
  /\ profiled' = profiled \cup {i}
  /\ UNCHANGED <<walk, owned>>

Moderated(i) ==
  /\ standing[i] \in {"live", "hidden"}
  /\ Stands(i, IF standing[i] = "live" THEN "hidden" ELSE "live")
  /\ UNCHANGED <<profiled, walk, owned>>

\* The account projector deletes the profile with the account.
Deactivated(i) ==
  /\ standing[i] = "live"
  /\ Stands(i, "deleted")
  /\ profiled' = profiled \ {i}
  /\ owned' = owned \ {i}
  /\ UNCHANGED walk

Reactivated(i) ==
  /\ standing[i] = "deleted"
  /\ Stands(i, "live")
  /\ UNCHANGED <<profiled, walk, owned>>

\* The profile projector brings the row back on its own.
ProfileReturns(i) ==
  /\ standing[i] \in {"live", "hidden"}
  /\ i \notin profiled
  /\ profiled' = profiled \cup {i}
  /\ UNCHANGED <<standing, walk, owned>>

WalkStep == get_all_account_details \/ ReadCursor \/ ComposePage

AccountPagesNext ==
  \/ \E direction \in {"next", "prev"}, limit \in PageLimits : StartWalk(direction, limit)
  \/ WalkStep
  \/ \E ids \in parse_comma_ids : get_account_details_by_ids(ids)
  \/ ComposeDetails
  \/ \E i \in AccountIds :
       \/ Created(i) \/ Moderated(i) \/ Deactivated(i) \/ Reactivated(i) \/ ProfileReturns(i)

\* The server answers and the client goes on.
WalkFairness == WF_pageVars(WalkStep)

AccountPagesSpec == AccountPagesInit /\ [][AccountPagesNext]_pageVars /\ WalkFairness

-----------------------------------------------------------------------------
(* Properties.                                                             *)

(* A request works on ids of accounts, and its page never exceeds the      *)
(* limit that was asked for.                                               *)
AccountPagesTypeOK ==
  /\ standing \in [AccountIds -> {"none", "live", "hidden", "deleted"}]
  /\ profiled \subseteq AccountIds
  /\ walk.cursor \in AccountIds \cup {NoCursor}
  /\ walk.pc \in {"rows", "cursor", "compose"} => Cardinality(walk.page) <= walk.limit
  /\ walk.seen \subseteq AccountIds

(* A walk that came to its end has shown every account that the owner had  *)
(* from its first request on, in both directions, though each page reads   *)
(* the rows and the cursor anew while accounts are created, moderated and  *)
(* deactivated.  With limit 0 the first page is empty and shows nothing.   *)
WalksMissNothing == walk.pc = "ended" /\ walk.limit > 0 => owned \subseteq walk.seen

(* A page only repeats what was shown when the cursor was not found: the   *)
(* account it names was suspended, banned or deactivated.  apply_pagination*)
(* then takes the request for one without a cursor.                        *)
PagesAdvance ==
  walk.pc = "compose" /\ walk.from # NoCursor /\ walk.seen # {} =>
    \A i \in walk.page : IF walk.direction = "next" THEN i > walk.cursor ELSE i < walk.cursor

(* A walk ends, with an empty page or an error, unless its cursor is not   *)
(* found again and again: a page that ends in a suspended account is       *)
(* followed by the first page.                                             *)
WalksEndUnlessRestarted ==
  []<>(\/ walk.pc \notin {"rows", "cursor", "compose"}
       \/ walk.pc = "compose" /\ walk.cursor # NoCursor /\ walk.from = NoCursor)

(* What holds of every page, and of every walk that has come to its end.   *)
AccountPageSafety == AccountPagesTypeOK /\ WalksMissNothing /\ PagesAdvance
=============================================================================
