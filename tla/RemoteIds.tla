------------------------------ MODULE RemoteIds ------------------------------
(***************************************************************************)
(* The ids of remote actors, which are URLs, and the bound on the redirects*)
(* that fetching one follows.                                              *)
(***************************************************************************)
EXTENDS Integers

CONSTANTS
  Actors,       \* remote actors
  MaxRedirects  \* redirects a fetch follows: 5 in the code

ASSUME RedirectsAssumption == MaxRedirects \in Nat

\* A URL may have a slash at its end.
Ids == [actor : Actors, slash : BOOLEAN]

\* trim_end_matches('/') on both sides.
same_activitypub_id(left, right) == left.actor = right.actor

Addresses == {"public", "private"}
=============================================================================
