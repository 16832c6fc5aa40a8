------------------------------ MODULE MCAccess ------------------------------
(***************************************************************************)
(* The parts of access control, and the keys the server signs with, on     *)
(* small instances.  They share no variable, so that exploring each of them*)
(* while the others rest in one initial state shows all that their product *)
(* would.  No symmetry: a liveness property is checked.                    *)
(***************************************************************************)
EXTENDS Jwks, Identity, OAuth2, SigningKeys

VARIABLE part  \* the part that is explored

accessVars == <<jwksVars, identityVars, oauthVars, keyVars, part>>

Init ==
  /\ part \in {"jwks", "identity", "oauth2", "keys"}
  /\ JwksInit /\ IdentityInit /\ OAuthInit /\ SigningKeysInit
  /\ part # "jwks" => published = {} /\ fetches = << >>
  /\ part # "identity" => ~seeded
  /\ part # "keys" => \A p \in Paths : file[p].state = "good" /\ file[p].password = "p1"

Next ==
  /\ UNCHANGED part
  /\ \/ part = "jwks" /\ JwksNext /\ UNCHANGED <<identityVars, oauthVars, keyVars>>
     \/ part = "identity" /\ IdentityNext /\ UNCHANGED <<jwksVars, oauthVars, keyVars>>
     \/ part = "oauth2" /\ OAuthNext /\ UNCHANGED <<jwksVars, identityVars, keyVars>>
     \/ part = "keys" /\ SigningKeysNext /\ UNCHANGED <<jwksVars, identityVars, oauthVars>>

Spec == Init /\ [][Next]_accessVars /\ JwksFairness
=============================================================================
