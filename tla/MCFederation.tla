---------------------------- MODULE MCFederation ----------------------------
(***************************************************************************)
(* Federation on small instances: follows and blocks with a remote actor,  *)
(* activities that come in, and actors that are looked up.  The parts share*)
(* no variable: each is explored while the others rest.  No symmetry:      *)
(* liveness is checked.                                                    *)
(***************************************************************************)
EXTENDS Relations, HttpSignatures, RemoteActors

VARIABLE part  \* the part that is explored

federationVars == <<vars, signatureVars, actorVars, part>>

\* Relations that rest do so without any follow.
FederationInit ==
  /\ part \in {"relations", "signatures", "actors"}
  /\ Init /\ HttpSignaturesInit /\ RemoteActorsInit
  /\ part # "relations" => \A d \in Dirs : follows[d] = NoFollow

FederationNext ==
  /\ UNCHANGED part
  /\ \/ part = "relations" /\ Next /\ UNCHANGED <<signatureVars, actorVars>>
     \/ part = "signatures" /\ HttpSignaturesNext /\ UNCHANGED <<vars, actorVars>>
     \/ part = "actors" /\ RemoteActorsNext /\ UNCHANGED <<vars, signatureVars>>

FederationSpec ==
  /\ FederationInit /\ [][FederationNext]_federationVars
  /\ Fairness /\ FetchFairness /\ ResolveFairness

\* No fetch lasts for ever, neither that of a key nor that of an actor,
\* although each server may answer with yet another redirect.
FetchesEnd == FetchEnds /\ ResolvesEnd
=============================================================================
