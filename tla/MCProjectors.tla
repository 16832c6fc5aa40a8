---------------------------- MODULE MCProjectors ----------------------------
(***************************************************************************)
(* Log tailing, and the profile projector that follows the account's, on   *)
(* small instances.  Two workers share the checkpoint of the tailing, as   *)
(* two server processes do.  The two parts share no variable: each is      *)
(* explored while the other rests in its initial state.  No symmetry:      *)
(* liveness is checked.                                                    *)
(***************************************************************************)
EXTENDS Tailing, Profiles

VARIABLE part  \* the part that is explored

projectorsVars == <<vars, profileVars, part>>

ProjectorsInit ==
  /\ part \in {"tailing", "profiles"}
  /\ Init /\ ProfileInit

ProjectorsNext ==
  /\ UNCHANGED part
  /\ \/ part = "tailing" /\ Next /\ UNCHANGED profileVars
     \/ part = "profiles" /\ ProfileNext /\ UNCHANGED vars

\* Fairness, and ProfileFairness with the polls of the part that is explored.
ProjectorsFairness ==
  /\ Fairness
  /\ \A e \in Editors : WF_profileVars(EditStep(e))
  /\ WF_profileVars(part = "profiles" /\ ProfilePollStep)

ProjectorsSpec == ProjectorsInit /\ [][ProjectorsNext]_projectorsVars /\ ProjectorsFairness
=============================================================================
