--------------------------- MODULE AccountTailing ---------------------------
(***************************************************************************)
(* The account projector implements log tailing.  The history variables of *)
(* Tailing are added to AccountProjection; the rest of the mapping reads   *)
(* the sets of seqs off the event table and the poll.                      *)
(***************************************************************************)
EXTENDS AccountProjection

VARIABLES consumed, timely

tailingVars == <<vars, consumed, timely>>

Worker == "worker"  \* the single projection worker of this instance

OpenSeqs == {i \in DOMAIN log : log[i].state = "open"}

T == INSTANCE Tailing WITH
       Workers <- {Worker},
       nextSeq <- Len(log) + 1,
       open <- OpenSeqs,
       committed <- CommittedSeqs,
       batch <- [w \in {Worker} |-> poll.batch],
       top <- [w \in {Worker} |-> poll.top]

TailingInit == ProjectionInit /\ consumed = {} /\ timely = {}

OtherStep ==
  \/ \E h \in Handlers : Request(h)
  \/ (Tick \/ \E a \in Accounts : FollowChanges(a)) /\ UNCHANGED <<checkpoint, poll>>
  \/ \E a \in Accounts : ProjectProfile(a)
  \/ PollStep

TailingNext ==
  \/ /\ PollCommit
     /\ consumed' = consumed \cup poll.batch
     /\ UNCHANGED timely
  \/ /\ OtherStep
     /\ timely' = timely \cup
          {s \in CommittedSeqs' \ CommittedSeqs : T!AheadOfPolls(s)}
     /\ UNCHANGED consumed

TailingSpec == TailingInit /\ [][TailingNext]_tailingVars

(* Every behaviour of the account projector, with the use cases writing the*)
(* log under it, is a behaviour of Tailing: what is proved of Tailing      *)
(* (no timely row lost, checkpoint monotone) holds of it.                  *)
ImplementsTailing == T!Spec
=============================================================================
