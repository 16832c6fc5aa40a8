------------------------------ MODULE MCClient ------------------------------
(***************************************************************************)
(* What clients and other servers ask of an account: its images, its       *)
(* fields, its relations to others, and the pages it is shown on, on small *)
(* instances.  The parts share no variable (mutes, blocks and follows only *)
(* the accounts): each is explored while the others rest.  No symmetry:    *)
(* liveness is checked.                                                    *)
(***************************************************************************)
EXTENDS Media, MetadataFields, LocalRelations, AccountPages, ActorPages

VARIABLE part  \* the part that is explored

clientVars == <<mediaVars, fieldVars, relationVars, pageVars, actorPageVars, part>>

\* Nothing, one field or two: a list longer, shorter or other than the stored one.
FieldLists == {<<>>, <<"y">>, <<"y", "x">>}

\* A part that rests does so in one of its initial states.
Init ==
  /\ part \in {"media", "fields", "mutes", "blocks", "follows", "pages", "actors", "outbox"}
  /\ MediaInit /\ FieldInit
  /\ LocalRelationsInit /\ AccountPagesInit /\ ActorPagesInit
  /\ part # "pages" => \A i \in AccountIds : standing[i] = "none"
  /\ part \notin {"actors", "outbox"} => \A n \in Nanoids : actors[n] = NoActor
  /\ part # "actors" => base = "u1"

\* Once every upload has ended nothing happens any more.
MediaStep ==
  /\ part = "media"
  /\ \/ MediaNext
     \/ (\A u \in Uploads : uploads[u] = "ended") /\ UNCHANGED mediaVars
  /\ UNCHANGED <<fieldVars, relationVars, pageVars, actorPageVars>>

FieldsStep ==
  /\ part = "fields" /\ FieldNext
  /\ UNCHANGED <<mediaVars, relationVars, pageVars, actorPageVars>>

RelationsStep ==
  /\ \/ part = "mutes" /\ MutesNext
     \/ part = "blocks" /\ BlocksNext
     \/ part = "follows" /\ FollowsNext
  /\ UNCHANGED <<mediaVars, fieldVars, pageVars, actorPageVars>>

PagesStep ==
  /\ \/ part = "pages" /\ AccountPagesNext /\ UNCHANGED actorPageVars
     \/ part = "actors" /\ ActorNext /\ UNCHANGED pageVars
     \/ part = "outbox" /\ OutboxNext /\ UNCHANGED pageVars
  /\ UNCHANGED <<mediaVars, fieldVars, relationVars>>

Next ==
  /\ UNCHANGED part
  /\ MediaStep \/ FieldsStep \/ RelationsStep \/ PagesStep

\* FieldFairness with the polls of the part that is explored.
Spec ==
  /\ Init /\ [][Next]_clientVars /\ WalkFairness
  /\ \A e \in FieldEditors : WF_fieldVars(FieldEditStep(e))
  /\ WF_fieldVars(part = "fields" /\ FieldPollStep)
=============================================================================
