------------------------------ MODULE Profiles ------------------------------
(***************************************************************************)
(* The profile of one account: update_account_detail edits it from several *)
(* requests at once while the profile projector follows its events.        *)
(*                                                                         *)
(* An edit is one READ COMMITTED transaction.  It reads the row, appends an*)
(* Updated event with no expected version, folds the stream it can see     *)
(* (committed events and its own), writes the result over the row whatever *)
(* version the row has, and commits; afterwards, outside the transaction,  *)
(* a changed image is announced to the followers as Update(Person).        *)
(*                                                                         *)
(* A field holds 0 (none) or the version of the event that set it, which   *)
(* tells any two values apart.  An event's seq is its place in             *)
(* profileEvents; versions are handed out in the same order (the crossing  *)
(* of the two is modelled in AccountCommands).                             *)
(***************************************************************************)
EXTENDS DependentRows

CONSTANTS
  Editors,          \* concurrent update_account_detail requests
  MaxProfileEvents  \* bound of the model: events of the profile

ASSUME MaxProfileEventsAssumption == MaxProfileEvents \in Nat \ {0}

ProfileFields == {"display_name", "icon"}

VARIABLES
  profileParent,      \* the row of the account: one of Parents
  profileEvents,      \* the profile_events table
  profileRow,         \* the row of profiles
  edits,              \* one edit for each request
  profileCheckpoint,  \* last_seq of profile_projector
  profilePoll,        \* the poll in progress
  sentIcon,           \* the icon the followers were sent last
  overlap,            \* history: an edit folded the stream while an older event was open
  missed,             \* history: two requests, or a poll and a cascade, ran at once, or
                      \* a delivery failed
  raced               \* history: a cascade ran between a poll's look at the account and
                      \* the commit of what it wrote

profileVars == <<profileParent, profileEvents, profileRow, edits, profileCheckpoint,
                 profilePoll, sentIcon, overlap, missed, raced>>

NoProfile == [version |-> 0, display_name |-> 0, icon |-> 0]
IsProfile(p) == p.version > 0

NoUpdate == [f \in ProfileFields |-> "unchanged"]

\* The requests: one field set or cleared.
Updates == {[NoUpdate EXCEPT ![f] = action] : f \in ProfileFields, action \in {"clear", "set"}}

\* media_changed is decided on the row read at the start of the transaction.
IdleEdit == [pc |-> "idle", update |-> NoUpdate, seq |-> 0, entity |-> NoProfile,
             media_changed |-> FALSE]
IdleProfilePoll == [pc |-> "idle", batch |-> {}, entity |-> NoProfile]

ProfileCreated == [kind |-> "Created", update |-> NoUpdate, state |-> "committed"]

ProfileInit ==
  /\ profileParent = "absent"
  /\ profileEvents = <<ProfileCreated>>
  /\ profileRow = NoProfile
  /\ edits = [e \in Editors |-> IdleEdit]
  /\ profileCheckpoint = 0
  /\ profilePoll = IdleProfilePoll
  /\ sentIcon = 0
  /\ overlap = FALSE
  /\ missed = FALSE
  /\ raced = FALSE

-----------------------------------------------------------------------------
(* The aggregate.                                                          *)

\* Faulty variant: a field that is not part of the update is cleared.
ForgetsUnchangedFaulty(action, current, version) ==
  IF action = "set" THEN version ELSE 0

\* One field under one FieldAction.
FieldAfter(action, current, version) ==
  CASE action = "unchanged" -> current
    [] action = "clear" -> 0
    [] action = "set" -> version

BrokenProfile == [NoProfile EXCEPT !.version = -1]

apply_profile(entity, version) ==
  LET event == profileEvents[version]
  IN  IF entity = BrokenProfile THEN BrokenProfile
      ELSE CASE event.kind = "Created" ->
                  IF IsProfile(entity) THEN BrokenProfile
                  ELSE [NoProfile EXCEPT !.version = version]
             [] event.kind = "Updated" ->
                  IF ~IsProfile(entity) THEN BrokenProfile
                  ELSE [version |-> version,
                        display_name |-> FieldAfter(event.update.display_name, entity.display_name, version),
                        icon |-> FieldAfter(event.update.icon, entity.icon, version)]

\* In the order of their versions.
FoldProfile(entity, seqs) ==
  LET upto[n \in 0..Len(profileEvents)] ==
        IF n = 0 THEN entity
        ELSE IF n \in seqs THEN apply_profile(upto[n - 1], n) ELSE upto[n - 1]
  IN  upto[Len(profileEvents)]

CommittedProfileSeqs == {s \in DOMAIN profileEvents : profileEvents[s].state = "committed"}

-----------------------------------------------------------------------------
(* update_account_detail.                                                  *)

\* Whether another transaction holds the row: an edit or the poll has written it.
RowHeldByOther(e) ==
  \/ \E o \in Editors \ {e} : edits[o].pc = "written"
  \/ profilePoll.pc = "written"

\* Faulty variant: only an image that is set counts as changed.
SetImageFaulty(update, row) == update.icon = "set"

\* effective_image_id compared with the row: clearing no icon changes nothing.
MediaChanged(update, row) ==
  FieldAfter(update.icon, row.icon, Len(profileEvents) + 1) # row.icon

\* profile_query.find_by_account_id, the images resolved by their url.  A request
\* for an account without a profile row, or for an unknown image, ends here.
EditBegin(e) ==
  /\ edits[e].pc = "idle"
  /\ IsProfile(profileRow)
  /\ Len(profileEvents) < MaxProfileEvents
  /\ \E update \in Updates :
       edits' = [edits EXCEPT ![e] = [IdleEdit EXCEPT
                   !.pc = "begun", !.update = update,
                   !.media_changed = MediaChanged(update, profileRow)]]
  /\ missed' = (missed \/ \E o \in Editors \ {e} : edits[o].pc # "idle")
  /\ UNCHANGED <<profileParent, profileEvents, profileRow, profileCheckpoint,
                 profilePoll, sentIcon, overlap, raced>>

\* profile_repository.save: the INSERT has no condition, Profile::update passes no
\* expected version.
EditSave(e) ==
  /\ edits[e].pc = "begun"
  /\ Len(profileEvents) < MaxProfileEvents
  /\ profileEvents' = Append(profileEvents,
       [kind |-> "Updated", update |-> edits[e].update, state |-> "open"])
  /\ edits' = [edits EXCEPT ![e].pc = "saved", ![e].seq = Len(profileEvents) + 1]
  /\ UNCHANGED <<profileParent, profileRow, profileCheckpoint, profilePoll,
                 sentIcon, overlap, missed, raced>>

\* Faulty variant: the fold starts at the new event.
OwnEventOnlyFaulty(e) == {edits[e].seq}

\* The events a transaction sees: the committed ones and its own.
VisibleProfileSeqs(e) == CommittedProfileSeqs \cup {edits[e].seq}

\* profile_repository.load.
EditLoad(e) ==
  /\ edits[e].pc = "saved"
  /\ edits' = [edits EXCEPT ![e].pc = "loaded",
                 ![e].entity = FoldProfile(NoProfile, VisibleProfileSeqs(e))]
  /\ overlap' = (overlap \/ \E s \in DOMAIN profileEvents :
                              s < edits[e].seq /\ profileEvents[s].state = "open")
  /\ UNCHANGED <<profileParent, profileEvents, profileRow, profileCheckpoint,
                 profilePoll, sentIcon, missed, raced>>

\* profile_read_model.update: UPDATE ... WHERE id, which waits for the row.
EditWrite(e) ==
  /\ edits[e].pc = "loaded"
  /\ ~RowHeldByOther(e)
  /\ IsProfile(profileRow)
  /\ edits' = [edits EXCEPT ![e].pc = "written"]
  /\ UNCHANGED <<profileParent, profileEvents, profileRow, profileCheckpoint,
                 profilePoll, sentIcon, overlap, missed, raced>>

EditCommit(e) ==
  /\ edits[e].pc = "written"
  /\ profileRow' = edits[e].entity
  /\ profileEvents' = [profileEvents EXCEPT ![edits[e].seq].state = "committed"]
  /\ edits' = [edits EXCEPT ![e] =
       IF @.media_changed THEN [IdleEdit EXCEPT !.pc = "committed"] ELSE IdleEdit]
  /\ UNCHANGED <<profileParent, profileCheckpoint, profilePoll, sentIcon,
                 overlap, missed, raced>>

\* An error at any point rolls the whole transaction back: the row is gone when the
\* UPDATE looks for it, one of the fields conflicts, the request is cancelled.
EditAbort(e) ==
  /\ edits[e].pc \in {"begun", "saved", "loaded", "written"}
  /\ profileEvents' = [s \in DOMAIN profileEvents |->
       IF s = edits[e].seq THEN [profileEvents[s] EXCEPT !.state = "aborted"]
       ELSE profileEvents[s]]
  /\ edits' = [edits EXCEPT ![e] = IdleEdit]
  /\ UNCHANGED <<profileParent, profileRow, profileCheckpoint, profilePoll,
                 sentIcon, overlap, missed, raced>>

\* The Person it carries, as far as its icon goes.
update_person_activity(row) == row.icon

\* deliver_update_person, after the commit: the activity carries the row as it is
\* now; a failure, or an account without a profile, is only logged.
EditAnnounce(e, delivered) ==
  /\ edits[e].pc = "committed"
  /\ delivered => IsProfile(profileRow)
  /\ sentIcon' = IF delivered THEN update_person_activity(profileRow) ELSE sentIcon
  /\ missed' = (missed \/ ~delivered)
  /\ edits' = [edits EXCEPT ![e] = IdleEdit]
  /\ UNCHANGED <<profileParent, profileEvents, profileRow, profileCheckpoint,
                 profilePoll, overlap, raced>>

EditStep(e) ==
  \/ EditSave(e) \/ EditLoad(e) \/ EditWrite(e) \/ EditCommit(e) \/ EditAbort(e)
  \/ \E delivered \in BOOLEAN : EditAnnounce(e, delivered)

-----------------------------------------------------------------------------
(* The account projector of any process, as far as the profile notices it. *)

\* The account row appears, or the account is reactivated.
ProfileParentLive ==
  /\ profileParent \in {"absent", "deleted"}
  /\ profileParent' = "live"
  /\ UNCHANGED <<profileEvents, profileRow, edits, profileCheckpoint, profilePoll,
                 sentIcon, overlap, missed, raced>>

\* The poll has folded the profile and will write, or has written, the row.
HoldsProfile == profilePoll.pc \in {"folded", "written"}

\* The cascade of a deactivation.  The DELETE waits for whoever holds the row it
\* found; a row that is inserted and not committed is neither found nor waited for.
ProfileParentDeleted ==
  /\ profileParent = "live"
  /\ IsProfile(profileRow) =>
       /\ \A e \in Editors : edits[e].pc # "written"
       /\ profilePoll.pc # "written"
  /\ profileParent' = "deleted"
  /\ profileRow' = NoProfile
  /\ missed' = (missed \/ profilePoll # IdleProfilePoll)
  /\ raced' = (raced \/ HoldsProfile)
  /\ UNCHANGED <<profileEvents, edits, profileCheckpoint, profilePoll, sentIcon, overlap>>

-----------------------------------------------------------------------------
(* project_profile_batch, one transaction.                                 *)

ProfileWindow == SeqWindow(CommittedProfileSeqs, profileCheckpoint)

ProfilePollRead ==
  /\ profilePoll = IdleProfilePoll
  /\ ProfileWindow # {}
  /\ profilePoll' = [profilePoll EXCEPT !.pc = "read", !.batch = ProfileWindow]
  /\ UNCHANGED <<profileParent, profileEvents, profileRow, edits,
                 profileCheckpoint, sentIcon, overlap, missed, raced>>

PendingProfile == {s \in profilePoll.batch : s > profileRow.version}

FoldedProfile == FoldProfile(profileRow, PendingProfile)

\* The cases in which the profile is passed over; an incomplete stream is left to
\* the next re-read of the window.
ProfileSkipped ==
  \/ PendingProfile = {}
  \/ SkipsDeletedParent(profileParent, IsProfile(profileRow), 1 \in PendingProfile)
  \/ FoldedProfile = BrokenProfile

ProfilePollFold ==
  /\ profilePoll.pc = "read"
  /\ profilePoll' = IF ProfileSkipped THEN [profilePoll EXCEPT !.pc = "done"]
                    ELSE [profilePoll EXCEPT !.pc = "folded", !.entity = FoldedProfile]
  /\ UNCHANGED <<profileParent, profileEvents, profileRow, edits,
                 profileCheckpoint, sentIcon, overlap, missed, raced>>

\* Faulty variant: an UPDATE in place of the upsert.
UpdateOnlyFaulty(row, entity) == 0 < row.version /\ row.version < entity.version

\* ON CONFLICT (id) DO UPDATE ... WHERE profiles.version < EXCLUDED.version.
UpsertsProfile(row, entity) == row.version < entity.version

\* The upsert waits for an edit that holds the row; a missing account row fails it,
\* and the savepoint takes it back.
ProfilePollWrite ==
  /\ profilePoll.pc = "folded"
  /\ \A e \in Editors : edits[e].pc # "written"
  /\ profilePoll' = [profilePoll EXCEPT !.pc =
       IF ForeignKeyHolds(profileParent) /\ UpsertsProfile(profileRow, profilePoll.entity)
       THEN "written" ELSE "done"]
  /\ UNCHANGED <<profileParent, profileEvents, profileRow, edits,
                 profileCheckpoint, sentIcon, overlap, missed, raced>>

ProfilePollCommit ==
  /\ profilePoll.pc \in {"written", "done"}
  /\ profileRow' = IF profilePoll.pc = "written" THEN profilePoll.entity ELSE profileRow
  /\ profileCheckpoint' = Highest(profilePoll.batch \cup {profileCheckpoint})
  /\ profilePoll' = IdleProfilePoll
  /\ UNCHANGED <<profileParent, profileEvents, edits, sentIcon, overlap,
                 missed, raced>>

ProfilePollStep == ProfilePollRead \/ ProfilePollFold \/ ProfilePollWrite \/ ProfilePollCommit

-----------------------------------------------------------------------------

ProfileNext ==
  \/ \E e \in Editors : EditBegin(e) \/ EditStep(e)
  \/ ProfileParentLive \/ ProfileParentDeleted
  \/ ProfilePollStep

\* A request that has begun ends, and the worker's task goes on polling.
ProfileFairness ==
  /\ \A e \in Editors : WF_profileVars(EditStep(e))
  /\ WF_profileVars(ProfilePollStep)

ProfileSpec == ProfileInit /\ [][ProfileNext]_profileVars /\ ProfileFairness

-----------------------------------------------------------------------------
(* Properties.                                                             *)

ProfileRows == [version : 0..MaxProfileEvents, display_name : 0..MaxProfileEvents,
                icon : 0..MaxProfileEvents]

(* The stream never breaks, the row and what is in flight are profiles.    *)
ProfileTypeOK ==
  /\ profileParent \in Parents
  /\ Len(profileEvents) <= MaxProfileEvents
  /\ profileRow \in ProfileRows
  /\ \A e \in Editors : edits[e].entity \in ProfileRows
  /\ profilePoll.entity \in ProfileRows

(* The profile of a deactivated account stays deleted: the projector, whose*)
(* window still holds the creation, does not bring back the row that the   *)
(* cascade removed, as a comment of the projector says.  The code does not *)
(* keep this when the poll and the cascade are those of two processes.     *)
DeactivatedProfileStaysDeleted == profileParent = "deleted" => profileRow = NoProfile

(* What it does keep: a deactivated account has a profile only after a     *)
(* cascade ran between a poll's look at the account and that poll's commit.*)
(* No other order of edits, polls, deactivations and reactivations brings  *)
(* the row back.                                                           *)
ResurrectedOnlyByRace == ~raced => DeactivatedProfileStaysDeleted

(* Requests one after the other, all delivered, and no cascade during a    *)
(* poll: the followers have the icon the profile shows, whether it was set,*)
(* replaced or cleared.                                                    *)
FollowersHaveTheIcon ==
  (~missed /\ IsProfile(profileRow) /\ \A e \in Editors : edits[e].pc = "idle")
    => sentIcon = profileRow.icon

\* What the committed events say of a field: the last one that touches it decides.
LastSaid(f) ==
  LET touching == {s \in CommittedProfileSeqs : profileEvents[s].update[f] # "unchanged"}
      last == Highest(touching)
  IN  IF touching = {} \/ profileEvents[last].update[f] = "clear" THEN 0 ELSE last

ProfileConverged ==
  IsProfile(profileRow) => \A f \in ProfileFields : profileRow[f] = LastSaid(f)

(* The row ends up with every field as the committed events say, unless an *)
(* edit folded the stream while an older event was not committed yet: the  *)
(* row then lacks that event's fields under a version that keeps the       *)
(* projector, which update_account_detail relies on, from adding them.     *)
ConvergesWithoutOverlap == <>[](overlap \/ ProfileConverged)

(* The profile of a live account, new or reactivated, is materialised, as  *)
(* long as its creation has not left the projector's window.               *)
LiveProfileReturns ==
  []<>(profileParent # "live" \/ IsProfile(profileRow) \/ 1 \notin ProfileWindow)

(* What holds of the profile in every state, edits that overlap included.  *)
ProfileSafety == ProfileTypeOK /\ ResurrectedOnlyByRace /\ FollowersHaveTheIcon
=============================================================================
