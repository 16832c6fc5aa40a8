--------------------------- MODULE MetadataFields ---------------------------
(***************************************************************************)
(* The label/content fields of one account.  update_account_detail replaces*)
(* the whole list: it reads the rows in the order of their ids, plans one  *)
(* operation for each difference, and carries the operations out one by    *)
(* one in its READ COMMITTED transaction, each an event under an expected  *)
(* version and a write to the row.  Several requests run at once, and the  *)
(* metadata projector follows the events of every field.                   *)
(*                                                                         *)
(* An event's version is its seq, the place in fieldEvents; prev is the    *)
(* version its transaction saw last when it was inserted.                  *)
(***************************************************************************)
EXTENDS DependentRows

CONSTANTS
  FieldEditors,    \* concurrent update_account_detail requests
  FieldValues,     \* label and content of a field
  SubmittedLists,  \* the lists the requests carry
  MaxFields,       \* bound of the model: ids generated
  MaxFieldEvents   \* bound of the model: events

ASSUME FieldValuesAssumption == FieldValues # {}
ASSUME SubmittedListsAssumption == SubmittedLists \subseteq Seq(FieldValues)
ASSUME MaxFieldsAssumption == MaxFields \in Nat \ {0}
ASSUME MaxFieldEventsAssumption == MaxFieldEvents \in Nat \ {0}

FieldIds == 1..MaxFields

VARIABLES
  fieldParent,      \* the row of the account: one of Parents
  fieldEvents,      \* the metadata_events table
  fieldRows,        \* the rows of metadatas
  fieldEdits,       \* one edit for each request
  fieldCheckpoint,  \* last_seq of metadata_projector
  fieldPoll         \* the poll in progress

fieldVars == <<fieldParent, fieldEvents, fieldRows, fieldEdits, fieldCheckpoint, fieldPoll>>

NoField == [version |-> 0, value |-> "none"]
BrokenField == [version |-> -1, value |-> "none"]
IsField(m) == m.version > 0

\* existing, known (the events committed when the rows were read) and submitted
\* are kept for the properties; writes are the rows the transaction has written
\* and not committed.
IdleFieldEdit == [pc |-> "idle", existing |-> <<>>, known |-> {}, submitted |-> <<>>,
                  plan |-> <<>>, expected |-> 0, entity |-> NoField, writes |-> <<>>]
IdleFieldPoll == [pc |-> "idle", batch |-> {}, todo |-> {}, cur |-> 0,
                  entity |-> NoField, writes |-> <<>>]

\* One field, created by an earlier request in a transaction that wrote its row too.
FirstValue == CHOOSE v \in FieldValues : TRUE

FieldInit ==
  /\ fieldParent = "live"
  /\ fieldEvents = <<[id |-> 1, kind |-> "Created", value |-> FirstValue,
                       prev |-> 0, state |-> "committed", by |-> "none"]>>
  /\ fieldRows = [i \in FieldIds |->
                    IF i = 1 THEN [version |-> 1, value |-> FirstValue] ELSE NoField]
  /\ fieldEdits = [e \in FieldEditors |-> IdleFieldEdit]
  /\ fieldCheckpoint = 0
  /\ fieldPoll = IdleFieldPoll

-----------------------------------------------------------------------------
(* The aggregate.                                                          *)

apply_metadata(entity, version) ==
  LET event == fieldEvents[version]
  IN  IF entity = BrokenField THEN BrokenField
      ELSE CASE event.kind = "Created" ->
                  IF IsField(entity) THEN BrokenField
                  ELSE [version |-> version, value |-> event.value]
             [] event.kind = "Updated" ->
                  IF IsField(entity) THEN [version |-> version, value |-> event.value]
                  ELSE BrokenField
             [] event.kind = "Deleted" -> IF IsField(entity) THEN NoField ELSE BrokenField

FoldField(entity, seqs) ==
  LET upto[n \in 0..Len(fieldEvents)] ==
        IF n = 0 THEN entity
        ELSE IF n \in seqs THEN apply_metadata(upto[n - 1], n) ELSE upto[n - 1]
  IN  upto[Len(fieldEvents)]

CommittedFieldSeqs == {s \in DOMAIN fieldEvents : fieldEvents[s].state = "committed"}
FieldStream(i, seqs) == {s \in seqs : fieldEvents[s].id = i}

\* What the transaction of e sees: the committed events and its own.
VisibleFieldStream(e, i) ==
  FieldStream(i, CommittedFieldSeqs \cup
                 {s \in DOMAIN fieldEvents : fieldEvents[s].state = "open" /\ fieldEvents[s].by = e})

-----------------------------------------------------------------------------
(* The plan of an edit.                                                    *)

\* The numbers of S from the least to the greatest.
Ascending(S) ==
  [n \in 1..Cardinality(S) |-> CHOOSE i \in S : Cardinality({j \in S : j <= i}) = n]

\* find_by_account_id, sorted by id.
ExistingFields ==
  LET ids == Ascending({i \in FieldIds : IsField(fieldRows[i])})
  IN  [n \in DOMAIN ids |-> [id |-> ids[n], value |-> fieldRows[ids[n]].value]]

Lesser(a, b) == IF a < b THEN a ELSE b

\* Faulty variant: the fields that are no longer submitted are left alone.
KeepsTailFaulty(existing, submitted) ==
  LET paired == Lesser(Len(existing), Len(submitted))
  IN  [n \in 1..(Len(submitted) - paired) |->
         [op |-> "Create", id |-> 0, value |-> submitted[paired + n]]]

\* Pairwise updates where the value differs, then the rest deleted, or created.
plan_field_updates(existing, submitted) ==
  LET paired == Lesser(Len(existing), Len(submitted))
      changed == Ascending({n \in 1..paired : existing[n].value # submitted[n]})
      updates == [n \in DOMAIN changed |->
                    [op |-> "Update", id |-> existing[changed[n]].id,
                     value |-> submitted[changed[n]]]]
      deletes == [n \in 1..(Len(existing) - paired) |->
                    [op |-> "Delete", id |-> existing[paired + n].id, value |-> "none"]]
      creates == [n \in 1..(Len(submitted) - paired) |->
                    [op |-> "Create", id |-> 0, value |-> submitted[paired + n]]]
  IN  updates \o deletes \o creates

FieldEditBegin(e) ==
  /\ fieldEdits[e].pc = "idle"
  /\ Len(fieldEvents) < MaxFieldEvents
  /\ \E submitted \in SubmittedLists :
       LET plan == plan_field_updates(ExistingFields, submitted)
       IN  /\ plan # <<>>
           /\ fieldEdits' = [fieldEdits EXCEPT ![e] = [IdleFieldEdit EXCEPT
                !.pc = "next", !.existing = ExistingFields, !.known = CommittedFieldSeqs,
                !.submitted = submitted, !.plan = plan]]
  /\ UNCHANGED <<fieldParent, fieldEvents, fieldRows, fieldCheckpoint, fieldPoll>>

-----------------------------------------------------------------------------
(* apply_field_updates: one operation after the other.                     *)

Operation(e) == Head(fieldEdits[e].plan)

Appended(e, id, kind, value, prev) ==
  Append(fieldEvents, [id |-> id, kind |-> kind, value |-> value, prev |-> prev,
                       state |-> "open", by |-> e])

\* The row a transaction has written and not committed.
Written(id, row) == [x \in {id} |-> row]
Over(new, old) ==
  [i \in DOMAIN new \cup DOMAIN old |-> IF i \in DOMAIN new THEN new[i] ELSE old[i]]

HeldByOther(e, i) ==
  \/ \E o \in FieldEditors \ {e} : i \in DOMAIN fieldEdits[o].writes
  \/ i \in DOMAIN fieldPoll.writes

\* rehydrate_metadata: a deleted or broken stream fails the request (FieldEditAbort).
FieldEditLoad(e) ==
  /\ fieldEdits[e].pc = "next"
  /\ fieldEdits[e].plan # <<>>
  /\ Operation(e).op \in {"Update", "Delete"}
  /\ LET stream == VisibleFieldStream(e, Operation(e).id)
     IN  /\ IsField(FoldField(NoField, stream))
         /\ fieldEdits' = [fieldEdits EXCEPT ![e].pc = "loaded", ![e].expected = Highest(stream)]
  /\ UNCHANGED <<fieldParent, fieldEvents, fieldRows, fieldCheckpoint, fieldPoll>>

VisibleHead(e) == Highest(VisibleFieldStream(e, Operation(e).id))

\* Faulty variant: no expected version.
AnyVersionFaulty(e) == TRUE

\* The condition of the INSERT, on what the transaction sees at that moment.
ExpectedFieldVersion(e) == VisibleHead(e) = fieldEdits[e].expected

FieldEditSave(e) ==
  /\ fieldEdits[e].pc = "loaded"
  /\ Len(fieldEvents) < MaxFieldEvents
  /\ ExpectedFieldVersion(e)
  /\ fieldEvents' = Appended(e, Operation(e).id,
                             IF Operation(e).op = "Update" THEN "Updated" ELSE "Deleted",
                             Operation(e).value, VisibleHead(e))
  /\ fieldEdits' = [fieldEdits EXCEPT ![e].pc = "saved"]
  /\ UNCHANGED <<fieldParent, fieldRows, fieldCheckpoint, fieldPoll>>

\* After an Updated event the stream is folded again, the other requests' events
\* committed meanwhile included.
FieldEditReload(e) ==
  LET entity == FoldField(NoField, VisibleFieldStream(e, Operation(e).id))
  IN  /\ fieldEdits[e].pc = "saved"
      /\ Operation(e).op = "Update"
      /\ IsField(entity)
      /\ fieldEdits' = [fieldEdits EXCEPT ![e].pc = "folded", ![e].entity = entity]
      /\ UNCHANGED <<fieldParent, fieldEvents, fieldRows, fieldCheckpoint, fieldPoll>>

\* The UPDATE or DELETE of the row: waits for whoever holds it, and finding no row
\* fails the request (FieldEditAbort).
FieldEditWrite(e) ==
  LET op == Operation(e)
  IN  /\ \/ fieldEdits[e].pc = "folded"
         \/ fieldEdits[e].pc = "saved" /\ op.op = "Delete"
      /\ ~HeldByOther(e, op.id)
      /\ IsField(fieldRows[op.id])
      /\ fieldEdits' = [fieldEdits EXCEPT ![e].pc = "next", ![e].plan = Tail(@),
           ![e].entity = NoField, ![e].expected = 0,
           ![e].writes = Over(Written(op.id, fieldEdits[e].entity), @)]
      /\ UNCHANGED <<fieldParent, fieldEvents, fieldRows, fieldCheckpoint, fieldPoll>>

\* The event and the row of a new field, under an id above all others.
FieldEditCreate(e) ==
  LET used == {fieldEvents[s].id : s \in DOMAIN fieldEvents}
      id == Highest(used) + 1
  IN  /\ fieldEdits[e].pc = "next"
      /\ fieldEdits[e].plan # <<>>
      /\ Operation(e).op = "Create"
      /\ Len(fieldEvents) < MaxFieldEvents
      /\ id \in FieldIds
      /\ fieldEvents' = Appended(e, id, "Created", Operation(e).value, 0)
      /\ fieldEdits' = [fieldEdits EXCEPT ![e].plan = Tail(@),
           ![e].writes = Over(Written(id, [version |-> Len(fieldEvents) + 1,
                                           value |-> Operation(e).value]), @)]
      /\ UNCHANGED <<fieldParent, fieldRows, fieldCheckpoint, fieldPoll>>

FieldEditCommit(e) ==
  /\ fieldEdits[e].pc = "next"
  /\ fieldEdits[e].plan = <<>>
  /\ fieldRows' = Over(fieldEdits[e].writes, fieldRows)
  /\ fieldEvents' = [s \in DOMAIN fieldEvents |->
       IF fieldEvents[s].by = e /\ fieldEvents[s].state = "open"
       THEN [fieldEvents[s] EXCEPT !.state = "committed", !.by = "none"] ELSE fieldEvents[s]]
  /\ fieldEdits' = [fieldEdits EXCEPT ![e] = IdleFieldEdit]
  /\ UNCHANGED <<fieldParent, fieldCheckpoint, fieldPoll>>

\* The seq of a rolled back INSERT is used up.
AbortedEvent == [id |-> 1, kind |-> "none", value |-> "none", prev |-> 0,
                 state |-> "aborted", by |-> "none"]

\* A conflict, a missing row, a stream that does not fold, a cancelled request: the
\* transaction is rolled back.  Two requests that hold rows the other one wants end
\* here too, by the database's deadlock detection.
FieldEditAbort(e) ==
  /\ fieldEdits[e].pc # "idle"
  /\ fieldEvents' = [s \in DOMAIN fieldEvents |->
       IF fieldEvents[s].by = e /\ fieldEvents[s].state = "open"
       THEN AbortedEvent ELSE fieldEvents[s]]
  /\ fieldEdits' = [fieldEdits EXCEPT ![e] = IdleFieldEdit]
  /\ UNCHANGED <<fieldParent, fieldRows, fieldCheckpoint, fieldPoll>>

FieldEditStep(e) ==
  \/ FieldEditLoad(e) \/ FieldEditSave(e) \/ FieldEditReload(e) \/ FieldEditWrite(e)
  \/ FieldEditCreate(e) \/ FieldEditCommit(e) \/ FieldEditAbort(e)

-----------------------------------------------------------------------------
(* The account projector of any process, as far as the fields notice it.   *)

Unheld(i) ==
  /\ i \notin DOMAIN fieldPoll.writes
  /\ \A e \in FieldEditors : i \notin DOMAIN fieldEdits[e].writes

\* The cascade of a deactivation.  The DELETEs wait for whoever holds the rows it
\* found; rows that are inserted and not committed are neither found nor waited for.
FieldParentDeleted ==
  /\ fieldParent = "live"
  /\ \A i \in FieldIds : IsField(fieldRows[i]) => Unheld(i)
  /\ fieldParent' = "deleted"
  /\ fieldRows' = [i \in FieldIds |-> NoField]
  /\ UNCHANGED <<fieldEvents, fieldEdits, fieldCheckpoint, fieldPoll>>

FieldParentLive ==
  /\ fieldParent = "deleted"
  /\ fieldParent' = "live"
  /\ UNCHANGED <<fieldEvents, fieldRows, fieldEdits, fieldCheckpoint, fieldPoll>>

-----------------------------------------------------------------------------
(* project_metadata_batch, one transaction.                                *)

FieldWindow == SeqWindow(CommittedFieldSeqs, fieldCheckpoint)

FieldPollRead ==
  /\ fieldPoll = IdleFieldPoll
  /\ FieldWindow # {}
  /\ fieldPoll' = [fieldPoll EXCEPT !.pc = "read", !.batch = FieldWindow,
                                    !.todo = {fieldEvents[s].id : s \in FieldWindow}]
  /\ UNCHANGED <<fieldParent, fieldEvents, fieldRows, fieldEdits, fieldCheckpoint>>

PendingField(i) == {s \in FieldStream(i, fieldPoll.batch) : s > fieldRows[i].version}

FoldedField(i) == FoldField(fieldRows[i], PendingField(i))

\* Faulty variant: a fold that fails is written all the same.
WritesBrokenFaulty(i) ==
  \/ PendingField(i) = {}
  \/ SkipsDeletedParent(fieldParent, IsField(fieldRows[i]),
                        \E s \in PendingField(i) : fieldEvents[s].kind = "Created")

\* Faulty variant: a fold that ends in nothing is skipped too.
KeepsDeletedFaulty(i) ==
  \/ PendingField(i) = {}
  \/ SkipsDeletedParent(fieldParent, IsField(fieldRows[i]),
                        \E s \in PendingField(i) : fieldEvents[s].kind = "Created")
  \/ ~IsField(FoldedField(i))

FieldSkipped(i) ==
  \/ PendingField(i) = {}
  \/ SkipsDeletedParent(fieldParent, IsField(fieldRows[i]),
                        \E s \in PendingField(i) : fieldEvents[s].kind = "Created")
  \/ FoldedField(i) = BrokenField

\* The groups are taken in any order.
FieldPollFold(i) ==
  /\ fieldPoll.pc = "read"
  /\ i \in fieldPoll.todo
  /\ fieldPoll' = IF FieldSkipped(i) THEN [fieldPoll EXCEPT !.todo = @ \ {i}]
                  ELSE [fieldPoll EXCEPT !.pc = "folded", !.todo = @ \ {i}, !.cur = i,
                                         !.entity = FoldedField(i)]
  /\ UNCHANGED <<fieldParent, fieldEvents, fieldRows, fieldEdits, fieldCheckpoint>>

\* delete when the fold ends in nothing; otherwise the upsert, which keeps a row of
\* the same or a later version.
WritesField(row, entity) == ~IsField(entity) \/ row.version < entity.version

FieldPollWrite ==
  LET i == fieldPoll.cur
  IN  /\ fieldPoll.pc = "folded"
      /\ \A e \in FieldEditors : i \notin DOMAIN fieldEdits[e].writes
      /\ fieldPoll' = [fieldPoll EXCEPT !.pc = "read", !.cur = 0, !.entity = NoField,
           !.writes = IF WritesField(fieldRows[i], fieldPoll.entity)
                      THEN Over(Written(i, fieldPoll.entity), @) ELSE @]
      /\ UNCHANGED <<fieldParent, fieldEvents, fieldRows, fieldEdits, fieldCheckpoint>>

FieldPollCommit ==
  /\ fieldPoll.pc = "read"
  /\ fieldPoll.todo = {}
  /\ fieldRows' = Over(fieldPoll.writes, fieldRows)
  /\ fieldCheckpoint' = Highest(fieldPoll.batch \cup {fieldCheckpoint})
  /\ fieldPoll' = IdleFieldPoll
  /\ UNCHANGED <<fieldParent, fieldEvents, fieldEdits>>

FieldPollStep ==
  FieldPollRead \/ (\E i \in FieldIds : FieldPollFold(i)) \/ FieldPollWrite \/ FieldPollCommit

-----------------------------------------------------------------------------

FieldNext ==
  \/ \E e \in FieldEditors : FieldEditBegin(e) \/ FieldEditStep(e)
  \/ FieldParentLive \/ FieldParentDeleted
  \/ FieldPollStep

\* A request that has begun ends, and the worker's task goes on polling.
FieldFairness ==
  /\ \A e \in FieldEditors : WF_fieldVars(FieldEditStep(e))
  /\ WF_fieldVars(FieldPollStep)

FieldSpec == FieldInit /\ [][FieldNext]_fieldVars /\ FieldFairness

-----------------------------------------------------------------------------
(* Properties.                                                             *)

(* Rows are fields of generated ids, the plan only has known operations.   *)
FieldTypeOK ==
  /\ fieldRows \in [FieldIds -> [version : 0..MaxFieldEvents, value : FieldValues \cup {"none"}]]
  /\ Len(fieldEvents) <= MaxFieldEvents
  /\ \A e \in FieldEditors : \A n \in DOMAIN fieldEdits[e].plan :
       fieldEdits[e].plan[n].op \in {"Create", "Update", "Delete"}

CommittedField(i) == FoldField(NoField, FieldStream(i, CommittedFieldSeqs))

(* The stream of a field stops folding only after two requests, neither    *)
(* seeing the other's event, both wrote on top of the same version.        *)
FieldBreaksOnlyByFork ==
  \A i \in FieldIds : CommittedField(i) = BrokenField =>
    \E s, t \in FieldStream(i, CommittedFieldSeqs) :
      s # t /\ fieldEvents[s].prev = fieldEvents[t].prev

(* When no other edit committed since an edit read the rows, and the       *)
(* projectors left them as they were, the list it leaves behind is the list*)
(* that was submitted, in its order.  Unchanged rows alone are not enough: *)
(* two other edits may change a field and change it back, and the event of *)
(* the second is then folded over that of this one (FieldEditReload).      *)
CommitsTheSubmittedList ==
  [][\A e \in FieldEditors :
       (/\ FieldEditCommit(e)
        /\ fieldEdits[e].existing = ExistingFields
        /\ fieldEdits[e].known = CommittedFieldSeqs)
         => LET left == ExistingFields'
            IN  /\ Len(left) = Len(fieldEdits[e].submitted)
                /\ \A n \in DOMAIN left : left[n].value = fieldEdits[e].submitted[n]]_fieldVars

(* A row that stays is what the events of the field say; in particular a   *)
(* field deleted while a poll was under way, which that poll puts back, is *)
(* removed again.  For instances in which every event commits while it is  *)
(* still within DependentWindow of the checkpoint (MaxFieldEvents at most  *)
(* DependentWindow + 1): a later one may be missed, as Tailing shows.      *)
FieldRowsConverge ==
  <>[](\A i \in FieldIds : IsField(fieldRows[i]) =>
         CommittedField(i) \in {fieldRows[i], BrokenField})

(* What holds of the fields in every state.                                *)
FieldSafety == FieldTypeOK /\ FieldBreaksOnlyByFork
=============================================================================
