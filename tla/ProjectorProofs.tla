--------------------------- MODULE ProjectorProofs ---------------------------
(***************************************************************************)
(* Proofs about the profile of an account and about its label/content      *)
(* fields, their edits and their projectors, for any number of requests,   *)
(* any length of the streams, any lists of fields and any window of the    *)
(* polls.                                                                  *)
(***************************************************************************)
EXTENDS Profiles, MetadataFields, FiniteSetTheorems, LeastNumber, TLAPS

-----------------------------------------------------------------------------
(* The fold, as an operator of the stream it reads.                        *)

ApplyTo(stream, entity, version) ==
  LET event == stream[version]
  IN  IF entity = BrokenProfile THEN BrokenProfile
      ELSE CASE event.kind = "Created" ->
                  IF IsProfile(entity) THEN BrokenProfile
                  ELSE [NoProfile EXCEPT !.version = version]
             [] event.kind = "Updated" ->
                  IF ~IsProfile(entity) THEN BrokenProfile
                  ELSE [version |-> version,
                        display_name |-> FieldAfter(event.update.display_name, entity.display_name, version),
                        icon |-> FieldAfter(event.update.icon, entity.icon, version)]

\* g holds what the first events of a stream fold into.
Goes(g, stream, entity, seqs, k) ==
  g = [n \in 0 .. k |->
         IF n = 0 THEN entity
         ELSE IF n \in seqs THEN ApplyTo(stream, g[n - 1], n) ELSE g[n - 1]]

FoldOf(stream, entity, seqs) ==
  (CHOOSE g : Goes(g, stream, entity, seqs, Len(stream)))[Len(stream)]

LEMMA FoldIsFoldOf ==
  ASSUME NEW entity, NEW seqs
  PROVE  FoldProfile(entity, seqs) = FoldOf(profileEvents, entity, seqs)
BY DEF FoldProfile, FoldOf, Goes, apply_profile, ApplyTo

\* The equations of the fold, one event at a time.
Steps(g, stream, entity, seqs, k) ==
  /\ g[0] = entity
  /\ \A n \in 1 .. k : n \in seqs => g[n] = ApplyTo(stream, g[n - 1], n)
  /\ \A n \in 1 .. k : n \notin seqs => g[n] = g[n - 1]

LEMMA GoesSteps ==
  ASSUME NEW stream, NEW entity, NEW seqs, NEW k \in Nat, NEW g, Goes(g, stream, entity, seqs, k)
  PROVE  Steps(g, stream, entity, seqs, k)
BY DEF Goes, Steps

LEMMA GoesExists ==
  ASSUME NEW stream, NEW entity, NEW seqs, NEW k \in Nat
  PROVE  \E g : Goes(g, stream, entity, seqs, k)
<1> DEFINE T == {n \in Nat : \E g : Goes(g, stream, entity, seqs, n)}
<1>1. 0 \in T
  <2>1. Goes([n \in 0 .. 0 |-> entity], stream, entity, seqs, 0)
    BY DEF Goes
  <2> QED
    BY <2>1
<1>2. ASSUME NEW m \in T PROVE m + 1 \in T
  <2>1. m \in Nat
    OBVIOUS
  <2>2. PICK g : Goes(g, stream, entity, seqs, m)
    OBVIOUS
  <2> DEFINE last == IF (m + 1) \in seqs THEN ApplyTo(stream, g[m], m + 1) ELSE g[m]
             h == [n \in 0 .. (m + 1) |-> IF n = m + 1 THEN last ELSE g[n]]
  <2> HIDE DEF last
  <2>3. /\ g[0] = entity
        /\ \A n \in 1 .. m : g[n] = IF n \in seqs THEN ApplyTo(stream, g[n - 1], n) ELSE g[n - 1]
    BY <2>1, <2>2 DEF Goes
  <2>4. (\A n \in 0 .. m : h[n] = g[n]) /\ h[m + 1] = last
    BY <2>1
  <2>5. h = [n \in 0 .. (m + 1) |-> h[n]]
    OBVIOUS
  <2> HIDE DEF h
  <2>6. ASSUME NEW n \in 0 .. (m + 1)
        PROVE  h[n] = IF n = 0 THEN entity
                      ELSE IF n \in seqs THEN ApplyTo(stream, h[n - 1], n) ELSE h[n - 1]
    <3>1. CASE n = 0
      BY <2>1, <2>3, <2>4, <3>1
    <3>2. CASE n \in 1 .. m
      BY <2>1, <2>3, <2>4, <3>2
    <3>3. CASE n = m + 1
      <4>1. h[n - 1] = g[m] /\ n # 0
        BY <2>1, <2>4, <3>3
      <4> QED
        BY <2>4, <3>3, <4>1 DEF last
    <3> QED
      BY <2>1, <3>1, <3>2, <3>3
  <2>7. Goes(h, stream, entity, seqs, m + 1)
    BY <2>5, <2>6 DEF Goes
  <2> QED
    BY <2>1, <2>7
<1>3. T \in SUBSET Nat
  OBVIOUS
<1>4. T = Nat
  <2> HIDE DEF T
  <2> QED
    BY <1>1, <1>2, <1>3, SetInduction
<1> QED
  BY <1>4

LEMMA FoldSteps ==
  ASSUME NEW stream, Len(stream) \in Nat, NEW entity, NEW seqs
  PROVE  \E g : /\ Steps(g, stream, entity, seqs, Len(stream))
                /\ FoldOf(stream, entity, seqs) = g[Len(stream)]
<1> DEFINE g == CHOOSE g : Goes(g, stream, entity, seqs, Len(stream))
<1>1. Goes(g, stream, entity, seqs, Len(stream))
  BY GoesExists
<1>2. FoldOf(stream, entity, seqs) = g[Len(stream)]
  BY DEF FoldOf
<1> HIDE DEF g
<1> QED
  BY <1>1, <1>2, GoesSteps

\* Two streams that say the same of the events of seqs.
SameEvents(s, t, seqs) ==
  \A n \in seqs : s[n].kind = t[n].kind /\ s[n].update = t[n].update

LEMMA StepsAgree ==
  ASSUME NEW s, NEW t, NEW entity, NEW R, NEW S, NEW k \in Nat, NEW g, NEW h,
         Steps(g, s, entity, R, k), Steps(h, t, entity, S, k),
         R \cap (1 .. k) = S \cap (1 .. k), SameEvents(s, t, R \cap (1 .. k))
  PROVE  g[k] = h[k]
<1> DEFINE T == {n \in Nat : n <= k => g[n] = h[n]}
<1>1. 0 \in T
  BY DEF Steps
<1>2. ASSUME NEW m \in T PROVE m + 1 \in T
  <2>1. m \in Nat
    OBVIOUS
  <2>2. ASSUME m + 1 <= k PROVE g[m + 1] = h[m + 1]
    <3>1. m + 1 \in 1 .. k /\ (m + 1) - 1 = m /\ m <= k
      BY <2>1, <2>2
    <3>2. g[m] = h[m]
      BY <3>1
    <3>3. CASE m + 1 \in R
      <4>1. m + 1 \in S /\ m + 1 \in R \cap (1 .. k)
        BY <3>1, <3>3
      <4>2. s[m + 1].kind = t[m + 1].kind /\ s[m + 1].update = t[m + 1].update
        BY <4>1 DEF SameEvents
      <4>3. g[m + 1] = ApplyTo(s, g[m], m + 1) /\ h[m + 1] = ApplyTo(t, h[m], m + 1)
        BY <3>1, <3>3, <4>1 DEF Steps
      <4>4. ApplyTo(s, g[m], m + 1) = ApplyTo(t, g[m], m + 1)
        BY <4>2 DEF ApplyTo
      <4> QED
        BY <3>2, <4>3, <4>4
    <3>4. CASE m + 1 \notin R
      <4>1. m + 1 \notin S
        BY <3>1, <3>4
      <4>2. g[m + 1] = g[m] /\ h[m + 1] = h[m]
        BY <3>1, <3>4, <4>1 DEF Steps
      <4> QED
        BY <3>2, <4>2
    <3> QED
      BY <3>3, <3>4
  <2> QED
    BY <2>1, <2>2
<1>3. T \in SUBSET Nat
  OBVIOUS
<1>4. T = Nat
  <2> HIDE DEF T
  <2> QED
    BY <1>1, <1>2, <1>3, SetInduction
<1> QED
  BY <1>4

NoneAfter(S, k, l) == \A n \in (k + 1) .. l : n \notin S

LEMMA StepsIdle ==
  ASSUME NEW s, NEW entity, NEW S, NEW k \in Nat, NEW l \in Nat, NEW g,
         k <= l, Steps(g, s, entity, S, l), NoneAfter(S, k, l)
  PROVE  g[l] = g[k]
<1> DEFINE T == {n \in Nat : k <= n /\ n <= l => g[n] = g[k]}
<1>1. 0 \in T
  OBVIOUS
<1>2. ASSUME NEW m \in T PROVE m + 1 \in T
  <2>1. m \in Nat
    OBVIOUS
  <2>2. ASSUME k <= m + 1, m + 1 <= l PROVE g[m + 1] = g[k]
    <3>1. CASE k = m + 1
      BY <3>1
    <3>2. CASE k # m + 1
      <4>1. k <= m /\ m <= l /\ m + 1 \in (k + 1) .. l /\ m + 1 \in 1 .. l /\ (m + 1) - 1 = m
        BY <2>1, <2>2, <3>2
      <4>2. g[m] = g[k] /\ m + 1 \notin S
        BY <4>1 DEF NoneAfter
      <4> QED
        BY <4>1, <4>2 DEF Steps
    <3> QED
      BY <3>1, <3>2
  <2> QED
    BY <2>1, <2>2
<1>3. T \in SUBSET Nat
  OBVIOUS
<1>4. T = Nat
  <2> HIDE DEF T
  <2> QED
    BY <1>1, <1>2, <1>3, SetInduction
<1> QED
  BY <1>4

LEMMA StepsPrefix ==
  ASSUME NEW s, NEW entity, NEW S, NEW k \in Nat, NEW l \in Nat, NEW g,
         k <= l, Steps(g, s, entity, S, l)
  PROVE  Steps(g, s, entity, S, k)
<1>1. \A n \in 1 .. k : n \in 1 .. l
  OBVIOUS
<1> QED
  BY <1>1 DEF Steps

\* Events that are appended, committed or rolled back and not among those
\* folded leave the fold alone.
LEMMA FoldKept ==
  ASSUME NEW s, NEW t, Len(s) \in Nat, Len(t) \in Nat, Len(s) <= Len(t),
         NEW entity, NEW S \in SUBSET (1 .. Len(s)), SameEvents(s, t, S)
  PROVE  FoldOf(s, entity, S) = FoldOf(t, entity, S)
<1>1. PICK g : Steps(g, s, entity, S, Len(s)) /\ FoldOf(s, entity, S) = g[Len(s)]
  BY FoldSteps
<1>2. PICK h : Steps(h, t, entity, S, Len(t)) /\ FoldOf(t, entity, S) = h[Len(t)]
  BY FoldSteps
<1>3. h[Len(t)] = h[Len(s)]
  <2>1. NoneAfter(S, Len(s), Len(t))
    BY DEF NoneAfter
  <2> QED
    BY <1>2, <2>1, StepsIdle
<1>4. Steps(h, t, entity, S, Len(s))
  BY <1>2, StepsPrefix
<1>5. SameEvents(s, t, S \cap (1 .. Len(s)))
  BY DEF SameEvents
<1>6. g[Len(s)] = h[Len(s)]
  BY <1>1, <1>4, <1>5, StepsAgree
<1> QED
  BY <1>1, <1>2, <1>3, <1>6

\* The last event is applied last.
LEMMA FoldOneMore ==
  ASSUME NEW s, Len(s) \in Nat \ {0}, NEW entity, NEW S \in SUBSET (1 .. (Len(s) - 1))
  PROVE  FoldOf(s, entity, S \cup {Len(s)}) = ApplyTo(s, FoldOf(s, entity, S), Len(s))
<1> DEFINE l == Len(s)
           U == S \cup {l}
<1>1. l \in Nat /\ l - 1 \in Nat /\ l - 1 <= l /\ l \in 1 .. l /\ l \notin S
  OBVIOUS
<1>2. PICK g : Steps(g, s, entity, U, l) /\ FoldOf(s, entity, U) = g[l]
  BY FoldSteps
<1>3. PICK h : Steps(h, s, entity, S, l) /\ FoldOf(s, entity, S) = h[l]
  BY FoldSteps
<1>4. g[l] = ApplyTo(s, g[l - 1], l)
  BY <1>1, <1>2 DEF Steps
<1>5. h[l] = h[l - 1]
  BY <1>1, <1>3 DEF Steps
<1>6. g[l - 1] = h[l - 1]
  <2>1. U \cap (1 .. (l - 1)) = S \cap (1 .. (l - 1))
    BY <1>1
  <2>2. SameEvents(s, s, U \cap (1 .. (l - 1)))
    BY DEF SameEvents
  <2>3. Steps(g, s, entity, U, l - 1) /\ Steps(h, s, entity, S, l - 1)
    BY <1>1, <1>2, <1>3, StepsPrefix
  <2> HIDE DEF U, l
  <2> QED
    BY <1>1, <2>1, <2>2, <2>3, StepsAgree
<1> QED
  BY <1>2, <1>3, <1>4, <1>5, <1>6

-----------------------------------------------------------------------------
(* What a stream folds into.                                               *)

FieldActions == {"unchanged", "clear", "set"}

ProfileEventRecords ==
  [kind : {"Created", "Updated"}, update : [ProfileFields -> FieldActions],
   state : {"open", "committed", "aborted"}]

\* The first event creates the profile and no other does.
StreamOK(s) ==
  /\ s \in Seq(ProfileEventRecords)
  /\ Len(s) \in 1 .. MaxProfileEvents
  /\ s[1].kind = "Created"
  /\ \A n \in 2 .. Len(s) : s[n].kind = "Updated"

LEMMA FieldAfterTyped ==
  ASSUME NEW action \in FieldActions, NEW current \in 0 .. MaxProfileEvents,
         NEW version \in 0 .. MaxProfileEvents
  PROVE  FieldAfter(action, current, version) \in 0 .. MaxProfileEvents
BY MaxProfileEventsAssumption DEF FieldActions, FieldAfter

LEMMA NoProfileTyped == NoProfile \in ProfileRows /\ ~IsProfile(NoProfile)
BY MaxProfileEventsAssumption DEF NoProfile, ProfileRows, IsProfile

LEMMA BrokenIsNoRow == BrokenProfile \notin ProfileRows /\ ~IsProfile(BrokenProfile)
BY DEF BrokenProfile, NoProfile, ProfileRows, IsProfile

LEMMA ApplyUpdated ==
  ASSUME NEW s, StreamOK(s), NEW n \in 2 .. Len(s), NEW entity \in ProfileRows, IsProfile(entity)
  PROVE  /\ ApplyTo(s, entity, n) \in ProfileRows
         /\ IsProfile(ApplyTo(s, entity, n)) /\ ApplyTo(s, entity, n).version = n
         /\ ApplyTo(s, entity, n).icon = FieldAfter(s[n].update.icon, entity.icon, n)
<1>1. s[n] \in ProfileEventRecords /\ s[n].kind = "Updated" /\ n \in 1 .. MaxProfileEvents
  BY MaxProfileEventsAssumption DEF StreamOK
<1>2. entity # BrokenProfile
  BY BrokenIsNoRow
<1> DEFINE name == FieldAfter(s[n].update.display_name, entity.display_name, n)
           icon == FieldAfter(s[n].update.icon, entity.icon, n)
<1>3. ApplyTo(s, entity, n) = [version |-> n, display_name |-> name, icon |-> icon]
  BY <1>1, <1>2 DEF ApplyTo
<1>4. s[n].update.display_name \in FieldActions /\ s[n].update.icon \in FieldActions
  BY <1>1 DEF ProfileEventRecords, ProfileFields
<1>5. name \in 0 .. MaxProfileEvents /\ icon \in 0 .. MaxProfileEvents /\ n \in 0 .. MaxProfileEvents
  <2>1. n \in 0 .. MaxProfileEvents
    BY <1>1, MaxProfileEventsAssumption
  <2>2. entity.display_name \in 0 .. MaxProfileEvents /\ entity.icon \in 0 .. MaxProfileEvents
    BY DEF ProfileRows
  <2> QED
    BY <1>4, <2>1, <2>2, FieldAfterTyped
<1> HIDE DEF name, icon
<1>6. ApplyTo(s, entity, n) \in ProfileRows
  BY <1>3, <1>5 DEF ProfileRows
<1>7. ApplyTo(s, entity, n).version = n /\ ApplyTo(s, entity, n).icon = icon
  BY <1>3
<1>8. IsProfile(ApplyTo(s, entity, n))
  BY <1>1, <1>7 DEF IsProfile
<1> QED
  BY <1>6, <1>7, <1>8 DEF icon

LEMMA ApplyCreated ==
  ASSUME NEW s, StreamOK(s), NEW entity \in ProfileRows, ~IsProfile(entity)
  PROVE  /\ ApplyTo(s, entity, 1) \in ProfileRows /\ IsProfile(ApplyTo(s, entity, 1))
         /\ ApplyTo(s, entity, 1).version = 1 /\ ApplyTo(s, entity, 1).icon = 0
<1>1. s[1].kind = "Created" /\ entity # BrokenProfile
  BY BrokenIsNoRow DEF StreamOK
<1>2. ApplyTo(s, entity, 1) = [NoProfile EXCEPT !.version = 1]
  BY <1>1 DEF ApplyTo
<1> QED
  BY <1>2, MaxProfileEventsAssumption DEF NoProfile, ProfileRows, IsProfile

LEMMA ApplyBreaks ==
  ASSUME NEW s, StreamOK(s), NEW n \in 2 .. Len(s), NEW entity, ~IsProfile(entity)
  PROVE  ApplyTo(s, entity, n) = BrokenProfile
<1>1. s[n].kind = "Updated"
  BY DEF StreamOK
<1> QED
  BY <1>1 DEF ApplyTo

\* Once there is a profile, updates keep it.
LEMMA StepsKeepProfile ==
  ASSUME NEW s, StreamOK(s), NEW entity, NEW S, NEW g, Steps(g, s, entity, S, Len(s)),
         NEW k \in {0, 1}, g[k] \in ProfileRows, IsProfile(g[k]), k = 0 => 1 \notin S
  PROVE  g[Len(s)] \in ProfileRows /\ IsProfile(g[Len(s)])
<1> DEFINE T == {n \in Nat : k <= n /\ n <= Len(s) => g[n] \in ProfileRows /\ IsProfile(g[n])}
<1>1. 0 \in T
  OBVIOUS
<1>2. ASSUME NEW m \in T PROVE m + 1 \in T
  <2>1. m \in Nat /\ Len(s) \in Nat
    BY MaxProfileEventsAssumption DEF StreamOK
  <2>2. ASSUME k <= m + 1, m + 1 <= Len(s) PROVE g[m + 1] \in ProfileRows /\ IsProfile(g[m + 1])
    <3>1. CASE k = m + 1
      BY <3>1
    <3>2. CASE k # m + 1
      <4>1. k <= m /\ m <= Len(s) /\ m + 1 \in 1 .. Len(s) /\ (m + 1) - 1 = m
        BY <2>1, <2>2, <3>2
      <4>2. g[m] \in ProfileRows /\ IsProfile(g[m])
        BY <4>1
      <4>3. CASE m + 1 \in S
        <5>1. m + 1 \in 2 .. Len(s)
          BY <2>1, <2>2, <3>2, <4>1, <4>3
        <5>2. g[m + 1] = ApplyTo(s, g[m], m + 1)
          BY <4>1, <4>3 DEF Steps
        <5> QED
          BY <4>2, <5>1, <5>2, ApplyUpdated
      <4>4. CASE m + 1 \notin S
        <5>1. g[m + 1] = g[m]
          BY <4>1, <4>4 DEF Steps
        <5> QED
          BY <4>2, <5>1
      <4> QED
        BY <4>3, <4>4
    <3> QED
      BY <3>1, <3>2
  <2> QED
    BY <2>1, <2>2
<1>3. T \in SUBSET Nat
  OBVIOUS
<1>4. T = Nat
  <2> HIDE DEF T
  <2> QED
    BY <1>1, <1>2, <1>3, SetInduction
<1>5. Len(s) \in Nat /\ k <= Len(s)
  BY MaxProfileEventsAssumption DEF StreamOK
<1> QED
  BY <1>4, <1>5

\* A profile and any of the updates fold into a profile.
LEMMA FoldOfUpdates ==
  ASSUME NEW s, StreamOK(s), NEW entity \in ProfileRows, IsProfile(entity), NEW S, 1 \notin S
  PROVE  FoldOf(s, entity, S) \in ProfileRows /\ IsProfile(FoldOf(s, entity, S))
<1>1. Len(s) \in Nat
  BY DEF StreamOK
<1>2. PICK g : Steps(g, s, entity, S, Len(s)) /\ FoldOf(s, entity, S) = g[Len(s)]
  BY <1>1, FoldSteps
<1>3. g[0] = entity
  BY <1>2 DEF Steps
<1> QED
  BY <1>2, <1>3, StepsKeepProfile

\* So do the creation and any of the updates.
LEMMA FoldOfCreation ==
  ASSUME NEW s, StreamOK(s), NEW entity \in ProfileRows, ~IsProfile(entity), NEW S, 1 \in S
  PROVE  FoldOf(s, entity, S) \in ProfileRows /\ IsProfile(FoldOf(s, entity, S))
<1>1. Len(s) \in Nat /\ 1 \in 1 .. Len(s)
  BY DEF StreamOK
<1>2. PICK g : Steps(g, s, entity, S, Len(s)) /\ FoldOf(s, entity, S) = g[Len(s)]
  BY <1>1, FoldSteps
<1>3. g[1] = ApplyTo(s, entity, 1)
  BY <1>1, <1>2 DEF Steps
<1>4. g[1] \in ProfileRows /\ IsProfile(g[1])
  BY <1>3, ApplyCreated
<1> QED
  BY <1>2, <1>4, StepsKeepProfile

\* Updates without the creation do not fold.
LEMMA FoldOfOrphans ==
  ASSUME NEW s, StreamOK(s), NEW entity, ~IsProfile(entity), NEW S, 1 \notin S,
         NEW x \in S, x \in 1 .. Len(s)
  PROVE  FoldOf(s, entity, S) = BrokenProfile
<1>1. Len(s) \in Nat /\ x \in Nat
  BY DEF StreamOK
<1>2. PICK g : Steps(g, s, entity, S, Len(s)) /\ FoldOf(s, entity, S) = g[Len(s)]
  BY <1>1, FoldSteps
<1> DEFINE T == {n \in Nat : n <= Len(s) =>
                   ~IsProfile(g[n]) /\ (x <= n => g[n] = BrokenProfile)}
<1>3. 0 \in T
  BY <1>2 DEF Steps
<1>4. ASSUME NEW m \in T PROVE m + 1 \in T
  <2>1. m \in Nat
    OBVIOUS
  <2>2. ASSUME m + 1 <= Len(s)
        PROVE  ~IsProfile(g[m + 1]) /\ (x <= m + 1 => g[m + 1] = BrokenProfile)
    <3>1. m <= Len(s) /\ m + 1 \in 1 .. Len(s) /\ (m + 1) - 1 = m
      BY <1>1, <2>1, <2>2
    <3>2. ~IsProfile(g[m]) /\ (x <= m => g[m] = BrokenProfile)
      BY <3>1
    <3>3. CASE m + 1 \in S
      <4>1. m + 1 \in 2 .. Len(s)
        BY <1>1, <2>1, <3>1, <3>3
      <4>2. g[m + 1] = ApplyTo(s, g[m], m + 1)
        BY <1>2, <3>1, <3>3 DEF Steps
      <4> QED
        BY <3>2, <4>1, <4>2, ApplyBreaks, BrokenIsNoRow
    <3>4. CASE m + 1 \notin S
      <4>1. g[m + 1] = g[m]
        BY <1>2, <3>1, <3>4 DEF Steps
      <4>2. x # m + 1
        BY <3>4
      <4>3. x <= m + 1 => x <= m
        BY <1>1, <2>1, <4>2
      <4> QED
        BY <3>2, <4>1, <4>3
    <3> QED
      BY <3>3, <3>4
  <2> QED
    BY <2>1, <2>2
<1>5. T \in SUBSET Nat
  OBVIOUS
<1>6. T = Nat
  <2> HIDE DEF T
  <2> QED
    BY <1>3, <1>4, <1>5, SetInduction
<1>7. Len(s) \in T
  BY <1>1, <1>6
<1> QED
  BY <1>1, <1>2, <1>7

-----------------------------------------------------------------------------
(* The invariant of the profile.                                           *)

\* The requests whose event is in the stream and not committed yet.
InStore == {"saved", "loaded", "written"}

EditRecords ==
  [pc : {"idle", "begun", "committed"} \cup InStore, update : [ProfileFields -> FieldActions],
   seq : Nat, entity : ProfileRows, media_changed : BOOLEAN]

ProfilePollRecords ==
  [pc : {"idle", "read", "folded", "written", "done"}, batch : SUBSET Nat, entity : ProfileRows]

EditOK(d) ==
  /\ d \in EditRecords
  /\ d.pc \in InStore => d.seq \in 2 .. Len(profileEvents)
  /\ d.pc \notin InStore => d.seq = 0
  /\ d.pc \in {"loaded", "written"} => IsProfile(d.entity)

\* An open event belongs to one request.
OpenOK ==
  /\ \A e \in Editors : edits[e].pc \in InStore => profileEvents[edits[e].seq].state = "open"
  /\ \A e, o \in Editors :
       edits[e].pc \in InStore /\ edits[o].pc \in InStore /\ e # o => edits[e].seq # edits[o].seq

PollOK ==
  /\ profilePoll \in ProfilePollRecords
  /\ profilePoll.batch \subseteq CommittedProfileSeqs
  /\ profilePoll.pc = "idle" => profilePoll = IdleProfilePoll
  /\ HoldsProfile => IsProfile(profilePoll.entity)

\* The row an edit has written and not committed is there: the cascade waits for it.
HeldOK == \A e \in Editors : edits[e].pc = "written" => IsProfile(profileRow)

\* Without a race a deactivated account has no profile, and nothing holds one to be
\* written.
DeletedOK ==
  ~raced /\ profileParent = "deleted" => profileRow = NoProfile /\ ~HoldsProfile

ProfileInv ==
  /\ profileParent \in Parents
  /\ StreamOK(profileEvents) /\ profileEvents[1].state = "committed"
  /\ profileRow \in ProfileRows
  /\ edits \in [Editors -> EditRecords] /\ \A e \in Editors : EditOK(edits[e])
  /\ OpenOK
  /\ profileCheckpoint \in 0 .. Len(profileEvents)
  /\ PollOK
  /\ HeldOK
  /\ DeletedOK
  /\ missed \in BOOLEAN /\ raced \in BOOLEAN

\* What the committed events say the profile is.
Said == FoldProfile(NoProfile, CommittedProfileSeqs)

\* A request that has the account to itself, where the committed events of the
\* stream say the profile is said.
AloneOK(d, stream, said, row) ==
  /\ d.pc = "begun" /\ ~d.media_changed =>
       FieldAfter(d.update.icon, said.icon, Len(stream) + 1) = said.icon
  /\ d.pc \in InStore =>
       /\ d.seq = Len(stream)
       /\ stream[d.seq].update = d.update
       /\ d.media_changed \/ FieldAfter(d.update.icon, said.icon, d.seq) = said.icon
  /\ d.pc \in {"loaded", "written"} => d.entity = ApplyTo(stream, said, d.seq)
  /\ d.pc = "written" => IsProfile(row)

\* With requests one after the other the row is what the committed events say,
\* or it is gone, and then a poll that brings it back has read all of them.
Sequential ==
  /\ \A e, o \in Editors : e = o \/ edits[e].pc = "idle" \/ edits[o].pc = "idle"
  /\ \A e \in Editors : AloneOK(edits[e], profileEvents, Said, profileRow)
  /\ profileRow \in {NoProfile, Said}
  /\ profilePoll.pc \in {"folded", "written"} => ~IsProfile(profileRow) /\ profilePoll.entity = Said
  /\ profilePoll.pc = "read" /\ ~IsProfile(profileRow) /\ 1 \in profilePoll.batch =>
       profilePoll.batch = CommittedProfileSeqs
  /\ (\A e \in Editors : edits[e].pc # "committed") => sentIcon = Said.icon

IconInv == missed \/ Sequential

-----------------------------------------------------------------------------
(* The stream under the steps of a request.                                *)

LEMMA NoUpdateTyped == NoUpdate \in [ProfileFields -> FieldActions]
BY DEF NoUpdate, FieldActions

LEMMA IdleEditOK ==
  /\ IdleEdit \in EditRecords /\ IdleEdit.pc = "idle" /\ IdleEdit.seq = 0
  /\ IdleEdit.entity = NoProfile
<1>1. NoProfile \in ProfileRows
  BY NoProfileTyped
<1> QED
  BY <1>1, NoUpdateTyped DEF IdleEdit, EditRecords, InStore

LEMMA UpdatesTyped == \A update \in Updates : update \in [ProfileFields -> FieldActions]
<1>1. ASSUME NEW f \in ProfileFields, NEW action \in {"clear", "set"}
      PROVE  [NoUpdate EXCEPT ![f] = action] \in [ProfileFields -> FieldActions]
  BY NoUpdateTyped DEF FieldActions
<1> QED
  BY <1>1 DEF Updates

OpenUpdate(u) == [kind |-> "Updated", update |-> u, state |-> "open"]

GrownBy(s, t, u) ==
  /\ StreamOK(t) /\ Len(t) = Len(s) + 1
  /\ \A n \in 1 .. Len(s) : t[n] = s[n]
  /\ t[Len(t)].kind = "Updated" /\ t[Len(t)].update = u /\ t[Len(t)].state = "open"

LEMMA StreamAppends ==
  ASSUME NEW s, NEW t, NEW u \in [ProfileFields -> FieldActions],
         StreamOK(s), Len(s) < MaxProfileEvents, t = Append(s, OpenUpdate(u))
  PROVE  GrownBy(s, t, u)
<1> DEFINE ev == OpenUpdate(u)
<1>1. ev \in ProfileEventRecords /\ ev.kind = "Updated" /\ ev.update = u /\ ev.state = "open"
  BY DEF OpenUpdate, ProfileEventRecords
<1>2. t = Append(s, ev)
  OBVIOUS
<1> HIDE DEF ev
<1>3. s \in Seq(ProfileEventRecords) /\ Len(s) \in 1 .. MaxProfileEvents
  BY DEF StreamOK
<1>4. /\ t \in Seq(ProfileEventRecords) /\ Len(t) = Len(s) + 1 /\ t[Len(s) + 1] = ev
      /\ \A n \in 1 .. Len(s) : t[n] = s[n]
  BY <1>1, <1>2, <1>3
<1>5. Len(t) \in 1 .. MaxProfileEvents
  BY <1>3, <1>4, MaxProfileEventsAssumption
<1>6. t[1].kind = "Created" /\ \A n \in 2 .. Len(t) : t[n].kind = "Updated"
  BY <1>1, <1>3, <1>4 DEF StreamOK
<1> QED
  BY <1>1, <1>4, <1>5, <1>6 DEF StreamOK, GrownBy

\* A commit or a rollback of the event n.
MarkedAs(s, t, n, state) ==
  /\ StreamOK(t) /\ Len(t) = Len(s)
  /\ \A m \in 1 .. Len(s) :
       /\ t[m].kind = s[m].kind /\ t[m].update = s[m].update
       /\ t[m].state = IF m = n THEN state ELSE s[m].state

LEMMA MarkedStream ==
  ASSUME NEW s, StreamOK(s), NEW n \in Nat, NEW st \in {"committed", "aborted"}, NEW t,
         t = [m \in DOMAIN s |-> IF m = n THEN [s[m] EXCEPT !.state = st] ELSE s[m]]
  PROVE  MarkedAs(s, t, n, st)
<1>1. s \in Seq(ProfileEventRecords) /\ DOMAIN s = 1 .. Len(s) /\ Len(s) \in Nat
  BY DEF StreamOK
<1>2. ASSUME NEW m \in 1 .. Len(s)
      PROVE  /\ t[m] \in ProfileEventRecords
             /\ t[m].kind = s[m].kind /\ t[m].update = s[m].update
             /\ t[m].state = IF m = n THEN st ELSE s[m].state
  <2>1. s[m] \in ProfileEventRecords
    BY <1>1
  <2>2. CASE m = n
    <3>1. t[m] = [s[m] EXCEPT !.state = st]
      BY <1>1, <2>2
    <3> QED
      BY <2>1, <2>2, <3>1 DEF ProfileEventRecords
  <2>3. CASE m # n
    <3>1. t[m] = s[m]
      BY <1>1, <2>3
    <3> QED
      BY <2>1, <2>3, <3>1
  <2> QED
    BY <2>2, <2>3
<1>3. t \in [1 .. Len(s) -> ProfileEventRecords]
  <2>1. t = [m \in 1 .. Len(s) |-> t[m]]
    BY <1>1
  <2> QED
    BY <1>2, <2>1
<1>4. t \in Seq(ProfileEventRecords) /\ Len(t) = Len(s)
  BY <1>1, <1>3
<1>5. StreamOK(t)
  BY <1>2, <1>4 DEF StreamOK
<1> QED
  BY <1>2, <1>4, <1>5 DEF MarkedAs

LEMMA MarkedByExcept ==
  ASSUME NEW s, StreamOK(s), NEW n \in 1 .. Len(s), NEW t,
         t = [s EXCEPT ![n].state = "committed"]
  PROVE  MarkedAs(s, t, n, "committed")
<1> DEFINE u == [m \in DOMAIN s |-> IF m = n THEN [s[m] EXCEPT !.state = "committed"] ELSE s[m]]
<1>1. s \in Seq(ProfileEventRecords) /\ DOMAIN s = 1 .. Len(s) /\ Len(s) \in Nat
  BY DEF StreamOK
<1>2. t = u
  BY <1>1
<1>3. n \in Nat
  BY <1>1
<1> QED
  BY <1>2, <1>3, MarkedStream

-----------------------------------------------------------------------------
(* ProfileInv under each step.                                             *)

\* Only the event of the request changes.
LEMMA OpenMoves ==
  ASSUME ProfileInv, NEW e \in Editors, NEW d, edits' = [edits EXCEPT ![e] = d],
         \A n \in 1 .. Len(profileEvents) :
           n # edits[e].seq => profileEvents'[n].state = profileEvents[n].state,
         d.pc \in InStore =>
           /\ profileEvents'[d.seq].state = "open"
           /\ \/ edits[e].pc \in InStore /\ d.seq = edits[e].seq
              \/ d.seq \notin 1 .. Len(profileEvents)
  PROVE  OpenOK'
<1>1. /\ edits'[e] = d /\ \A o \in Editors : o # e => edits'[o] = edits[o]
      /\ Len(profileEvents) \in Nat
  BY DEF ProfileInv, StreamOK
<1>2. ASSUME NEW o \in Editors, o # e, edits[o].pc \in InStore
      PROVE  /\ edits[o].seq \in 1 .. Len(profileEvents)
             /\ edits[e].seq # edits[o].seq
             /\ d.pc \in InStore => d.seq # edits[o].seq
             /\ profileEvents'[edits[o].seq].state = "open"
  <2>1. edits[o].seq \in 2 .. Len(profileEvents) /\ profileEvents[edits[o].seq].state = "open"
    BY <1>2 DEF ProfileInv, EditOK, OpenOK
  <2>2. edits[o].seq \in 1 .. Len(profileEvents) /\ edits[o].seq # 0
    BY <1>1, <2>1
  <2>3. edits[e].seq # edits[o].seq
    <3>1. CASE edits[e].pc \in InStore
      BY <1>2, <3>1 DEF ProfileInv, OpenOK
    <3>2. CASE edits[e].pc \notin InStore
      BY <2>2, <3>2 DEF ProfileInv, EditOK
    <3> QED
      BY <3>1, <3>2
  <2> QED
    BY <2>1, <2>2, <2>3
<1>3. ASSUME NEW o \in Editors, edits'[o].pc \in InStore
      PROVE  profileEvents'[edits'[o].seq].state = "open"
  BY <1>1, <1>2, <1>3
<1>4. ASSUME NEW o \in Editors, NEW q \in Editors, edits'[o].pc \in InStore, edits'[q].pc \in InStore,
             o # q
      PROVE  edits'[o].seq # edits'[q].seq
  <2>1. CASE o = e \/ q = e
    BY <1>1, <1>2, <1>4, <2>1
  <2>2. CASE o # e /\ q # e
    BY <1>1, <1>4, <2>2 DEF ProfileInv, OpenOK
  <2> QED
    BY <2>1, <2>2
<1> QED
  BY <1>3, <1>4 DEF OpenOK

\* A step of one request that keeps what is committed.
LEMMA EditMoves ==
  ASSUME ProfileInv, NEW e \in Editors, NEW d, edits' = [edits EXCEPT ![e] = d], OpenOK',
         StreamOK(profileEvents)', (profileEvents[1].state = "committed")',
         Len(profileEvents) <= Len(profileEvents'),
         CommittedProfileSeqs \subseteq CommittedProfileSeqs',
         profileRow' \in ProfileRows, d \in EditRecords,
         d.pc \in InStore => d.seq \in 2 .. Len(profileEvents'),
         d.pc \notin InStore => d.seq = 0,
         d.pc \in {"loaded", "written"} => IsProfile(d.entity),
         UNCHANGED <<profileParent, profileCheckpoint, profilePoll, raced>>, missed' \in BOOLEAN,
         IsProfile(profileRow) => IsProfile(profileRow'),
         d.pc = "written" => IsProfile(profileRow'),
         profileRow' = profileRow \/ IsProfile(profileRow)
  PROVE  ProfileInv'
<1>1. Len(profileEvents) \in Nat /\ Len(profileEvents') \in Nat
  BY DEF ProfileInv, StreamOK
<1>2. edits' \in [Editors -> EditRecords] /\ edits'[e] = d /\ \A o \in Editors : o # e => edits'[o] = edits[o]
  BY DEF ProfileInv
<1>3. ASSUME NEW o \in Editors PROVE EditOK(edits[o])'
  <2>1. CASE o = e
    BY <1>2, <2>1 DEF EditOK
  <2>2. CASE o # e
    <3>1. EditOK(edits[o]) /\ edits'[o] = edits[o]
      BY <1>2, <2>2 DEF ProfileInv
    <3> QED
      BY <1>1, <3>1 DEF EditOK
  <2> QED
    BY <2>1, <2>2
<1>4. PollOK'
  BY DEF ProfileInv, PollOK, HoldsProfile
<1>5. DeletedOK'
  BY NoProfileTyped DEF ProfileInv, DeletedOK, HoldsProfile
<1>7. HeldOK'
  BY <1>2 DEF ProfileInv, HeldOK
<1>6. profileCheckpoint' \in 0 .. Len(profileEvents')
  BY <1>1 DEF ProfileInv
<1> QED
  BY <1>2, <1>3, <1>4, <1>5, <1>6, <1>7 DEF ProfileInv

LEMMA EventsSame ==
  ASSUME ProfileInv, profileEvents' = profileEvents
  PROVE  /\ StreamOK(profileEvents)' /\ (profileEvents[1].state = "committed")'
         /\ Len(profileEvents) <= Len(profileEvents')
         /\ CommittedProfileSeqs' = CommittedProfileSeqs
<1>1. Len(profileEvents) \in Nat
  BY DEF ProfileInv, StreamOK
<1> QED
  BY <1>1 DEF ProfileInv, StreamOK, CommittedProfileSeqs

\* The fields of a request.
LEMMA EditFields ==
  ASSUME ProfileInv, NEW e \in Editors
  PROVE  /\ EditOK(edits[e]) /\ edits[e] \in EditRecords
         /\ edits = [o \in Editors |-> edits[o]]
BY DEF ProfileInv, EditOK

LEMMA EditBeginStep == ASSUME ProfileInv, NEW e \in Editors, EditBegin(e) PROVE ProfileInv'
<1>1. PICK update \in Updates :
        edits' = [edits EXCEPT ![e] = [IdleEdit EXCEPT
                    !.pc = "begun", !.update = update,
                    !.media_changed = MediaChanged(update, profileRow)]]
  BY DEF EditBegin
<1> DEFINE d == [IdleEdit EXCEPT !.pc = "begun", !.update = update,
                                 !.media_changed = MediaChanged(update, profileRow)]
<1>2. MediaChanged(update, profileRow) \in BOOLEAN
  BY DEF MediaChanged
<1>3. d \in EditRecords
  BY <1>2, IdleEditOK, UpdatesTyped DEF EditRecords
<1>4. d.pc = "begun" /\ d.seq = 0
  BY IdleEditOK DEF EditRecords
<1>5. edits' = [edits EXCEPT ![e] = d]
  BY <1>1
<1> HIDE DEF d
<1>6. /\ UNCHANGED <<profileParent, profileEvents, profileRow, profileCheckpoint, profilePoll, raced>>
      /\ missed' \in BOOLEAN
  BY DEF EditBegin
<1>7. profileRow' \in ProfileRows
  BY <1>6 DEF ProfileInv
<1>8. d.pc \notin InStore
  BY <1>4 DEF InStore
<1>9. OpenOK'
  BY <1>5, <1>6, <1>8, OpenMoves
<1> QED
  BY <1>3, <1>4, <1>5, <1>6, <1>7, <1>8, <1>9, EventsSame, EditMoves

LEMMA EditSaveStep == ASSUME ProfileInv, NEW e \in Editors, EditSave(e) PROVE ProfileInv'
<1> DEFINE s == profileEvents
           d == [edits[e] EXCEPT !.pc = "saved", !.seq = Len(s) + 1]
<1>1. /\ edits[e].pc = "begun" /\ Len(s) < MaxProfileEvents
      /\ s' = Append(s, OpenUpdate(edits[e].update))
      /\ UNCHANGED <<profileParent, profileRow, profileCheckpoint, profilePoll, missed, raced>>
  BY DEF EditSave, OpenUpdate
<1>2. edits[e] \in EditRecords /\ StreamOK(s) /\ edits[e].update \in [ProfileFields -> FieldActions]
  BY EditFields DEF ProfileInv, EditRecords
<1>3. /\ StreamOK(s') /\ Len(s') = Len(s) + 1 /\ \A n \in 1 .. Len(s) : s'[n] = s[n]
      /\ s'[Len(s')].state = "open"
  <2>1. GrownBy(profileEvents, profileEvents', edits[e].update)
    BY <1>1, <1>2, StreamAppends
  <2> QED
    BY <2>1 DEF GrownBy
<1>4. /\ Len(s) \in Nat /\ Len(s) >= 1 /\ DOMAIN s = 1 .. Len(s) /\ DOMAIN s' = 1 .. Len(s')
      /\ Len(s) + 1 \in Nat
  BY <1>2, <1>3 DEF StreamOK
<1>5. CommittedProfileSeqs \subseteq CommittedProfileSeqs'
  BY <1>3, <1>4 DEF CommittedProfileSeqs
<1>6. d \in EditRecords
  BY <1>2, <1>4 DEF EditRecords, InStore
<1>7. d.pc = "saved" /\ d.seq = Len(s) + 1 /\ d.pc \in InStore
  BY <1>2 DEF EditRecords, InStore
<1>8. edits' = [edits EXCEPT ![e] = d]
  BY EditFields DEF EditSave
<1> HIDE DEF d
<1>9. d.seq \in 2 .. Len(s') /\ Len(s) <= Len(s')
  BY <1>3, <1>4, <1>7
<1>10. (profileEvents[1].state = "committed")'
  BY <1>3, <1>4 DEF ProfileInv
<1>11. profileRow' \in ProfileRows /\ missed' \in BOOLEAN
  BY <1>1 DEF ProfileInv
<1>12. OpenOK'
  <2>1. d.seq \notin 1 .. Len(s) /\ s'[d.seq].state = "open"
    BY <1>3, <1>4, <1>7
  <2> QED
    BY <1>3, <1>8, <2>1, OpenMoves
<1> QED
  BY <1>1, <1>3, <1>5, <1>6, <1>7, <1>8, <1>9, <1>10, <1>11, <1>12, EditMoves

\* The events that a request sees fold into a profile.
LEMMA CommittedTyped ==
  ASSUME ProfileInv
  PROVE  1 \in CommittedProfileSeqs /\ CommittedProfileSeqs \subseteq 1 .. Len(profileEvents)
<1>1. DOMAIN profileEvents = 1 .. Len(profileEvents) /\ 1 \in 1 .. Len(profileEvents)
  BY DEF ProfileInv, StreamOK
<1> QED
  BY <1>1 DEF ProfileInv, CommittedProfileSeqs

LEMMA VisibleFolds ==
  ASSUME ProfileInv, NEW S, 1 \in S
  PROVE  FoldProfile(NoProfile, S) \in ProfileRows /\ IsProfile(FoldProfile(NoProfile, S))
BY FoldIsFoldOf, FoldOfCreation, NoProfileTyped DEF ProfileInv

LEMMA EditLoadStep == ASSUME ProfileInv, NEW e \in Editors, EditLoad(e) PROVE ProfileInv'
<1> DEFINE p == FoldProfile(NoProfile, VisibleProfileSeqs(e))
           d == [edits[e] EXCEPT !.pc = "loaded", !.entity = p]
<1>1. /\ edits[e].pc = "saved"
      /\ UNCHANGED <<profileParent, profileEvents, profileRow, profileCheckpoint, profilePoll, missed, raced>>
  BY DEF EditLoad
<1>2. p \in ProfileRows /\ IsProfile(p)
  BY CommittedTyped, VisibleFolds DEF VisibleProfileSeqs
<1>3. edits' = [edits EXCEPT ![e] = d]
  BY EditFields DEF EditLoad
<1> HIDE DEF p
<1>4. edits[e] \in EditRecords /\ edits[e].seq \in 2 .. Len(profileEvents)
  BY <1>1, EditFields DEF EditOK, InStore
<1>5. d \in EditRecords
  BY <1>2, <1>4 DEF EditRecords, InStore
<1>6. d.pc = "loaded" /\ d.seq = edits[e].seq /\ d.entity = p /\ d.pc \in InStore
  BY <1>4 DEF EditRecords, InStore
<1> HIDE DEF d
<1>7. profileRow' \in ProfileRows /\ missed' \in BOOLEAN /\ IsProfile(d.entity)
  BY <1>1, <1>2, <1>6 DEF ProfileInv
<1>8. OpenOK'
  <2>1. edits[e].pc \in InStore /\ profileEvents'[d.seq].state = "open"
    BY <1>1, <1>6 DEF InStore, ProfileInv, OpenOK
  <2> QED
    BY <1>1, <1>3, <1>6, <2>1, OpenMoves
<1> QED
  BY <1>1, <1>3, <1>4, <1>5, <1>6, <1>7, <1>8, EventsSame, EditMoves

LEMMA EditWriteStep == ASSUME ProfileInv, NEW e \in Editors, EditWrite(e) PROVE ProfileInv'
<1> DEFINE d == [edits[e] EXCEPT !.pc = "written"]
<1>1. /\ edits[e].pc = "loaded" /\ IsProfile(profileRow) /\ edits' = [edits EXCEPT ![e] = d]
      /\ UNCHANGED <<profileParent, profileEvents, profileRow, profileCheckpoint, profilePoll, missed, raced>>
  BY EditFields DEF EditWrite
<1>2. edits[e] \in EditRecords /\ edits[e].seq \in 2 .. Len(profileEvents) /\ IsProfile(edits[e].entity)
  BY <1>1, EditFields DEF EditOK, InStore
<1>3. d \in EditRecords /\ d.pc = "written" /\ d.seq = edits[e].seq /\ d.entity = edits[e].entity /\ d.pc \in InStore
  BY <1>2 DEF EditRecords, InStore
<1> HIDE DEF d
<1>4. profileRow' \in ProfileRows /\ missed' \in BOOLEAN /\ IsProfile(d.entity)
  BY <1>1, <1>2, <1>3 DEF ProfileInv
<1>5. OpenOK'
  <2>1. edits[e].pc \in InStore /\ profileEvents'[d.seq].state = "open"
    BY <1>1, <1>3 DEF InStore, ProfileInv, OpenOK
  <2> QED
    BY <1>1, <1>3, <2>1, OpenMoves
<1> QED
  BY <1>1, <1>2, <1>3, <1>4, <1>5, EventsSame, EditMoves

LEMMA EditCommitStep == ASSUME ProfileInv, NEW e \in Editors, EditCommit(e) PROVE ProfileInv'
<1> DEFINE s == profileEvents
           d == IF edits[e].media_changed THEN [IdleEdit EXCEPT !.pc = "committed"] ELSE IdleEdit
<1>1. /\ edits[e].pc = "written" /\ edits' = [edits EXCEPT ![e] = d]
      /\ s' = [s EXCEPT ![edits[e].seq].state = "committed"] /\ profileRow' = edits[e].entity
      /\ UNCHANGED <<profileParent, profileCheckpoint, profilePoll, missed, raced>>
  BY EditFields DEF EditCommit
<1>2. edits[e] \in EditRecords /\ edits[e].seq \in 2 .. Len(s) /\ StreamOK(s) /\ IsProfile(edits[e].entity)
  BY <1>1, EditFields DEF EditOK, InStore, ProfileInv
<1>3. edits[e].seq \in 1 .. Len(s) /\ Len(s) \in Nat /\ DOMAIN s = 1 .. Len(s) /\ 1 \in 1 .. Len(s)
      /\ edits[e].seq # 1
  BY <1>2 DEF StreamOK
<1>4. MarkedAs(s, s', edits[e].seq, "committed")
  BY <1>1, <1>2, <1>3, MarkedByExcept
<1>5. StreamOK(s') /\ Len(s') = Len(s) /\ DOMAIN s' = 1 .. Len(s')
  BY <1>4 DEF MarkedAs, StreamOK
<1>6. CommittedProfileSeqs \subseteq CommittedProfileSeqs' /\ (profileEvents[1].state = "committed")'
  BY <1>3, <1>4, <1>5 DEF MarkedAs, CommittedProfileSeqs, ProfileInv
<1>7. d \in EditRecords /\ d.pc \in {"idle", "committed"} /\ d.seq = 0
  BY IdleEditOK DEF EditRecords
<1> HIDE DEF d
<1>8. d.pc \notin InStore /\ d.pc \notin {"loaded", "written"}
  BY <1>7 DEF InStore
<1>9. profileRow' \in ProfileRows /\ IsProfile(profileRow') /\ IsProfile(profileRow) /\ missed' \in BOOLEAN
  BY <1>1, <1>2 DEF ProfileInv, HeldOK, EditRecords
<1>10. Len(s) <= Len(s')
  BY <1>3, <1>5
<1>11. OpenOK'
  <2>1. \A m \in 1 .. Len(s) : m # edits[e].seq => s'[m].state = s[m].state
    BY <1>4 DEF MarkedAs
  <2> QED
    BY <1>1, <1>8, <2>1, OpenMoves
<1> QED
  BY <1>1, <1>5, <1>6, <1>7, <1>8, <1>9, <1>10, <1>11, EditMoves

LEMMA EditAbortStep == ASSUME ProfileInv, NEW e \in Editors, EditAbort(e) PROVE ProfileInv'
<1> DEFINE s == profileEvents
           n == edits[e].seq
<1>1. /\ edits[e].pc \in {"begun", "saved", "loaded", "written"} /\ edits' = [edits EXCEPT ![e] = IdleEdit]
      /\ s' = [m \in DOMAIN s |-> IF m = n THEN [s[m] EXCEPT !.state = "aborted"] ELSE s[m]]
      /\ UNCHANGED <<profileParent, profileRow, profileCheckpoint, profilePoll, missed, raced>>
  BY DEF EditAbort
<1>2. StreamOK(s) /\ n \in Nat /\ n # 1
  BY EditFields DEF EditOK, ProfileInv, EditRecords
<1>3. MarkedAs(s, s', n, "aborted")
  BY <1>1, <1>2, MarkedStream
<1>4. /\ StreamOK(s') /\ Len(s') = Len(s) /\ DOMAIN s' = 1 .. Len(s') /\ DOMAIN s = 1 .. Len(s)
      /\ Len(s) \in Nat /\ 1 \in 1 .. Len(s)
  BY <1>2, <1>3 DEF MarkedAs, StreamOK
<1>5. \A m \in 1 .. Len(s) : m # n => s'[m].state = s[m].state
  BY <1>3 DEF MarkedAs
<1>6. IdleEdit.pc \notin InStore
  BY IdleEditOK DEF InStore
<1>7. OpenOK'
  BY <1>1, <1>5, <1>6, OpenMoves
<1>8. n \notin CommittedProfileSeqs
  <2>1. CASE edits[e].pc \in InStore
    BY <2>1 DEF ProfileInv, OpenOK, CommittedProfileSeqs
  <2>2. CASE edits[e].pc \notin InStore
    BY <1>4, <2>2, EditFields DEF EditOK, CommittedProfileSeqs
  <2> QED
    BY <2>1, <2>2
<1>9. CommittedProfileSeqs \subseteq CommittedProfileSeqs' /\ (profileEvents[1].state = "committed")'
  BY <1>2, <1>4, <1>5, <1>8 DEF CommittedProfileSeqs, ProfileInv
<1>10. profileRow' \in ProfileRows /\ missed' \in BOOLEAN
  BY <1>1 DEF ProfileInv
<1>11. Len(s) <= Len(s')
  BY <1>4
<1> QED
  BY <1>1, <1>4, <1>6, <1>7, <1>9, <1>10, <1>11, IdleEditOK, EditMoves

LEMMA EditAnnounceStep ==
  ASSUME ProfileInv, NEW e \in Editors, NEW delivered \in BOOLEAN, EditAnnounce(e, delivered)
  PROVE  ProfileInv'
<1>1. /\ edits' = [edits EXCEPT ![e] = IdleEdit]
      /\ UNCHANGED <<profileParent, profileEvents, profileRow, profileCheckpoint, profilePoll, raced>>
      /\ missed' \in BOOLEAN
  BY DEF EditAnnounce
<1>2. IdleEdit.pc \notin InStore /\ IdleEdit.pc \notin {"loaded", "written"}
  BY IdleEditOK DEF InStore
<1>3. OpenOK'
  BY <1>1, <1>2, OpenMoves
<1>4. profileRow' \in ProfileRows
  BY <1>1 DEF ProfileInv
<1> QED
  BY <1>1, <1>2, <1>3, <1>4, EventsSame, IdleEditOK, EditMoves

\* The steps of the projectors leave the stream and the requests alone.
LEMMA OthersMove ==
  ASSUME ProfileInv, UNCHANGED <<profileEvents, edits>>, missed' \in BOOLEAN, raced' \in BOOLEAN,
         profileParent' \in Parents,
         profileRow' \in ProfileRows, profileCheckpoint' \in 0 .. Len(profileEvents),
         profilePoll' \in ProfilePollRecords, profilePoll'.batch \subseteq CommittedProfileSeqs,
         profilePoll'.pc = "idle" => profilePoll' = IdleProfilePoll,
         profilePoll'.pc \in {"folded", "written"} => IsProfile(profilePoll'.entity), HeldOK', DeletedOK'
  PROVE  ProfileInv'
<1>1. StreamOK(profileEvents)' /\ (profileEvents[1].state = "committed")' /\ CommittedProfileSeqs' = CommittedProfileSeqs
  BY EventsSame
<1>2. \A e \in Editors : EditOK(edits[e])'
  BY DEF ProfileInv, EditOK
<1>3. OpenOK'
  BY DEF ProfileInv, OpenOK
<1>4. PollOK'
  BY <1>1 DEF PollOK, HoldsProfile
<1> QED
  BY <1>1, <1>2, <1>3, <1>4 DEF ProfileInv

LEMMA IdleProfilePollOK ==
  IdleProfilePoll \in ProfilePollRecords /\ IdleProfilePoll.pc = "idle" /\ IdleProfilePoll.batch = {}
<1>1. NoProfile \in ProfileRows
  BY NoProfileTyped
<1> QED
  BY <1>1 DEF IdleProfilePoll, ProfilePollRecords

\* A row that an edit has written is not deleted under it.
LEMMA ParentStep == ASSUME ProfileInv, ProfileParentLive \/ ProfileParentDeleted PROVE ProfileInv'
<1>1. UNCHANGED <<profileEvents, edits, profileCheckpoint, profilePoll>> /\ profileParent' \in Parents
  BY DEF ProfileParentLive, ProfileParentDeleted, Parents
<1>2. profileRow' \in ProfileRows
  BY NoProfileTyped DEF ProfileParentLive, ProfileParentDeleted, ProfileInv
<1>3. missed' \in BOOLEAN /\ raced' \in BOOLEAN
  BY DEF ProfileParentLive, ProfileParentDeleted, ProfileInv
<1>4. HeldOK'
  <2>1. CASE ProfileParentLive
    BY <2>1 DEF ProfileParentLive, ProfileInv, HeldOK
  <2>2. CASE ProfileParentDeleted
    <3>1. \A e \in Editors : edits[e].pc # "written"
      BY <2>2 DEF ProfileParentDeleted, ProfileInv, HeldOK
    <3> QED
      BY <1>1, <3>1 DEF HeldOK
  <2> QED
    BY <2>1, <2>2
<1>5. DeletedOK'
  BY <1>1 DEF ProfileParentLive, ProfileParentDeleted, DeletedOK, HoldsProfile
<1>6. /\ profilePoll \in ProfilePollRecords /\ profilePoll.batch \subseteq CommittedProfileSeqs
      /\ profilePoll.pc = "idle" => profilePoll = IdleProfilePoll
      /\ profilePoll.pc \in {"folded", "written"} => IsProfile(profilePoll.entity)
  BY DEF ProfileInv, PollOK, HoldsProfile
<1> QED
  BY <1>1, <1>2, <1>3, <1>4, <1>5, <1>6, OthersMove DEF ProfileInv

LEMMA ProfileWindowCommitted == ProfileWindow \subseteq CommittedProfileSeqs
BY DEF ProfileWindow, SeqWindow, FirstRows

LEMMA ProfilePollReadStep == ASSUME ProfileInv, ProfilePollRead PROVE ProfileInv'
<1> DEFINE next == [profilePoll EXCEPT !.pc = "read", !.batch = ProfileWindow]
<1>1. /\ profilePoll = IdleProfilePoll /\ profilePoll' = next
      /\ UNCHANGED <<profileParent, profileEvents, profileRow, edits, profileCheckpoint, missed, raced>>
  BY DEF ProfilePollRead
<1>2. ProfileWindow \subseteq CommittedProfileSeqs /\ ProfileWindow \in SUBSET Nat
  BY ProfileWindowCommitted, CommittedTyped
<1>3. profilePoll \in ProfilePollRecords
  BY DEF ProfileInv, PollOK
<1>4. next \in ProfilePollRecords /\ next.pc = "read" /\ next.batch = ProfileWindow
  BY <1>2, <1>3 DEF ProfilePollRecords
<1> HIDE DEF next
<1>5. HeldOK' /\ DeletedOK'
  BY <1>1, <1>4 DEF ProfileInv, HeldOK, DeletedOK, HoldsProfile
<1> QED
  BY <1>1, <1>2, <1>4, <1>5, OthersMove DEF ProfileInv

\* What a poll folds is a profile; it finds a deactivated account only with a profile
\* that a race has left there.
LEMMA PollFolds ==
  ASSUME ProfileInv, ~ProfileSkipped
  PROVE  /\ FoldedProfile \in ProfileRows /\ IsProfile(FoldedProfile)
         /\ raced \/ profileParent # "deleted"
<1> DEFINE P == PendingProfile
<1>1. FoldedProfile = FoldOf(profileEvents, profileRow, P) /\ StreamOK(profileEvents) /\ profileRow \in ProfileRows
  BY FoldIsFoldOf DEF FoldedProfile, ProfileInv
<1>2. FoldedProfile # BrokenProfile /\ P # {}
  BY DEF ProfileSkipped
<1>3. P \subseteq 1 .. Len(profileEvents)
  BY CommittedTyped DEF PendingProfile, ProfileInv, PollOK
<1>4. CASE IsProfile(profileRow)
  <2>1. 1 \notin P
    <3>1. profileRow.version \in Nat /\ profileRow.version > 0
      BY <1>1, <1>4 DEF IsProfile, ProfileRows
    <3> QED
      BY <3>1 DEF PendingProfile
  <2>2. raced \/ profileParent # "deleted"
    BY <1>4, NoProfileTyped DEF ProfileInv, DeletedOK
  <2> HIDE DEF P
  <2> QED
    BY <1>1, <1>4, <2>1, <2>2, FoldOfUpdates
<1>5. CASE ~IsProfile(profileRow)
  <2>1. PICK x \in P : x \in 1 .. Len(profileEvents)
    BY <1>2, <1>3
  <2> HIDE DEF P
  <2>2. 1 \in P
    BY <1>1, <1>2, <1>5, <2>1, FoldOfOrphans
  <2>3. FoldedProfile \in ProfileRows /\ IsProfile(FoldedProfile)
    BY <1>1, <1>5, <2>2, FoldOfCreation
  <2>4. profileParent # "deleted"
    BY <1>5, <2>2 DEF ProfileSkipped, SkipsDeletedParent, P
  <2> QED
    BY <2>3, <2>4
<1> QED
  BY <1>4, <1>5

LEMMA ProfilePollFoldStep == ASSUME ProfileInv, ProfilePollFold PROVE ProfileInv'
<1>1. UNCHANGED <<profileParent, profileEvents, profileRow, edits, profileCheckpoint, missed, raced>>
  BY DEF ProfilePollFold
<1>2. profilePoll \in ProfilePollRecords /\ profilePoll.batch \subseteq CommittedProfileSeqs
  BY DEF ProfileInv, PollOK
<1>3. CASE ProfileSkipped
  <2>1. profilePoll' = [profilePoll EXCEPT !.pc = "done"]
    BY <1>3 DEF ProfilePollFold
  <2>2. profilePoll' \in ProfilePollRecords /\ profilePoll'.pc = "done" /\ profilePoll'.batch = profilePoll.batch
    BY <1>2, <2>1 DEF ProfilePollRecords
  <2>3. HeldOK' /\ DeletedOK'
    BY <1>1, <2>2 DEF ProfileInv, HeldOK, DeletedOK, HoldsProfile
  <2> QED
    BY <1>1, <1>2, <2>2, <2>3, OthersMove DEF ProfileInv
<1>4. CASE ~ProfileSkipped
  <2>1. profilePoll' = [profilePoll EXCEPT !.pc = "folded", !.entity = FoldedProfile]
    BY <1>4 DEF ProfilePollFold
  <2>2. /\ FoldedProfile \in ProfileRows /\ IsProfile(FoldedProfile)
        /\ raced \/ profileParent # "deleted"
    BY <1>4, PollFolds
  <2>3. /\ profilePoll' \in ProfilePollRecords /\ profilePoll'.pc = "folded"
        /\ profilePoll'.batch = profilePoll.batch /\ profilePoll'.entity = FoldedProfile
    BY <1>2, <2>1, <2>2 DEF ProfilePollRecords
  <2>4. HeldOK' /\ DeletedOK'
    BY <1>1, <2>2 DEF ProfileInv, HeldOK, DeletedOK
  <2> QED
    BY <1>1, <1>2, <2>2, <2>3, <2>4, OthersMove DEF ProfileInv
<1> QED
  BY <1>3, <1>4

LEMMA ProfilePollWriteStep == ASSUME ProfileInv, ProfilePollWrite PROVE ProfileInv'
<1>1. /\ UNCHANGED <<profileParent, profileEvents, profileRow, edits, profileCheckpoint, missed, raced>>
      /\ profilePoll.pc = "folded"
  BY DEF ProfilePollWrite
<1>2. /\ profilePoll \in ProfilePollRecords /\ profilePoll.batch \subseteq CommittedProfileSeqs
      /\ IsProfile(profilePoll.entity)
  BY <1>1 DEF ProfileInv, PollOK, HoldsProfile
<1>3. PICK pc \in {"written", "done"} : profilePoll' = [profilePoll EXCEPT !.pc = pc]
  BY DEF ProfilePollWrite
<1>4. /\ profilePoll' \in ProfilePollRecords /\ profilePoll'.pc = pc
      /\ profilePoll'.batch = profilePoll.batch /\ profilePoll'.entity = profilePoll.entity
  BY <1>2, <1>3 DEF ProfilePollRecords
<1>5. HeldOK' /\ DeletedOK'
  BY <1>1 DEF ProfileInv, HeldOK, DeletedOK, HoldsProfile
<1> QED
  BY <1>1, <1>2, <1>4, <1>5, OthersMove DEF ProfileInv

LEMMA HighestTyped ==
  ASSUME NEW k \in Nat, NEW S \in SUBSET (0 .. k), S # {}
  PROVE  Highest(S) \in S
<1>1. \E x \in S : \A y \in S : y <= x
  BY GreatestNatural
<1> QED
  BY <1>1 DEF Highest

LEMMA ProfilePollCommitStep == ASSUME ProfileInv, ProfilePollCommit PROVE ProfileInv'
<1>1. /\ UNCHANGED <<profileParent, profileEvents, edits, missed, raced>> /\ profilePoll' = IdleProfilePoll
      /\ profilePoll.pc \in {"written", "done"}
      /\ profileRow' = IF profilePoll.pc = "written" THEN profilePoll.entity ELSE profileRow
  BY DEF ProfilePollCommit
<1>2. profilePoll \in ProfilePollRecords /\ profilePoll.batch \subseteq CommittedProfileSeqs
  BY DEF ProfileInv, PollOK
<1>3. profileRow' \in ProfileRows
  BY <1>1, <1>2 DEF ProfileInv, ProfilePollRecords
<1>4. HeldOK' /\ DeletedOK'
  BY <1>1, IdleProfilePollOK DEF ProfileInv, PollOK, HeldOK, DeletedOK, HoldsProfile
<1>5. profileCheckpoint' \in 0 .. Len(profileEvents)
  <2> DEFINE S == profilePoll.batch \cup {profileCheckpoint}
  <2>1. Len(profileEvents) \in Nat /\ profileCheckpoint \in 0 .. Len(profileEvents)
    BY DEF ProfileInv, StreamOK
  <2>2. S \in SUBSET (0 .. Len(profileEvents)) /\ S # {}
    BY <1>2, <2>1, CommittedTyped
  <2>3. profileCheckpoint' = Highest(S)
    BY DEF ProfilePollCommit
  <2> HIDE DEF S
  <2> QED
    BY <2>1, <2>2, <2>3, HighestTyped
<1>6. /\ profilePoll' \in ProfilePollRecords /\ profilePoll'.batch \subseteq CommittedProfileSeqs
      /\ profilePoll'.pc = "idle"
  BY <1>1, IdleProfilePollOK
<1> QED
  BY <1>1, <1>3, <1>4, <1>5, <1>6, OthersMove DEF ProfileInv

LEMMA ProfileInvInit == ProfileInit => ProfileInv
<1> SUFFICES ASSUME ProfileInit PROVE ProfileInv
  OBVIOUS
<1>1. ProfileCreated \in ProfileEventRecords /\ ProfileCreated.kind = "Created" /\ ProfileCreated.state = "committed"
  BY NoUpdateTyped DEF ProfileCreated, ProfileEventRecords
<1>2. profileEvents = <<ProfileCreated>>
  BY DEF ProfileInit
<1>3. profileEvents \in Seq(ProfileEventRecords) /\ Len(profileEvents) = 1 /\ profileEvents[1] = ProfileCreated
  BY <1>1, <1>2
<1>4. StreamOK(profileEvents) /\ profileEvents[1].state = "committed"
  BY <1>1, <1>3, MaxProfileEventsAssumption DEF StreamOK
<1>5. /\ edits \in [Editors -> EditRecords]
      /\ \A e \in Editors : edits[e].pc = "idle" /\ EditOK(edits[e]) /\ edits[e].pc \notin InStore
  BY IdleEditOK DEF ProfileInit, EditOK, InStore
<1>6. OpenOK
  BY <1>5 DEF OpenOK
<1>7. PollOK
  BY IdleProfilePollOK DEF ProfileInit, PollOK, HoldsProfile
<1>8. HeldOK /\ DeletedOK /\ profileParent \in Parents
  BY <1>5 DEF ProfileInit, HeldOK, DeletedOK, Parents
<1>9. profileCheckpoint \in 0 .. Len(profileEvents)
  <2>1. profileCheckpoint = 0
    BY DEF ProfileInit
  <2> QED
    BY <1>3, <2>1
<1>10. profileRow \in ProfileRows /\ missed \in BOOLEAN /\ raced \in BOOLEAN
  BY NoProfileTyped DEF ProfileInit
<1> QED
  BY <1>4, <1>5, <1>6, <1>7, <1>8, <1>9, <1>10 DEF ProfileInv

LEMMA ProfileInvStep == ProfileInv /\ [ProfileNext]_profileVars => ProfileInv'
<1> SUFFICES ASSUME ProfileInv, [ProfileNext]_profileVars PROVE ProfileInv'
  OBVIOUS
<1>1. CASE UNCHANGED profileVars
  <2>1. HeldOK' /\ DeletedOK'
    BY <1>1 DEF profileVars, ProfileInv, HeldOK, DeletedOK, HoldsProfile
  <2> QED
    BY <1>1, <2>1, OthersMove DEF profileVars, ProfileInv, PollOK, HoldsProfile
<1>2. CASE \E e \in Editors : EditBegin(e) \/ EditStep(e)
  BY <1>2, EditBeginStep, EditSaveStep, EditLoadStep, EditWriteStep, EditCommitStep, EditAbortStep,
     EditAnnounceStep DEF EditStep
<1>3. CASE ProfileParentLive \/ ProfileParentDeleted
  BY <1>3, ParentStep
<1>4. CASE ProfilePollStep
  BY <1>4, ProfilePollReadStep, ProfilePollFoldStep, ProfilePollWriteStep, ProfilePollCommitStep
  DEF ProfilePollStep
<1> QED
  BY <1>1, <1>2, <1>3, <1>4 DEF ProfileNext

\* For every number of requests, length of the stream, window and batch: the
\* stream of a profile always folds, what is in flight is a profile, and a
\* deactivated account has one only after a cascade that ran between a poll's look
\* at the account and that poll's commit.  Edits, polls, deactivations and
\* reactivations in any other order do not bring it back.
THEOREM ProfileReturnsOnlyByRace ==
  ProfileSpec => [](ProfileTypeOK /\ ResurrectedOnlyByRace)
<1>1. ProfileInv => ProfileTypeOK /\ ResurrectedOnlyByRace
  <2> SUFFICES ASSUME ProfileInv PROVE ProfileTypeOK /\ ResurrectedOnlyByRace
    OBVIOUS
  <2>1. Len(profileEvents) <= MaxProfileEvents
    BY MaxProfileEventsAssumption DEF ProfileInv, StreamOK
  <2>2. \A e \in Editors : edits[e].entity \in ProfileRows
    BY DEF ProfileInv, EditRecords
  <2>3. profilePoll.entity \in ProfileRows
    BY DEF ProfileInv, PollOK, ProfilePollRecords
  <2> QED
    BY <2>1, <2>2, <2>3 DEF ProfileInv, ProfileTypeOK, DeletedOK, ResurrectedOnlyByRace,
      DeactivatedProfileStaysDeleted
<1> QED
  BY <1>1, ProfileInvInit, ProfileInvStep, PTL DEF ProfileSpec

-----------------------------------------------------------------------------
(* Requests one after the other.                                           *)

\* The row a stream folds into has the version of its last event.
LEMMA FoldVersion ==
  ASSUME NEW s, StreamOK(s), NEW S, 1 \in S, NEW x \in S, x \in 1 .. Len(s)
  PROVE  x <= FoldOf(s, NoProfile, S).version
<1>1. Len(s) \in Nat /\ 1 \in 1 .. Len(s)
  BY DEF StreamOK
<1>2. PICK g : Steps(g, s, NoProfile, S, Len(s)) /\ FoldOf(s, NoProfile, S) = g[Len(s)]
  BY <1>1, FoldSteps
<1> DEFINE Good(n) == /\ g[n] \in ProfileRows /\ IsProfile(g[n])
                      /\ x <= n => x <= g[n].version
           T == {n \in Nat : 1 <= n /\ n <= Len(s) => Good(n)}
<1>3. 0 \in T
  OBVIOUS
<1>4. Good(1)
  <2>1. g[1] = ApplyTo(s, NoProfile, 1)
    BY <1>1, <1>2 DEF Steps
  <2>2. g[1] \in ProfileRows /\ IsProfile(g[1]) /\ g[1].version = 1
    BY <2>1, ApplyCreated, NoProfileTyped
  <2> QED
    BY <2>2
<1>5. ASSUME NEW m \in T PROVE m + 1 \in T
  <2>1. m \in Nat
    OBVIOUS
  <2>2. ASSUME m + 1 <= Len(s), m # 0 PROVE Good(m + 1)
    <3>1. 1 <= m /\ m <= Len(s) /\ m + 1 \in 1 .. Len(s) /\ (m + 1) - 1 = m /\ m + 1 \in 2 .. Len(s)
      BY <1>1, <2>1, <2>2
    <3>2. Good(m)
      BY <3>1
    <3>3. CASE m + 1 \in S
      <4>1. g[m + 1] = ApplyTo(s, g[m], m + 1)
        BY <1>2, <3>1, <3>3 DEF Steps
      <4>2. g[m + 1] \in ProfileRows /\ IsProfile(g[m + 1]) /\ g[m + 1].version = m + 1
        BY <3>1, <3>2, <4>1, ApplyUpdated
      <4> QED
        BY <4>2
    <3>4. CASE m + 1 \notin S
      <4>1. g[m + 1] = g[m]
        BY <1>2, <3>1, <3>4 DEF Steps
      <4>2. x <= m + 1 => x <= m
        BY <1>1, <2>1, <3>4
      <4> QED
        BY <3>2, <4>1, <4>2
    <3> QED
      BY <3>3, <3>4
  <2>3. CASE m = 0
    BY <1>4, <2>3
  <2> HIDE DEF Good
  <2> QED
    BY <2>1, <2>2, <2>3
<1>6. T \in SUBSET Nat
  OBVIOUS
<1>7. T = Nat
  <2> HIDE DEF T
  <2> QED
    BY <1>3, <1>5, <1>6, SetInduction
<1>8. Good(Len(s))
  <2> HIDE DEF Good
  <2> QED
    BY <1>1, <1>7
<1> QED
  BY <1>1, <1>2, <1>8

LEMMA SaidIsFold == Said = FoldOf(profileEvents, NoProfile, CommittedProfileSeqs)
BY FoldIsFoldOf DEF Said

LEMMA SaidIsFoldNext == Said' = FoldOf(profileEvents', NoProfile, CommittedProfileSeqs')
BY DEF Said, FoldProfile, FoldOf, Goes, apply_profile, ApplyTo

LEMMA SaidTyped ==
  ASSUME ProfileInv
  PROVE  Said \in ProfileRows /\ IsProfile(Said)
BY CommittedTyped, VisibleFolds DEF Said

LEMMA SaidVersion ==
  ASSUME ProfileInv, NEW x \in CommittedProfileSeqs
  PROVE  x <= Said.version
BY CommittedTyped, SaidIsFold, FoldVersion DEF ProfileInv

LEMMA SaidKept ==
  ASSUME ProfileInv, Len(profileEvents') \in Nat, Len(profileEvents) <= Len(profileEvents'),
         SameEvents(profileEvents, profileEvents', CommittedProfileSeqs),
         CommittedProfileSeqs' = CommittedProfileSeqs
  PROVE  Said' = Said
<1>1. Len(profileEvents) \in Nat /\ CommittedProfileSeqs \in SUBSET (1 .. Len(profileEvents))
  BY CommittedTyped DEF ProfileInv, StreamOK
<1> QED
  BY <1>1, SaidIsFold, SaidIsFoldNext, FoldKept

LEMMA SaidSame ==
  ASSUME ProfileInv, profileEvents' = profileEvents
  PROVE  Said' = Said /\ CommittedProfileSeqs' = CommittedProfileSeqs
<1>1. CommittedProfileSeqs' = CommittedProfileSeqs
  BY DEF CommittedProfileSeqs
<1> QED
  BY <1>1, SaidIsFold, SaidIsFoldNext

\* The events that a request sees, when it runs alone.
LEMMA OwnEventLast ==
  ASSUME ProfileInv, NEW e \in Editors, edits[e].pc \in InStore, edits[e].seq = Len(profileEvents)
  PROVE  /\ FoldOf(profileEvents, NoProfile, CommittedProfileSeqs \cup {edits[e].seq})
              = ApplyTo(profileEvents, Said, edits[e].seq)
         /\ ApplyTo(profileEvents, Said, edits[e].seq) \in ProfileRows
         /\ IsProfile(ApplyTo(profileEvents, Said, edits[e].seq))
         /\ ApplyTo(profileEvents, Said, edits[e].seq).icon
              = FieldAfter(profileEvents[edits[e].seq].update.icon, Said.icon, edits[e].seq)
<1> DEFINE s == profileEvents
           n == Len(s)
<1>1. n \in Nat \ {0} /\ StreamOK(s)
  BY DEF ProfileInv, StreamOK
<1>2. n \notin CommittedProfileSeqs /\ n \in 2 .. Len(s)
  BY DEF ProfileInv, OpenOK, EditOK, CommittedProfileSeqs
<1>3. CommittedProfileSeqs \in SUBSET (1 .. (n - 1))
  <2>1. CommittedProfileSeqs \subseteq 1 .. n
    BY CommittedTyped
  <2> QED
    BY <1>1, <1>2, <2>1
<1>4. FoldOf(s, NoProfile, CommittedProfileSeqs \cup {n}) = ApplyTo(s, Said, n)
  BY <1>1, <1>3, SaidIsFold, FoldOneMore
<1> QED
  BY <1>1, <1>2, <1>4, SaidTyped, ApplyUpdated

\* A step of the one request that runs, which commits nothing.
LEMMA AloneMoves ==
  ASSUME ProfileInv, Sequential, NEW e \in Editors, NEW d, edits' = [edits EXCEPT ![e] = d],
         \A o \in Editors : o = e \/ edits[o].pc = "idle",
         AloneOK(d, profileEvents', Said', profileRow'), Said' = Said, CommittedProfileSeqs' = CommittedProfileSeqs,
         UNCHANGED <<profileRow, profilePoll>>, d.pc # "committed", sentIcon' = Said.icon
  PROVE  Sequential'
<1>1. edits'[e] = d /\ \A o \in Editors : o # e => edits'[o].pc = "idle"
  BY DEF ProfileInv
<1>2. ASSUME NEW o \in Editors PROVE AloneOK(edits[o], profileEvents, Said, profileRow)'
  <2>1. CASE o = e
    BY <1>1, <2>1 DEF AloneOK
  <2>2. CASE o # e
    BY <1>1, <2>2 DEF AloneOK, InStore
  <2> QED
    BY <2>1, <2>2
<1>3. \A o, q \in Editors : o = q \/ edits'[o].pc = "idle" \/ edits'[q].pc = "idle"
  BY <1>1
<1> QED
  BY <1>2, <1>3 DEF Sequential

\* The request that runs has the account to itself.
LEMMA OthersIdle ==
  ASSUME Sequential, NEW e \in Editors, edits[e].pc # "idle"
  PROVE  /\ \A o \in Editors : o = e \/ edits[o].pc = "idle"
         /\ AloneOK(edits[e], profileEvents, Said, profileRow)
         /\ edits[e].pc # "committed" => sentIcon = Said.icon
BY DEF Sequential

LEMMA EditBeginAlone ==
  ASSUME ProfileInv, Sequential, NEW e \in Editors, EditBegin(e), ~missed'
  PROVE  Sequential'
<1>1. PICK update \in Updates :
        edits' = [edits EXCEPT ![e] = [IdleEdit EXCEPT
                    !.pc = "begun", !.update = update,
                    !.media_changed = MediaChanged(update, profileRow)]]
  BY DEF EditBegin
<1> DEFINE d == [IdleEdit EXCEPT !.pc = "begun", !.update = update,
                                 !.media_changed = MediaChanged(update, profileRow)]
<1>2. d.pc = "begun" /\ d.update = update /\ d.media_changed = MediaChanged(update, profileRow)
  BY IdleEditOK DEF EditRecords
<1>3. edits' = [edits EXCEPT ![e] = d]
  BY <1>1
<1> HIDE DEF d
<1>4. /\ UNCHANGED <<profileEvents, profileRow, profilePoll, sentIcon>>
      /\ edits[e].pc = "idle" /\ IsProfile(profileRow)
      /\ \A o \in Editors : o = e \/ edits[o].pc = "idle"
  BY DEF EditBegin
<1>5. Said' = Said /\ CommittedProfileSeqs' = CommittedProfileSeqs
  BY <1>4, SaidSame
<1>6. sentIcon' = Said.icon
  BY <1>4 DEF Sequential
<1>7. profileRow = Said
  BY <1>4, NoProfileTyped DEF Sequential
<1>8. AloneOK(d, profileEvents', Said', profileRow')
  BY <1>2, <1>4, <1>5, <1>7 DEF AloneOK, InStore, MediaChanged
<1> QED
  BY <1>2, <1>3, <1>4, <1>5, <1>6, <1>8, AloneMoves

LEMMA EditSaveAlone ==
  ASSUME ProfileInv, Sequential, NEW e \in Editors, EditSave(e)
  PROVE  Sequential'
<1> DEFINE s == profileEvents
           d == [edits[e] EXCEPT !.pc = "saved", !.seq = Len(s) + 1]
<1>1. /\ edits[e].pc = "begun" /\ Len(s) < MaxProfileEvents /\ edits[e].pc # "idle"
      /\ s' = Append(s, OpenUpdate(edits[e].update))
      /\ UNCHANGED <<profileRow, profilePoll, sentIcon>>
  BY DEF EditSave, OpenUpdate
<1>2. edits[e] \in EditRecords /\ StreamOK(s) /\ edits[e].update \in [ProfileFields -> FieldActions]
  BY EditFields DEF ProfileInv, EditRecords
<1>3. GrownBy(profileEvents, profileEvents', edits[e].update)
  BY <1>1, <1>2, StreamAppends
<1>4. /\ Len(s) \in Nat /\ Len(s') = Len(s) + 1 /\ DOMAIN s = 1 .. Len(s) /\ DOMAIN s' = 1 .. Len(s')
      /\ \A n \in 1 .. Len(s) : s'[n] = s[n]
      /\ s'[Len(s')].state = "open" /\ s'[Len(s')].update = edits[e].update
  BY <1>2, <1>3 DEF StreamOK, GrownBy
<1>5. CommittedProfileSeqs' = CommittedProfileSeqs
  BY <1>4 DEF CommittedProfileSeqs
<1>6. Said' = Said
  <2>1. SameEvents(profileEvents, profileEvents', CommittedProfileSeqs)
    BY <1>4, CommittedTyped DEF SameEvents
  <2>2. Len(s') \in Nat /\ Len(s) <= Len(s')
    BY <1>4
  <2> QED
    BY <1>5, <2>1, <2>2, SaidKept
<1>7. /\ d.pc = "saved" /\ d.seq = Len(s) + 1 /\ d.update = edits[e].update
      /\ d.media_changed = edits[e].media_changed
  BY <1>2 DEF EditRecords
<1>8. edits' = [edits EXCEPT ![e] = d]
  BY EditFields DEF EditSave
<1>9. d.media_changed \/ FieldAfter(d.update.icon, Said.icon, d.seq) = Said.icon
  BY <1>1, <1>7, OthersIdle DEF AloneOK
<1> HIDE DEF d
<1>10. AloneOK(d, profileEvents', Said', profileRow')
  BY <1>4, <1>6, <1>7, <1>9 DEF AloneOK
<1>11. sentIcon' = Said.icon
  BY <1>1, OthersIdle
<1> QED
  BY <1>1, <1>5, <1>6, <1>7, <1>8, <1>10, <1>11, OthersIdle, AloneMoves

LEMMA EditLoadAlone ==
  ASSUME ProfileInv, Sequential, NEW e \in Editors, EditLoad(e)
  PROVE  Sequential'
<1> DEFINE p == FoldProfile(NoProfile, VisibleProfileSeqs(e))
           d == [edits[e] EXCEPT !.pc = "loaded", !.entity = p]
<1>1. /\ edits[e].pc = "saved" /\ edits[e].pc # "idle" /\ edits[e].pc \in InStore
      /\ UNCHANGED <<profileEvents, profileRow, profilePoll, sentIcon>>
  BY DEF EditLoad, InStore
<1>2. Said' = Said /\ CommittedProfileSeqs' = CommittedProfileSeqs
  BY <1>1, SaidSame
<1>3. edits[e].seq = Len(profileEvents)
  BY <1>1, OthersIdle DEF AloneOK
<1>4. p = ApplyTo(profileEvents, Said, edits[e].seq)
  BY <1>1, <1>3, OwnEventLast, FoldIsFoldOf DEF VisibleProfileSeqs
<1>5. edits' = [edits EXCEPT ![e] = d]
  BY EditFields DEF EditLoad
<1> HIDE DEF p
<1>6. edits[e] \in EditRecords
  BY EditFields
<1>7. /\ d.pc = "loaded" /\ d.seq = edits[e].seq /\ d.update = edits[e].update /\ d.entity = p
      /\ d.media_changed = edits[e].media_changed
  BY <1>6 DEF EditRecords
<1> HIDE DEF d
<1>8. ApplyTo(profileEvents', Said', d.seq) = ApplyTo(profileEvents, Said, edits[e].seq)
  BY <1>1, <1>2, <1>7
<1>9. AloneOK(d, profileEvents', Said', profileRow')
  BY <1>1, <1>2, <1>4, <1>7, <1>8, OthersIdle DEF AloneOK
<1>10. sentIcon' = Said.icon
  BY <1>1, OthersIdle
<1> QED
  BY <1>1, <1>2, <1>5, <1>7, <1>9, <1>10, OthersIdle, AloneMoves

LEMMA EditWriteAlone ==
  ASSUME ProfileInv, Sequential, NEW e \in Editors, EditWrite(e)
  PROVE  Sequential'
<1> DEFINE d == [edits[e] EXCEPT !.pc = "written"]
<1>1. /\ edits[e].pc = "loaded" /\ edits[e].pc # "idle" /\ edits[e].pc \in InStore
      /\ IsProfile(profileRow) /\ edits' = [edits EXCEPT ![e] = d]
      /\ UNCHANGED <<profileEvents, profileRow, profilePoll, sentIcon>>
  BY EditFields DEF EditWrite, InStore
<1>2. Said' = Said /\ CommittedProfileSeqs' = CommittedProfileSeqs
  BY <1>1, SaidSame
<1>3. edits[e] \in EditRecords
  BY EditFields
<1>4. /\ d.pc = "written" /\ d.seq = edits[e].seq /\ d.update = edits[e].update
      /\ d.entity = edits[e].entity /\ d.media_changed = edits[e].media_changed
  BY <1>3 DEF EditRecords
<1> HIDE DEF d
<1>5. AloneOK(d, profileEvents', Said', profileRow')
  <2>1. ApplyTo(profileEvents', Said', d.seq) = ApplyTo(profileEvents, Said, edits[e].seq)
    BY <1>1, <1>2, <1>4
  <2> QED
    BY <1>1, <1>2, <1>4, <2>1, OthersIdle DEF AloneOK
<1>6. sentIcon' = Said.icon
  BY <1>1, OthersIdle
<1> QED
  BY <1>1, <1>2, <1>4, <1>5, <1>6, OthersIdle, AloneMoves

LEMMA IdleAlone ==
  ASSUME NEW stream, NEW said, NEW row
  PROVE  AloneOK(IdleEdit, stream, said, row)
BY IdleEditOK DEF AloneOK, InStore

LEMMA EditAbortAlone ==
  ASSUME ProfileInv, Sequential, NEW e \in Editors, EditAbort(e)
  PROVE  Sequential'
<1> DEFINE s == profileEvents
           n == edits[e].seq
<1>1. /\ edits[e].pc # "idle" /\ edits[e].pc # "committed" /\ edits' = [edits EXCEPT ![e] = IdleEdit]
      /\ s' = [m \in DOMAIN s |-> IF m = n THEN [s[m] EXCEPT !.state = "aborted"] ELSE s[m]]
      /\ UNCHANGED <<profileRow, profilePoll, sentIcon>>
  BY DEF EditAbort
<1>2. StreamOK(s) /\ n \in Nat
  BY EditFields DEF ProfileInv, EditRecords
<1>3. MarkedAs(s, s', n, "aborted")
  BY <1>1, <1>2, MarkedStream
<1>4. /\ Len(s') = Len(s) /\ DOMAIN s' = 1 .. Len(s') /\ DOMAIN s = 1 .. Len(s) /\ Len(s) \in Nat
      /\ \A m \in 1 .. Len(s) : /\ s'[m].kind = s[m].kind /\ s'[m].update = s[m].update
                                /\ s'[m].state = IF m = n THEN "aborted" ELSE s[m].state
  BY <1>2, <1>3 DEF MarkedAs, StreamOK
<1>5. n \notin CommittedProfileSeqs
  <2>1. CASE edits[e].pc \in InStore
    BY <2>1 DEF ProfileInv, OpenOK, CommittedProfileSeqs
  <2>2. CASE edits[e].pc \notin InStore
    BY <1>4, <2>2, EditFields DEF EditOK, CommittedProfileSeqs
  <2> QED
    BY <2>1, <2>2
<1>6. CommittedProfileSeqs' = CommittedProfileSeqs
  BY <1>4, <1>5 DEF CommittedProfileSeqs
<1>7. Said' = Said
  <2>1. SameEvents(profileEvents, profileEvents', CommittedProfileSeqs)
    BY <1>4, CommittedTyped DEF SameEvents
  <2>2. Len(s') \in Nat /\ Len(s) <= Len(s')
    BY <1>4
  <2> QED
    BY <1>6, <2>1, <2>2, SaidKept
<1>8. sentIcon' = Said.icon /\ IdleEdit.pc # "committed"
  BY <1>1, OthersIdle, IdleEditOK
<1> QED
  BY <1>1, <1>6, <1>7, <1>8, IdleAlone, OthersIdle, AloneMoves

LEMMA EditAnnounceAlone ==
  ASSUME ProfileInv, Sequential, NEW e \in Editors, NEW delivered \in BOOLEAN,
         EditAnnounce(e, delivered), ~missed'
  PROVE  Sequential'
<1>1. /\ delivered /\ IsProfile(profileRow) /\ edits[e].pc # "idle"
      /\ sentIcon' = profileRow.icon /\ edits' = [edits EXCEPT ![e] = IdleEdit]
      /\ UNCHANGED <<profileEvents, profileRow, profilePoll>>
  BY DEF EditAnnounce, update_person_activity
<1>2. Said' = Said /\ CommittedProfileSeqs' = CommittedProfileSeqs
  BY <1>1, SaidSame
<1>3. profileRow = Said
  BY <1>1, NoProfileTyped DEF Sequential
<1> QED
  BY <1>1, <1>2, <1>3, IdleEditOK, IdleAlone, OthersIdle, AloneMoves

LEMMA EditCommitAlone ==
  ASSUME ProfileInv, Sequential, NEW e \in Editors, EditCommit(e)
  PROVE  Sequential'
<1> DEFINE s == profileEvents
           n == edits[e].seq
           d == IF edits[e].media_changed THEN [IdleEdit EXCEPT !.pc = "committed"] ELSE IdleEdit
<1>1. /\ edits[e].pc = "written" /\ edits[e].pc # "idle" /\ edits[e].pc \in InStore
      /\ edits' = [edits EXCEPT ![e] = d]
      /\ s' = [s EXCEPT ![n].state = "committed"] /\ profileRow' = edits[e].entity
      /\ UNCHANGED <<profilePoll, sentIcon>>
  BY EditFields DEF EditCommit, InStore
<1>2. /\ n = Len(s) /\ edits[e].entity = ApplyTo(s, Said, n) /\ IsProfile(profileRow)
      /\ s[n].update = edits[e].update
      /\ edits[e].media_changed \/ FieldAfter(edits[e].update.icon, Said.icon, n) = Said.icon
      /\ sentIcon = Said.icon
  BY <1>1, OthersIdle DEF AloneOK
<1>3. /\ FoldOf(s, NoProfile, CommittedProfileSeqs \cup {n}) = edits[e].entity
      /\ IsProfile(edits[e].entity)
      /\ edits[e].entity.icon = FieldAfter(edits[e].update.icon, Said.icon, n)
  BY <1>1, <1>2, OwnEventLast
<1>4. n \in 1 .. Len(s) /\ StreamOK(s) /\ Len(s) \in Nat /\ DOMAIN s = 1 .. Len(s)
  <2>1. n \in 2 .. Len(s) /\ StreamOK(s)
    BY <1>1, EditFields DEF EditOK, ProfileInv
  <2> QED
    BY <2>1 DEF StreamOK
<1>5. MarkedAs(s, s', n, "committed")
  BY <1>1, <1>4, MarkedByExcept
<1>6. /\ Len(s') = Len(s) /\ DOMAIN s' = 1 .. Len(s')
      /\ \A m \in 1 .. Len(s) : /\ s'[m].kind = s[m].kind /\ s'[m].update = s[m].update
                                /\ s'[m].state = IF m = n THEN "committed" ELSE s[m].state
  BY <1>5 DEF MarkedAs, StreamOK
<1>7. CommittedProfileSeqs' = CommittedProfileSeqs \cup {n}
  BY <1>4, <1>6 DEF CommittedProfileSeqs
<1>8. Said' = edits[e].entity
  <2>1. CommittedProfileSeqs \cup {n} \in SUBSET (1 .. Len(s))
    BY <1>4, CommittedTyped
  <2>2. SameEvents(s, s', CommittedProfileSeqs \cup {n})
    BY <1>6, <2>1 DEF SameEvents
  <2>3. FoldOf(s', NoProfile, CommittedProfileSeqs \cup {n}) = edits[e].entity
    BY <1>3, <1>4, <1>6, <2>1, <2>2, FoldKept
  <2> QED
    BY <1>7, <2>3, SaidIsFoldNext
<1>9. /\ d.pc \in {"idle", "committed"}
      /\ d.pc = "idle" => ~edits[e].media_changed
  BY IdleEditOK DEF EditRecords
<1> HIDE DEF d
<1>10. edits'[e] = d /\ \A o \in Editors : o # e => edits'[o].pc = "idle"
  BY <1>1, OthersIdle DEF ProfileInv
<1>11. \A o \in Editors : AloneOK(edits[o], profileEvents, Said, profileRow)'
  <2>1. \A o \in Editors : edits'[o].pc \in {"idle", "committed"}
    BY <1>9, <1>10
  <2> QED
    BY <2>1 DEF AloneOK, InStore
<1>12. \A o, q \in Editors : o = q \/ edits'[o].pc = "idle" \/ edits'[q].pc = "idle"
  BY <1>10
<1>13. profilePoll'.pc \notin {"folded", "written"} /\ IsProfile(profileRow')
  BY <1>1, <1>2, <1>3 DEF Sequential
<1>14. (\A o \in Editors : edits'[o].pc # "committed") => sentIcon' = Said'.icon
  BY <1>1, <1>2, <1>3, <1>8, <1>9, <1>10
<1> QED
  BY <1>1, <1>8, <1>11, <1>12, <1>13, <1>14 DEF Sequential

\* Steps that leave the requests, the stream and what was sent alone.
LEMMA RequestsRest ==
  ASSUME ProfileInv, Sequential, UNCHANGED <<profileEvents, edits, sentIcon>>,
         profileRow' \in {NoProfile, Said},
         \A e \in Editors : edits[e].pc = "written" => IsProfile(profileRow'),
         profilePoll'.pc \in {"folded", "written"} =>
           ~IsProfile(profileRow') /\ profilePoll'.entity = Said,
         profilePoll'.pc = "read" /\ ~IsProfile(profileRow') /\ 1 \in profilePoll'.batch =>
           profilePoll'.batch = CommittedProfileSeqs
  PROVE  Sequential'
<1>1. Said' = Said /\ CommittedProfileSeqs' = CommittedProfileSeqs
  BY SaidSame
<1>2. ASSUME NEW e \in Editors PROVE AloneOK(edits[e], profileEvents, Said, profileRow)'
  <2>1. AloneOK(edits[e], profileEvents, Said, profileRow)
    BY DEF Sequential
  <2> QED
    BY <1>1, <2>1 DEF AloneOK
<1> QED
  BY <1>1, <1>2 DEF Sequential

\* No cascade runs during a poll: it would be recorded in missed.
LEMMA ParentAlone ==
  ASSUME ProfileInv, Sequential, ProfileParentLive \/ ProfileParentDeleted, ~missed'
  PROVE  Sequential'
<1>1. UNCHANGED <<profileEvents, edits, profilePoll, sentIcon>>
  BY DEF ProfileParentLive, ProfileParentDeleted
<1>2. CASE ProfileParentLive
  <2>1. profileRow' = profileRow
    BY <1>2 DEF ProfileParentLive
  <2>2. \A e \in Editors : edits[e].pc = "written" => IsProfile(profileRow')
    BY <2>1 DEF ProfileInv, HeldOK
  <2> QED
    BY <1>1, <2>1, <2>2, RequestsRest DEF Sequential
<1>3. CASE ProfileParentDeleted
  <2>1. profileRow' = NoProfile /\ profilePoll = IdleProfilePoll
    BY <1>3 DEF ProfileParentDeleted
  <2>2. \A e \in Editors : edits[e].pc # "written"
    BY <1>3 DEF ProfileParentDeleted, ProfileInv, HeldOK
  <2>3. profilePoll'.pc = "idle"
    BY <1>1, <2>1, IdleProfilePollOK
  <2> QED
    BY <1>1, <2>1, <2>2, <2>3, RequestsRest
<1> QED
  BY <1>2, <1>3

\* A window that still has the creation has every committed event, as long as a
\* batch is not cut.
LEMMA WholeWindow ==
  ASSUME ProfileInv, MaxProfileEvents <= DependentBatchLimit, 1 \in ProfileWindow
  PROVE  ProfileWindow = CommittedProfileSeqs
<1> DEFINE C == CommittedProfileSeqs
           A == {s \in C : s > profileCheckpoint - DependentWindow}
           k == Len(profileEvents)
<1>1. k \in Nat /\ k <= MaxProfileEvents /\ profileCheckpoint \in Nat /\ C \subseteq 1 .. k
  BY CommittedTyped DEF ProfileInv, StreamOK
<1>2. 1 > profileCheckpoint - DependentWindow
  BY DEF ProfileWindow, SeqWindow, FirstRows
<1> HIDE DEF C, k
<1>3. A = C
  <2>1. ASSUME NEW s \in C PROVE s > profileCheckpoint - DependentWindow
    <3>1. s \in 1 .. k
      BY <1>1
    <3> QED
      BY <1>1, <1>2, <3>1, DependentWindowAssumption
  <2> QED
    BY <2>1
<1>4. ASSUME NEW s \in C PROVE Cardinality({t \in C : t < s}) < DependentBatchLimit
  <2> DEFINE B == {t \in C : t < s}
  <2>1. s \in 1 .. k /\ B \subseteq 1 .. (s - 1)
    <3>1. s \in 1 .. k
      BY <1>1
    <3>2. ASSUME NEW t \in B PROVE t \in 1 .. (s - 1)
      <4>1. t \in 1 .. k /\ t < s
        BY <1>1
      <4> QED
        BY <1>1, <3>1, <4>1
    <3> QED
      BY <3>1, <3>2
  <2>2. IsFiniteSet(1 .. (s - 1)) /\ Cardinality(1 .. (s - 1)) = s - 1
    BY <2>1, FS_Interval
  <2>3. IsFiniteSet(B) /\ Cardinality(B) <= s - 1 /\ Cardinality(B) \in Nat
    <3>1. IsFiniteSet(B) /\ Cardinality(B) <= Cardinality(1 .. (s - 1))
      BY <2>1, <2>2, FS_Subset
    <3> QED
      BY <2>2, <3>1, FS_CardinalityType
  <2> HIDE DEF B
  <2>4. Cardinality(B) < DependentBatchLimit
    BY <1>1, <2>1, <2>3, DependentBatchLimitAssumption, MaxProfileEventsAssumption
  <2> QED
    BY <2>4 DEF B
<1>5. ProfileWindow = FirstRows(A, DependentBatchLimit)
  BY DEF ProfileWindow, SeqWindow, C
<1> HIDE DEF A
<1>6. ProfileWindow = C
  BY <1>3, <1>4, <1>5 DEF FirstRows
<1> QED
  BY <1>6 DEF C

LEMMA PollReadAlone ==
  ASSUME ProfileInv, Sequential, ProfilePollRead, MaxProfileEvents <= DependentBatchLimit
  PROVE  Sequential'
<1>1. /\ UNCHANGED <<profileEvents, profileRow, edits, sentIcon>>
      /\ profilePoll' = [profilePoll EXCEPT !.pc = "read", !.batch = ProfileWindow]
  BY DEF ProfilePollRead
<1>2. profilePoll \in ProfilePollRecords
  BY DEF ProfileInv, PollOK
<1>3. profilePoll'.pc = "read" /\ profilePoll'.batch = ProfileWindow
  BY <1>1, <1>2 DEF ProfilePollRecords
<1>4. 1 \in ProfileWindow => ProfileWindow = CommittedProfileSeqs
  BY WholeWindow
<1>5. \A e \in Editors : edits[e].pc = "written" => IsProfile(profileRow')
  BY <1>1 DEF Sequential, AloneOK
<1> QED
  BY <1>1, <1>3, <1>4, <1>5, RequestsRest DEF Sequential

\* A poll folds only for a row that is gone, and then the whole stream.
LEMMA PollFoldsAll ==
  ASSUME ProfileInv, Sequential, profilePoll.pc = "read", ~ProfileSkipped
  PROVE  ~IsProfile(profileRow) /\ FoldedProfile = Said
<1>1. profilePoll.batch \subseteq CommittedProfileSeqs /\ CommittedProfileSeqs \subseteq 1 .. Len(profileEvents)
  BY CommittedTyped DEF ProfileInv, PollOK
<1>2. ASSUME NEW s \in profilePoll.batch PROVE s \in Nat /\ s >= 1
  <2>1. Len(profileEvents) \in Nat
    BY DEF ProfileInv, StreamOK
  <2>2. s \in CommittedProfileSeqs
    BY <1>1
  <2>3. s \in 1 .. Len(profileEvents)
    BY <1>1, <2>2
  <2> QED
    BY <2>1, <2>3
<1>3. ~IsProfile(profileRow)
  <2>1. SUFFICES ASSUME IsProfile(profileRow) PROVE FALSE
    OBVIOUS
  <2>2. profileRow = Said
    BY <2>1, NoProfileTyped DEF Sequential
  <2>3. ASSUME NEW s \in profilePoll.batch PROVE ~(s > profileRow.version)
    <3>1. s <= Said.version
      BY <1>1, SaidVersion
    <3>2. s \in Int /\ Said.version \in Int
      BY <1>2, SaidTyped DEF ProfileRows
    <3> QED
      BY <2>2, <3>1, <3>2
  <2>4. PendingProfile = {}
    BY <2>3 DEF PendingProfile
  <2> QED
    BY <2>4 DEF ProfileSkipped
<1>4. profileRow = NoProfile
  BY <1>3, SaidTyped DEF Sequential
<1>5. PendingProfile = profilePoll.batch
  <2>1. ASSUME NEW s \in profilePoll.batch PROVE s > profileRow.version
    <3>1. s \in Nat /\ s >= 1
      BY <1>2
    <3>2. profileRow.version = 0
      BY <1>4 DEF NoProfile
    <3> QED
      BY <3>1, <3>2
  <2> QED
    BY <2>1 DEF PendingProfile
<1>6. PendingProfile # {} /\ FoldedProfile # BrokenProfile
  BY DEF ProfileSkipped
<1>7. 1 \in profilePoll.batch
  <2>1. PICK x \in PendingProfile : x \in 1 .. Len(profileEvents)
    BY <1>1, <1>5, <1>6
  <2>2. FoldedProfile = FoldOf(profileEvents, profileRow, PendingProfile) /\ StreamOK(profileEvents)
    BY FoldIsFoldOf DEF FoldedProfile, ProfileInv
  <2> QED
    BY <1>3, <1>5, <1>6, <2>1, <2>2, FoldOfOrphans
<1>8. profilePoll.batch = CommittedProfileSeqs
  BY <1>3, <1>7 DEF Sequential
<1> QED
  BY <1>3, <1>4, <1>5, <1>8 DEF FoldedProfile, Said

LEMMA PollFoldAlone ==
  ASSUME ProfileInv, Sequential, ProfilePollFold
  PROVE  Sequential'
<1>1. UNCHANGED <<profileEvents, profileRow, edits, sentIcon>> /\ profilePoll.pc = "read"
  BY DEF ProfilePollFold
<1>2. profilePoll \in ProfilePollRecords
  BY DEF ProfileInv, PollOK
<1>3. \A e \in Editors : edits[e].pc = "written" => IsProfile(profileRow')
  BY <1>1 DEF Sequential, AloneOK
<1>4. CASE ProfileSkipped
  <2>1. profilePoll'.pc = "done"
    BY <1>2, <1>4 DEF ProfilePollFold, ProfilePollRecords
  <2> QED
    BY <1>1, <1>3, <2>1, RequestsRest DEF Sequential
<1>5. CASE ~ProfileSkipped
  <2>1. profilePoll' = [profilePoll EXCEPT !.pc = "folded", !.entity = FoldedProfile]
    BY <1>5 DEF ProfilePollFold
  <2>2. profilePoll'.pc = "folded" /\ profilePoll'.entity = FoldedProfile
    BY <1>2, <2>1 DEF ProfilePollRecords
  <2>3. ~IsProfile(profileRow) /\ FoldedProfile = Said
    BY <1>1, <1>5, PollFoldsAll
  <2> QED
    BY <1>1, <1>3, <2>2, <2>3, RequestsRest DEF Sequential
<1> QED
  BY <1>4, <1>5

LEMMA PollWriteAlone ==
  ASSUME ProfileInv, Sequential, ProfilePollWrite
  PROVE  Sequential'
<1>1. UNCHANGED <<profileEvents, profileRow, edits, sentIcon>> /\ profilePoll.pc = "folded"
  BY DEF ProfilePollWrite
<1>2. profilePoll \in ProfilePollRecords
  BY DEF ProfileInv, PollOK
<1>3. PICK pc \in {"written", "done"} : profilePoll' = [profilePoll EXCEPT !.pc = pc]
  BY DEF ProfilePollWrite
<1>4. profilePoll'.pc = pc /\ profilePoll'.entity = profilePoll.entity
  BY <1>2, <1>3 DEF ProfilePollRecords
<1>5. \A e \in Editors : edits[e].pc = "written" => IsProfile(profileRow')
  BY <1>1 DEF Sequential, AloneOK
<1> QED
  BY <1>1, <1>4, <1>5, RequestsRest DEF Sequential

LEMMA PollCommitAlone ==
  ASSUME ProfileInv, Sequential, ProfilePollCommit
  PROVE  Sequential'
<1>1. /\ UNCHANGED <<profileEvents, edits, sentIcon>> /\ profilePoll' = IdleProfilePoll
      /\ profileRow' = IF profilePoll.pc = "written" THEN profilePoll.entity ELSE profileRow
  BY DEF ProfilePollCommit
<1>2. profilePoll'.pc = "idle"
  BY <1>1, IdleProfilePollOK
<1>3. profileRow' \in {NoProfile, Said}
  BY <1>1 DEF Sequential
<1>4. ASSUME NEW e \in Editors, edits[e].pc = "written" PROVE IsProfile(profileRow')
  <2>1. IsProfile(profileRow)
    BY <1>4 DEF Sequential, AloneOK
  <2>2. profilePoll.pc # "written"
    BY <2>1 DEF Sequential
  <2> QED
    BY <1>1, <2>1, <2>2
<1> QED
  BY <1>1, <1>2, <1>3, <1>4, RequestsRest

LEMMA SequentialInit == ASSUME ProfileInit PROVE Sequential
<1>1. ProfileInv
  BY ProfileInvInit
<1>2. profileEvents = <<ProfileCreated>> /\ Len(profileEvents) = 1 /\ StreamOK(profileEvents)
  BY <1>1 DEF ProfileInit, ProfileInv
<1>3. CommittedProfileSeqs = {} \cup {1}
  BY <1>1, <1>2, CommittedTyped
<1>4. FoldOf(profileEvents, NoProfile, {}) = NoProfile
  <2>1. PICK g : /\ Steps(g, profileEvents, NoProfile, {}, 1)
                 /\ FoldOf(profileEvents, NoProfile, {}) = g[1]
    BY <1>2, FoldSteps
  <2>2. g[0] = NoProfile /\ g[1] = g[1 - 1] /\ 1 - 1 = 0
    BY <2>1 DEF Steps
  <2> QED
    BY <2>1, <2>2
<1>5. FoldOf(profileEvents, NoProfile, {} \cup {1}) = ApplyTo(profileEvents, NoProfile, 1)
  <2>1. Len(profileEvents) \in Nat \ {0} /\ {} \in SUBSET (1 .. (Len(profileEvents) - 1))
    BY <1>2
  <2> QED
    BY <1>2, <1>4, <2>1, FoldOneMore
<1>6. Said.icon = 0
  BY <1>2, <1>3, <1>5, SaidIsFold, ApplyCreated, NoProfileTyped
<1>7. \A e \in Editors : edits[e] = IdleEdit /\ edits[e].pc = "idle"
  BY IdleEditOK DEF ProfileInit
<1>8. profilePoll.pc = "idle"
  BY IdleProfilePollOK DEF ProfileInit
<1>9. \A e \in Editors : AloneOK(edits[e], profileEvents, Said, profileRow)
  BY <1>7, IdleAlone
<1> QED
  BY <1>6, <1>7, <1>8, <1>9 DEF Sequential, ProfileInit

LEMMA IconInvStep ==
  ASSUME MaxProfileEvents <= DependentBatchLimit
  PROVE  ProfileInv /\ IconInv /\ [ProfileNext]_profileVars => IconInv'
<1> SUFFICES ASSUME ProfileInv, IconInv, [ProfileNext]_profileVars, ~missed' PROVE Sequential'
  BY DEF IconInv
<1>1. Sequential
  BY DEF IconInv, ProfileNext, profileVars, EditStep, EditBegin, EditSave, EditLoad, EditWrite,
    EditCommit, EditAbort, EditAnnounce, ProfileParentLive, ProfileParentDeleted, ProfilePollStep,
    ProfilePollRead, ProfilePollFold, ProfilePollWrite, ProfilePollCommit
<1>2. CASE UNCHANGED profileVars
  <2>1. \A e \in Editors : edits[e].pc = "written" => IsProfile(profileRow')
    BY <1>1, <1>2 DEF profileVars, Sequential, AloneOK
  <2> QED
    BY <1>1, <1>2, <2>1, RequestsRest DEF profileVars, Sequential
<1>3. CASE \E e \in Editors : EditBegin(e) \/ EditStep(e)
  BY <1>1, <1>3, EditBeginAlone, EditSaveAlone, EditLoadAlone, EditWriteAlone, EditCommitAlone,
     EditAbortAlone, EditAnnounceAlone DEF EditStep
<1>4. CASE ProfileParentLive \/ ProfileParentDeleted
  BY <1>1, <1>4, ParentAlone
<1>5. CASE ProfilePollStep
  BY <1>1, <1>5, PollReadAlone, PollFoldAlone, PollWriteAlone, PollCommitAlone DEF ProfilePollStep
<1> QED
  BY <1>2, <1>3, <1>4, <1>5 DEF ProfileNext

\* All that is said of the profile: also that with requests one after the other,
\* all delivered, and no cascade during a poll, the followers have the icon the profile shows.  That part needs
\* a poll that reads the whole stream: a profile that is restored after a
\* reactivation from a batch which LIMIT cuts short has an older icon until the
\* next poll.
THEOREM ProfilesCorrect ==
  ASSUME MaxProfileEvents <= DependentBatchLimit
  PROVE  ProfileSpec => []ProfileSafety
<1>1. ProfileInit => ProfileInv /\ IconInv
  BY ProfileInvInit, SequentialInit DEF IconInv
<1>2. ProfileInv /\ IconInv /\ [ProfileNext]_profileVars => ProfileInv' /\ IconInv'
  BY ProfileInvStep, IconInvStep
<1>3. IconInv => FollowersHaveTheIcon
  <2> SUFFICES ASSUME IconInv, ~missed, IsProfile(profileRow), \A e \in Editors : edits[e].pc = "idle"
               PROVE  sentIcon = profileRow.icon
    BY DEF FollowersHaveTheIcon
  <2> QED
    BY NoProfileTyped DEF IconInv, Sequential
<1>4. ProfileSpec => []FollowersHaveTheIcon
  BY <1>1, <1>2, <1>3, PTL DEF ProfileSpec
<1> QED
  BY <1>4, ProfileReturnsOnlyByRace, PTL DEF ProfileSafety

-----------------------------------------------------------------------------
(* The fold of a field, as an operator of the log it reads.                *)

ApplyField(l, entity, version) ==
  LET event == l[version]
  IN  IF entity = BrokenField THEN BrokenField
      ELSE CASE event.kind = "Created" ->
                  IF IsField(entity) THEN BrokenField
                  ELSE [version |-> version, value |-> event.value]
             [] event.kind = "Updated" ->
                  IF IsField(entity) THEN [version |-> version, value |-> event.value]
                  ELSE BrokenField
             [] event.kind = "Deleted" -> IF IsField(entity) THEN NoField ELSE BrokenField

FieldGoes(g, l, entity, S, k) ==
  g = [n \in 0 .. k |->
         IF n = 0 THEN entity
         ELSE IF n \in S THEN ApplyField(l, g[n - 1], n) ELSE g[n - 1]]

FieldFold(l, entity, S) == (CHOOSE g : FieldGoes(g, l, entity, S, Len(l)))[Len(l)]

LEMMA FieldFoldIs ==
  ASSUME NEW entity, NEW S
  PROVE  FoldField(entity, S) = FieldFold(fieldEvents, entity, S)
BY DEF FoldField, FieldFold, FieldGoes, apply_metadata, ApplyField

FieldSteps(g, l, entity, S, k) ==
  /\ g[0] = entity
  /\ \A n \in 1 .. k : n \in S => g[n] = ApplyField(l, g[n - 1], n)
  /\ \A n \in 1 .. k : n \notin S => g[n] = g[n - 1]

LEMMA FieldGoesSteps ==
  ASSUME NEW l, NEW entity, NEW S, NEW k \in Nat, NEW g, FieldGoes(g, l, entity, S, k)
  PROVE  FieldSteps(g, l, entity, S, k)
BY DEF FieldGoes, FieldSteps

LEMMA FieldGoesExists ==
  ASSUME NEW l, NEW entity, NEW S, NEW k \in Nat
  PROVE  \E g : FieldGoes(g, l, entity, S, k)
<1> DEFINE T == {n \in Nat : \E g : FieldGoes(g, l, entity, S, n)}
<1>1. 0 \in T
  <2>1. FieldGoes([n \in 0 .. 0 |-> entity], l, entity, S, 0)
    BY DEF FieldGoes
  <2> QED
    BY <2>1
<1>2. ASSUME NEW m \in T PROVE m + 1 \in T
  <2>1. m \in Nat
    OBVIOUS
  <2>2. PICK g : FieldGoes(g, l, entity, S, m)
    OBVIOUS
  <2> DEFINE last == IF (m + 1) \in S THEN ApplyField(l, g[m], m + 1) ELSE g[m]
             h == [n \in 0 .. (m + 1) |-> IF n = m + 1 THEN last ELSE g[n]]
  <2> HIDE DEF last
  <2>3. /\ g[0] = entity
        /\ \A n \in 1 .. m : g[n] = IF n \in S THEN ApplyField(l, g[n - 1], n) ELSE g[n - 1]
    BY <2>1, <2>2 DEF FieldGoes
  <2>4. (\A n \in 0 .. m : h[n] = g[n]) /\ h[m + 1] = last
    BY <2>1
  <2>5. h = [n \in 0 .. (m + 1) |-> h[n]]
    OBVIOUS
  <2> HIDE DEF h
  <2>6. ASSUME NEW n \in 0 .. (m + 1)
        PROVE  h[n] = IF n = 0 THEN entity
                      ELSE IF n \in S THEN ApplyField(l, h[n - 1], n) ELSE h[n - 1]
    <3>1. CASE n = 0
      BY <2>1, <2>3, <2>4, <3>1
    <3>2. CASE n \in 1 .. m
      BY <2>1, <2>3, <2>4, <3>2
    <3>3. CASE n = m + 1
      <4>1. h[n - 1] = g[m] /\ n # 0
        BY <2>1, <2>4, <3>3
      <4> QED
        BY <2>4, <3>3, <4>1 DEF last
    <3> QED
      BY <2>1, <3>1, <3>2, <3>3
  <2>7. FieldGoes(h, l, entity, S, m + 1)
    BY <2>5, <2>6 DEF FieldGoes
  <2> QED
    BY <2>1, <2>7
<1>3. T \in SUBSET Nat
  OBVIOUS
<1>4. T = Nat
  <2> HIDE DEF T
  <2> QED
    BY <1>1, <1>2, <1>3, SetInduction
<1> QED
  BY <1>4

LEMMA FieldFoldSteps ==
  ASSUME NEW l, Len(l) \in Nat, NEW entity, NEW S
  PROVE  \E g : FieldSteps(g, l, entity, S, Len(l)) /\ FieldFold(l, entity, S) = g[Len(l)]
<1> DEFINE g == CHOOSE g : FieldGoes(g, l, entity, S, Len(l))
<1>1. FieldGoes(g, l, entity, S, Len(l))
  BY FieldGoesExists
<1>2. FieldFold(l, entity, S) = g[Len(l)]
  BY DEF FieldFold
<1> HIDE DEF g
<1> QED
  BY <1>1, <1>2, FieldGoesSteps

\* Two folds over the same events, one of which goes on without any.
LEMMA FieldStepsAgree ==
  ASSUME NEW l, NEW m, NEW entity, NEW R, NEW S, NEW k \in Nat, NEW g, NEW h,
         FieldSteps(g, l, entity, R, k), FieldSteps(h, m, entity, S, k),
         \A n \in 1 .. k : n \in R <=> n \in S,
         \A n \in 1 .. k : n \in R => l[n].kind = m[n].kind /\ l[n].value = m[n].value
  PROVE  g[k] = h[k]
<1> DEFINE T == {n \in Nat : n <= k => g[n] = h[n]}
<1>1. 0 \in T
  BY DEF FieldSteps
<1>2. ASSUME NEW n \in T PROVE n + 1 \in T
  <2>1. n \in Nat
    OBVIOUS
  <2>2. ASSUME n + 1 <= k PROVE g[n + 1] = h[n + 1]
    <3>1. n + 1 \in 1 .. k /\ (n + 1) - 1 = n /\ n <= k
      BY <2>1, <2>2
    <3>2. g[n] = h[n]
      BY <3>1
    <3>3. CASE n + 1 \in R
      <4>1. n + 1 \in S /\ l[n + 1].kind = m[n + 1].kind /\ l[n + 1].value = m[n + 1].value
        BY <3>1, <3>3
      <4>2. g[n + 1] = ApplyField(l, g[n], n + 1) /\ h[n + 1] = ApplyField(m, h[n], n + 1)
        BY <3>1, <3>3, <4>1 DEF FieldSteps
      <4>3. ApplyField(l, g[n], n + 1) = ApplyField(m, g[n], n + 1)
        BY <4>1 DEF ApplyField
      <4> QED
        BY <3>2, <4>2, <4>3
    <3>4. CASE n + 1 \notin R
      <4>1. n + 1 \notin S
        BY <3>1, <3>4
      <4>2. g[n + 1] = g[n] /\ h[n + 1] = h[n]
        BY <3>1, <3>4, <4>1 DEF FieldSteps
      <4> QED
        BY <3>2, <4>2
    <3> QED
      BY <3>3, <3>4
  <2> QED
    BY <2>1, <2>2
<1>3. T \in SUBSET Nat
  OBVIOUS
<1>4. T = Nat
  <2> HIDE DEF T
  <2> QED
    BY <1>1, <1>2, <1>3, SetInduction
<1> QED
  BY <1>4

NoneLater(S, k, j) == \A n \in (k + 1) .. j : n \notin S

LEMMA FieldStepsIdle ==
  ASSUME NEW l, NEW entity, NEW S, NEW k \in Nat, NEW j \in Nat, NEW g,
         k <= j, FieldSteps(g, l, entity, S, j), NoneLater(S, k, j)
  PROVE  g[j] = g[k]
<1> DEFINE T == {n \in Nat : k <= n /\ n <= j => g[n] = g[k]}
<1>1. 0 \in T
  OBVIOUS
<1>2. ASSUME NEW m \in T PROVE m + 1 \in T
  <2>1. m \in Nat
    OBVIOUS
  <2>2. ASSUME k <= m + 1, m + 1 <= j PROVE g[m + 1] = g[k]
    <3>1. CASE k = m + 1
      BY <3>1
    <3>2. CASE k # m + 1
      <4>1. k <= m /\ m <= j /\ m + 1 \in (k + 1) .. j /\ m + 1 \in 1 .. j /\ (m + 1) - 1 = m
        BY <2>1, <2>2, <3>2
      <4>2. g[m] = g[k] /\ m + 1 \notin S
        BY <4>1 DEF NoneLater
      <4> QED
        BY <4>1, <4>2 DEF FieldSteps
    <3> QED
      BY <3>1, <3>2
  <2> QED
    BY <2>1, <2>2
<1>3. T \in SUBSET Nat
  OBVIOUS
<1>4. T = Nat
  <2> HIDE DEF T
  <2> QED
    BY <1>1, <1>2, <1>3, SetInduction
<1> QED
  BY <1>4

LEMMA FieldStepsPrefix ==
  ASSUME NEW l, NEW entity, NEW S, NEW k \in Nat, NEW j \in Nat, NEW g,
         k <= j, FieldSteps(g, l, entity, S, j)
  PROVE  FieldSteps(g, l, entity, S, k)
<1>1. \A n \in 1 .. k : n \in 1 .. j
  OBVIOUS
<1> QED
  BY <1>1 DEF FieldSteps

\* What a field is made of stays when other events are added, committed or
\* rolled back.
LEMMA FieldFoldKept ==
  ASSUME NEW l, NEW m, Len(l) \in Nat, Len(m) \in Nat, Len(l) <= Len(m),
         NEW entity, NEW S \in SUBSET (1 .. Len(l)),
         \A n \in S : l[n].kind = m[n].kind /\ l[n].value = m[n].value
  PROVE  FieldFold(l, entity, S) = FieldFold(m, entity, S)
<1>1. PICK g : FieldSteps(g, l, entity, S, Len(l)) /\ FieldFold(l, entity, S) = g[Len(l)]
  BY FieldFoldSteps
<1>2. PICK h : FieldSteps(h, m, entity, S, Len(m)) /\ FieldFold(m, entity, S) = h[Len(m)]
  BY FieldFoldSteps
<1>3. h[Len(m)] = h[Len(l)]
  <2>1. NoneLater(S, Len(l), Len(m))
    BY DEF NoneLater
  <2> QED
    BY <1>2, <2>1, FieldStepsIdle
<1>4. FieldSteps(h, m, entity, S, Len(l))
  BY <1>2, FieldStepsPrefix
<1>5. g[Len(l)] = h[Len(l)]
  BY <1>1, <1>4, FieldStepsAgree
<1> QED
  BY <1>1, <1>2, <1>3, <1>5

LEMMA FieldFoldNothing ==
  ASSUME NEW l, Len(l) \in Nat, NEW entity
  PROVE  FieldFold(l, entity, {}) = entity
<1>1. PICK g : FieldSteps(g, l, entity, {}, Len(l)) /\ FieldFold(l, entity, {}) = g[Len(l)]
  BY FieldFoldSteps
<1>2. g[Len(l)] = g[0]
  <2>1. 0 \in Nat /\ 0 <= Len(l) /\ NoneLater({}, 0, Len(l))
    BY DEF NoneLater
  <2> QED
    BY <1>1, <2>1, FieldStepsIdle
<1> QED
  BY <1>1, <1>2 DEF FieldSteps

\* The last event is applied last.
LEMMA FieldFoldLast ==
  ASSUME NEW l, Len(l) \in Nat, NEW entity, NEW S \in SUBSET (1 .. Len(l)), NEW s \in S,
         \A n \in S : n <= s
  PROVE  FieldFold(l, entity, S) = ApplyField(l, FieldFold(l, entity, S \ {s}), s)
<1> DEFINE R == S \ {s}
<1>1. s \in Nat /\ s \in 1 .. Len(l) /\ s - 1 \in Nat /\ s - 1 <= Len(l) /\ s <= Len(l)
  OBVIOUS
<1>2. PICK g : FieldSteps(g, l, entity, S, Len(l)) /\ FieldFold(l, entity, S) = g[Len(l)]
  BY FieldFoldSteps
<1>3. PICK h : FieldSteps(h, l, entity, R, Len(l)) /\ FieldFold(l, entity, R) = h[Len(l)]
  BY FieldFoldSteps
<1>4. g[Len(l)] = g[s]
  <2>1. NoneLater(S, s, Len(l))
    BY <1>1 DEF NoneLater
  <2> QED
    BY <1>1, <1>2, <2>1, FieldStepsIdle
<1>5. g[s] = ApplyField(l, g[s - 1], s)
  BY <1>1, <1>2 DEF FieldSteps
<1>6. h[Len(l)] = h[s - 1]
  <2> DEFINE k == s - 1
  <2>1. k \in Nat /\ k <= Len(l) /\ NoneLater(R, k, Len(l))
    BY <1>1 DEF NoneLater
  <2> HIDE DEF R, k
  <2>2. h[Len(l)] = h[k]
    BY <1>3, <2>1, FieldStepsIdle
  <2> QED
    BY <2>2 DEF k
<1>7. g[s - 1] = h[s - 1]
  <2>1. FieldSteps(g, l, entity, S, s - 1) /\ FieldSteps(h, l, entity, R, s - 1)
    BY <1>1, <1>2, <1>3, FieldStepsPrefix
  <2>2. \A n \in 1 .. (s - 1) : n \in S <=> n \in R
    BY <1>1
  <2> HIDE DEF R
  <2> QED
    BY <1>1, <2>1, <2>2, FieldStepsAgree
<1> QED
  BY <1>2, <1>3, <1>4, <1>5, <1>6, <1>7

-----------------------------------------------------------------------------
(* Types.                                                                  *)

FieldRowRecords == [version : 0 .. MaxFieldEvents, value : FieldValues \cup {"none"}]

FieldKinds == {"Created", "Updated", "Deleted"}

FieldEventRecords ==
  [id : FieldIds, kind : FieldKinds \cup {"none"}, value : FieldValues \cup {"none"}, prev : Nat,
   state : {"open", "committed", "aborted"}, by : FieldEditors \cup {"none"}]

LEMMA FieldRowsTyped ==
  /\ NoField \in FieldRowRecords /\ ~IsField(NoField)
  /\ BrokenField \notin FieldRowRecords /\ ~IsField(BrokenField) /\ NoField # BrokenField
<1>1. 0 \in 0 .. MaxFieldEvents
  BY MaxFieldEventsAssumption
<1> QED
  BY <1>1 DEF NoField, BrokenField, FieldRowRecords, IsField

\* An event on a field that exists, and the creation of one, do not break it.
LEMMA ApplyFieldTyped ==
  ASSUME NEW l, NEW n \in 1 .. MaxFieldEvents, l[n].kind \in FieldKinds,
         l[n].value \in FieldValues \cup {"none"}, NEW entity \in FieldRowRecords \cup {BrokenField}
  PROVE  /\ ApplyField(l, entity, n) \in FieldRowRecords \cup {BrokenField}
         /\ entity \in FieldRowRecords /\ (IsField(entity) <=> l[n].kind # "Created")
              => ApplyField(l, entity, n) \in FieldRowRecords
<1> DEFINE new == [version |-> n, value |-> l[n].value]
<1>1. new \in FieldRowRecords
  BY MaxFieldEventsAssumption DEF FieldRowRecords
<1>2. /\ entity = BrokenField => ApplyField(l, entity, n) = BrokenField
      /\ entity # BrokenField /\ l[n].kind = "Created" =>
           ApplyField(l, entity, n) = IF IsField(entity) THEN BrokenField ELSE new
      /\ entity # BrokenField /\ l[n].kind = "Updated" =>
           ApplyField(l, entity, n) = IF IsField(entity) THEN new ELSE BrokenField
      /\ entity # BrokenField /\ l[n].kind = "Deleted" =>
           ApplyField(l, entity, n) = IF IsField(entity) THEN NoField ELSE BrokenField
  BY DEF ApplyField
<1> HIDE DEF new
<1>3. l[n].kind \in {"Created", "Updated", "Deleted"}
  BY DEF FieldKinds
<1> QED
  BY <1>1, <1>2, <1>3, FieldRowsTyped

LEMMA FieldFoldTyped ==
  ASSUME NEW l, Len(l) \in 0 .. MaxFieldEvents, NEW entity \in FieldRowRecords, NEW S,
         \A n \in S : l[n].kind \in FieldKinds /\ l[n].value \in FieldValues \cup {"none"}
  PROVE  FieldFold(l, entity, S) \in FieldRowRecords \cup {BrokenField}
<1> DEFINE States == FieldRowRecords \cup {BrokenField}
<1>0. Len(l) \in Nat /\ Len(l) <= MaxFieldEvents
  BY MaxFieldEventsAssumption
<1>1. PICK g : FieldSteps(g, l, entity, S, Len(l)) /\ FieldFold(l, entity, S) = g[Len(l)]
  BY <1>0, FieldFoldSteps
<1> DEFINE T == {n \in Nat : n <= Len(l) => g[n] \in States}
<1>2. 0 \in T
  BY <1>1 DEF FieldSteps
<1>3. ASSUME NEW m \in T PROVE m + 1 \in T
  <2>1. m \in Nat
    OBVIOUS
  <2>2. ASSUME m + 1 <= Len(l) PROVE g[m + 1] \in States
    <3>1. m + 1 \in 1 .. Len(l) /\ (m + 1) - 1 = m /\ m <= Len(l) /\ m + 1 \in 1 .. MaxFieldEvents
      BY <1>0, <2>1, <2>2, MaxFieldEventsAssumption
    <3>2. g[m] \in States
      BY <3>1
    <3>3. CASE m + 1 \in S
      <4>1. g[m + 1] = ApplyField(l, g[m], m + 1)
        BY <1>1, <3>1, <3>3 DEF FieldSteps
      <4> QED
        BY <3>1, <3>2, <3>3, <4>1, ApplyFieldTyped
    <3>4. CASE m + 1 \notin S
      <4>1. g[m + 1] = g[m]
        BY <1>1, <3>1, <3>4 DEF FieldSteps
      <4> QED
        BY <3>2, <4>1
    <3> QED
      BY <3>3, <3>4
  <2> QED
    BY <2>1, <2>2
<1>4. T \in SUBSET Nat
  OBVIOUS
<1>5. T = Nat
  <2> HIDE DEF T
  <2> QED
    BY <1>2, <1>3, <1>4, SetInduction
<1>6. Len(l) \in T
  BY <1>0, <1>5
<1> QED
  BY <1>1, <1>6, <1>0

-----------------------------------------------------------------------------
(* The plan of an edit.                                                    *)

Ranked(A) == \A n \in 1 .. Cardinality(A) : \E i \in A : Cardinality({j \in A : j <= i}) = n

\* A finite set of numbers has a number of each rank.
LEMMA AllRanked == ASSUME NEW S \in SUBSET Nat, IsFiniteSet(S) PROVE Ranked(S)
<1> DEFINE T == {c \in Nat : \A A \in SUBSET Nat :
                               IsFiniteSet(A) /\ Cardinality(A) = c => Ranked(A)}
<1>1. 0 \in T
  <2>1. ASSUME NEW A \in SUBSET Nat, Cardinality(A) = 0 PROVE Ranked(A)
    BY <2>1 DEF Ranked
  <2> QED
    BY <2>1
<1>2. ASSUME NEW c \in T PROVE c + 1 \in T
  <2>1. c \in Nat
    OBVIOUS
  <2>2. ASSUME NEW A \in SUBSET Nat, IsFiniteSet(A), Cardinality(A) = c + 1 PROVE Ranked(A)
    <3>1. A # {}
      BY <2>1, <2>2, FS_EmptySet
    <3>2. PICK b \in Nat : \A x \in A : x <= b
      BY <2>2, FiniteIsBounded
    <3>3. PICK x \in A : \A y \in A : y <= x
      <4>1. A \in SUBSET (0 .. b)
        BY <3>2
      <4> QED
        BY <3>1, <4>1, GreatestNatural
    <3> DEFINE B == A \ {x}
    <3>4. IsFiniteSet(B) /\ Cardinality(B) = c /\ B \in SUBSET Nat
      <4>1. IsFiniteSet(B) /\ Cardinality(B) = Cardinality(A) - 1
        BY <2>2, FS_RemoveElement
      <4> QED
        BY <2>1, <2>2, <4>1
    <3>5. Ranked(B)
      <4> HIDE DEF B
      <4> QED
        BY <3>4
    <3>6. ASSUME NEW n \in 1 .. (c + 1)
          PROVE  \E i \in A : Cardinality({j \in A : j <= i}) = n
      <4>1. CASE n = c + 1
        <5>1. {j \in A : j <= x} = A
          BY <3>3
        <5> QED
          BY <2>2, <4>1, <5>1
      <4>2. CASE n # c + 1
        <5>1. n \in 1 .. c
          BY <2>1, <4>2
        <5>2. PICK i \in B : Cardinality({j \in B : j <= i}) = n
          BY <3>4, <3>5, <5>1 DEF Ranked
        <5>3. i \in A /\ i \in Nat /\ x \in Nat /\ i # x /\ i <= x
          BY <3>3
        <5>4. ~(x <= i)
          BY <5>3
        <5>5. {j \in A : j <= i} = {j \in B : j <= i}
          BY <5>4
        <5> QED
          BY <5>2, <5>3, <5>5
      <4> QED
        BY <4>1, <4>2
    <3> QED
      BY <2>2, <3>6 DEF Ranked
  <2> QED
    BY <2>1, <2>2
<1>3. T \in SUBSET Nat
  OBVIOUS
<1>4. Cardinality(S) \in Nat
  BY FS_CardinalityType
<1>5. Cardinality(S) \in T
  <2> HIDE DEF T
  <2> QED
    BY <1>1, <1>2, <1>3, <1>4, SetInduction
<1> QED
  BY <1>5

LEMMA AscendingTyped ==
  ASSUME NEW S \in SUBSET Nat, IsFiniteSet(S)
  PROVE  /\ Cardinality(S) \in Nat /\ DOMAIN Ascending(S) = 1 .. Cardinality(S)
         /\ \A n \in 1 .. Cardinality(S) :
              Ascending(S)[n] \in S /\ Cardinality({j \in S : j <= Ascending(S)[n]}) = n
<1>1. Ranked(S)
  BY AllRanked
<1>2. \A n \in 1 .. Cardinality(S) : \E i \in S : Cardinality({j \in S : j <= i}) = n
  BY <1>1 DEF Ranked
<1> QED
  BY <1>2, FS_CardinalityType DEF Ascending

ExistingRecords == [id : FieldIds, value : FieldValues \cup {"none"}]

FieldOps ==
  {o \in [op : {"Create", "Update", "Delete"}, id : 0 .. MaxFields, value : FieldValues \cup {"none"}] :
     o.op # "Create" => o.id \in FieldIds}

LEMMA ExistingTyped ==
  ASSUME fieldRows \in [FieldIds -> FieldRowRecords]
  PROVE  ExistingFields \in Seq(ExistingRecords)
<1> DEFINE S == {i \in FieldIds : IsField(fieldRows[i])}
           ids == Ascending(S)
<1>1. S \in SUBSET Nat /\ IsFiniteSet(S) /\ S \in SUBSET FieldIds
  <2>1. IsFiniteSet(FieldIds) /\ FieldIds \in SUBSET Nat
    BY MaxFieldsAssumption, FS_Interval DEF FieldIds
  <2> QED
    BY <2>1, FS_Subset
<1> HIDE DEF S
<1>2. /\ Cardinality(S) \in Nat /\ DOMAIN ids = 1 .. Cardinality(S)
      /\ \A n \in 1 .. Cardinality(S) : ids[n] \in S
  BY <1>1, AscendingTyped
<1>3. ExistingFields = [n \in DOMAIN ids |-> [id |-> ids[n], value |-> fieldRows[ids[n]].value]]
  BY DEF ExistingFields, S
<1> HIDE DEF ids
<1>4. \A n \in 1 .. Cardinality(S) : ids[n] \in FieldIds /\ fieldRows[ids[n]] \in FieldRowRecords
  BY <1>1, <1>2
<1>5. \A n \in 1 .. Cardinality(S) : [id |-> ids[n], value |-> fieldRows[ids[n]].value] \in ExistingRecords
  BY <1>4 DEF ExistingRecords, FieldRowRecords
<1> QED
  BY <1>2, <1>3, <1>5

LEMMA PlanTyped ==
  ASSUME NEW existing \in Seq(ExistingRecords), NEW submitted \in Seq(FieldValues)
  PROVE  plan_field_updates(existing, submitted) \in Seq(FieldOps)
<1> DEFINE paired == Lesser(Len(existing), Len(submitted))
           S == {n \in 1 .. paired : existing[n].value # submitted[n]}
           changed == Ascending(S)
           updates == [n \in DOMAIN changed |->
                         [op |-> "Update", id |-> existing[changed[n]].id, value |-> submitted[changed[n]]]]
           deletes == [n \in 1 .. (Len(existing) - paired) |->
                         [op |-> "Delete", id |-> existing[paired + n].id, value |-> "none"]]
           creates == [n \in 1 .. (Len(submitted) - paired) |->
                         [op |-> "Create", id |-> 0, value |-> submitted[paired + n]]]
<1>1. Len(existing) \in Nat /\ Len(submitted) \in Nat
  OBVIOUS
<1>2. paired \in Nat /\ paired <= Len(existing) /\ paired <= Len(submitted)
  BY <1>1 DEF Lesser
<1>3. plan_field_updates(existing, submitted) = updates \o deletes \o creates
  BY DEF plan_field_updates
<1> HIDE DEF paired
<1>4. S \in SUBSET Nat /\ IsFiniteSet(S) /\ S \in SUBSET (1 .. paired)
  <2>1. IsFiniteSet(1 .. paired) /\ 1 .. paired \in SUBSET Nat
    BY <1>2, FS_Interval
  <2> QED
    BY <2>1, FS_Subset
<1> HIDE DEF S
<1>5. /\ Cardinality(S) \in Nat /\ DOMAIN changed = 1 .. Cardinality(S)
      /\ \A n \in 1 .. Cardinality(S) : changed[n] \in S
  BY <1>4, AscendingTyped
<1> HIDE DEF changed
<1>6. \A n \in 1 .. Len(existing) : existing[n].id \in FieldIds
  <2>1. \A n \in 1 .. Len(existing) : existing[n] \in ExistingRecords
    OBVIOUS
  <2> QED
    BY <2>1 DEF ExistingRecords
<1>7. \A n \in 1 .. Len(submitted) : submitted[n] \in FieldValues
  OBVIOUS
<1>8. FieldIds \subseteq 0 .. MaxFields /\ 0 \in 0 .. MaxFields
  BY MaxFieldsAssumption DEF FieldIds
<1>9. updates \in Seq(FieldOps)
  <2>1. \A n \in 1 .. Cardinality(S) : changed[n] \in 1 .. Len(existing) /\ changed[n] \in 1 .. Len(submitted)
    <3>1. \A n \in 1 .. Cardinality(S) : changed[n] \in 1 .. paired
      BY <1>4, <1>5
    <3>2. \A m \in 1 .. paired : m \in 1 .. Len(existing) /\ m \in 1 .. Len(submitted)
      BY <1>1, <1>2
    <3> QED
      BY <3>1, <3>2
  <2>2. ASSUME NEW n \in 1 .. Cardinality(S)
        PROVE  [op |-> "Update", id |-> existing[changed[n]].id, value |-> submitted[changed[n]]] \in FieldOps
    BY <1>6, <1>7, <1>8, <2>1 DEF FieldOps
  <2> QED
    BY <1>5, <2>2
<1>10. deletes \in Seq(FieldOps)
  <2>1. Len(existing) - paired \in Nat
    BY <1>1, <1>2
  <2>2. ASSUME NEW n \in 1 .. (Len(existing) - paired)
        PROVE  [op |-> "Delete", id |-> existing[paired + n].id, value |-> "none"] \in FieldOps
    <3>1. paired + n \in 1 .. Len(existing)
      BY <1>1, <1>2
    <3> QED
      BY <1>6, <1>8, <3>1 DEF FieldOps
  <2> QED
    BY <2>1, <2>2
<1>11. creates \in Seq(FieldOps)
  <2>1. Len(submitted) - paired \in Nat
    BY <1>1, <1>2
  <2>2. ASSUME NEW n \in 1 .. (Len(submitted) - paired)
        PROVE  [op |-> "Create", id |-> 0, value |-> submitted[paired + n]] \in FieldOps
    <3>1. paired + n \in 1 .. Len(submitted)
      BY <1>1, <1>2
    <3> QED
      BY <1>7, <1>8, <3>1 DEF FieldOps
  <2> QED
    BY <2>1, <2>2
<1> HIDE DEF updates, deletes, creates
<1> QED
  BY <1>3, <1>9, <1>10, <1>11

-----------------------------------------------------------------------------
(* The rows a transaction has written.                                     *)

FieldWrites == UNION {[D -> FieldRowRecords] : D \in SUBSET FieldIds}

LEMMA WritesAre ==
  ASSUME NEW w \in FieldWrites
  PROVE  DOMAIN w \in SUBSET FieldIds /\ \A i \in DOMAIN w : w[i] \in FieldRowRecords
BY DEF FieldWrites

LEMMA WritesMade ==
  ASSUME NEW D \in SUBSET FieldIds, NEW w \in [D -> FieldRowRecords]
  PROVE  w \in FieldWrites
BY DEF FieldWrites

LEMMA NoWrites == <<>> \in FieldWrites
<1>1. <<>> \in [{} -> FieldRowRecords]
  OBVIOUS
<1> QED
  BY <1>1, WritesMade

LEMMA OverWrites ==
  ASSUME NEW i \in FieldIds, NEW row \in FieldRowRecords, NEW old \in FieldWrites
  PROVE  Over(Written(i, row), old) \in FieldWrites
<1> DEFINE new == Written(i, row)
           D == DOMAIN new \cup DOMAIN old
<1>1. DOMAIN new = {i} /\ new[i] = row
  BY DEF Written
<1>2. DOMAIN old \in SUBSET FieldIds /\ \A j \in DOMAIN old : old[j] \in FieldRowRecords
  BY WritesAre
<1>3. Over(new, old) = [j \in D |-> IF j \in DOMAIN new THEN new[j] ELSE old[j]]
  BY DEF Over
<1> HIDE DEF new
<1>4. Over(new, old) \in [D -> FieldRowRecords] /\ D \in SUBSET FieldIds
  BY <1>1, <1>2, <1>3
<1> QED
  BY <1>4, WritesMade DEF new

LEMMA OverRows ==
  ASSUME NEW w \in FieldWrites, NEW rows \in [FieldIds -> FieldRowRecords]
  PROVE  Over(w, rows) \in [FieldIds -> FieldRowRecords]
<1>1. DOMAIN w \in SUBSET FieldIds /\ \A i \in DOMAIN w : w[i] \in FieldRowRecords
  BY WritesAre
<1>2. DOMAIN w \cup DOMAIN rows = FieldIds
  BY <1>1
<1> QED
  BY <1>1, <1>2 DEF Over

-----------------------------------------------------------------------------
(* The inductive invariant.                                                *)

FieldEditRecords ==
  [pc : {"idle", "next", "loaded", "saved", "folded"}, existing : Seq(ExistingRecords),
   known : SUBSET Nat, submitted : Seq(FieldValues), plan : Seq(FieldOps), expected : Nat,
   entity : FieldRowRecords, writes : FieldWrites]

\* An operation under way changes or deletes a field.
FieldEditOK(d) ==
  /\ d \in FieldEditRecords
  /\ d.pc \in {"loaded", "saved", "folded"} => d.plan # <<>> /\ Head(d.plan).op # "Create"

FieldPollRecords ==
  [pc : {"idle", "read", "folded"}, batch : SUBSET Nat, todo : SUBSET FieldIds,
   cur : 0 .. MaxFields, entity : FieldRowRecords, writes : FieldWrites]

FieldPollOK ==
  /\ fieldPoll \in FieldPollRecords
  /\ fieldPoll.batch \in SUBSET CommittedFieldSeqs
  /\ fieldPoll.pc = "folded" => fieldPoll.cur \in FieldIds

FieldLogOK(l) ==
  /\ l \in Seq(FieldEventRecords)
  /\ Len(l) <= MaxFieldEvents
  /\ \A s \in 1 .. Len(l) : l[s].state # "aborted" => l[s].kind \in FieldKinds

\* The transaction of e sees event t.
FieldSees(l, e, t) == l[t].state = "committed" \/ (l[t].state = "open" /\ l[t].by = e)

\* V are events of field i that e sees, with those before them, p is the last, and
\* they fold into a field.
FieldGround(l, e, i, V, p) ==
  /\ \A t \in V : l[t].id = i /\ FieldSees(l, e, t) /\ (l[t].prev = 0 \/ l[t].prev \in V) /\ t <= p
  /\ p \in V
  /\ IsField(FieldFold(l, NoField, V))

\* A field is created without a predecessor; any other event was written on such
\* a V, which is committed with it.
EventGrounded(l, s) ==
  l[s].state # "aborted" =>
    \/ l[s].kind = "Created" /\ l[s].prev = 0
    \/ /\ l[s].kind # "Created" /\ l[s].prev < s
       /\ \E V \in SUBSET (1 .. Len(l)) :
            /\ FieldGround(l, l[s].by, l[s].id, V, l[s].prev)
            /\ l[s].state = "committed" => \A t \in V : l[t].state = "committed"

EditGrounded(l, e, d) ==
  d.pc = "loaded" =>
    \E V \in SUBSET (1 .. Len(l)) : FieldGround(l, e, Head(d.plan).id, V, d.expected)

FieldInv ==
  /\ FieldLogOK(fieldEvents)
  /\ fieldRows \in [FieldIds -> FieldRowRecords]
  /\ fieldEdits \in [FieldEditors -> FieldEditRecords]
  /\ \A e \in FieldEditors : FieldEditOK(fieldEdits[e])
  /\ FieldPollOK
  /\ \A s \in 1 .. Len(fieldEvents) : EventGrounded(fieldEvents, s)
  /\ \A e \in FieldEditors : EditGrounded(fieldEvents, e, fieldEdits[e])

LEMMA FieldLogTyped ==
  ASSUME NEW l, FieldLogOK(l)
  PROVE  /\ Len(l) \in Nat /\ Len(l) \in 0 .. MaxFieldEvents /\ DOMAIN l = 1 .. Len(l)
         /\ \A s \in 1 .. Len(l) :
              /\ l[s] \in FieldEventRecords /\ l[s].id \in FieldIds /\ l[s].prev \in Nat
              /\ l[s].value \in FieldValues \cup {"none"}
              /\ l[s].state \in {"open", "committed", "aborted"}
              /\ l[s].state # "aborted" => l[s].kind \in FieldKinds
<1>1. l \in Seq(FieldEventRecords) /\ Len(l) \in Nat /\ DOMAIN l = 1 .. Len(l)
  BY DEF FieldLogOK
<1>2. \A s \in 1 .. Len(l) : l[s] \in FieldEventRecords
  BY <1>1
<1>3. Len(l) \in 0 .. MaxFieldEvents
  BY <1>1, MaxFieldEventsAssumption DEF FieldLogOK
<1> QED
  BY <1>1, <1>2, <1>3 DEF FieldEventRecords, FieldLogOK

\* What a transaction sees is not rolled back.
LEMMA SeenFolds ==
  ASSUME NEW l, FieldLogOK(l), NEW V \in SUBSET (1 .. Len(l)), NEW entity \in FieldRowRecords,
         \A t \in V : l[t].state # "aborted"
  PROVE  FieldFold(l, entity, V) \in FieldRowRecords \cup {BrokenField}
<1>1. Len(l) \in 0 .. MaxFieldEvents
  BY FieldLogTyped
<1>2. \A t \in V : l[t].kind \in FieldKinds /\ l[t].value \in FieldValues \cup {"none"}
  BY FieldLogTyped
<1> QED
  BY <1>1, <1>2, FieldFoldTyped

\* A log without a fork folds.
LEMMA UnforkedFieldFolds ==
  ASSUME NEW l, FieldLogOK(l), \A s \in 1 .. Len(l) : EventGrounded(l, s),
         NEW i \in FieldIds, NEW C, C = {s \in 1 .. Len(l) : l[s].state = "committed" /\ l[s].id = i},
         \A s, t \in C : l[s].prev = l[t].prev => s = t
  PROVE  FieldFold(l, NoField, C) # BrokenField
<1> DEFINE prev == [c \in C |-> l[c].prev]
<1>1. Len(l) \in Nat /\ C \in SUBSET (1 .. Len(l)) /\ C \in SUBSET (Nat \ {0})
  BY FieldLogTyped
<1>2. CASE C = {}
  BY <1>1, <1>2, FieldFoldNothing, FieldRowsTyped
<1>3. CASE C # {}
  <2>1. PICK s \in C : \A t \in C : t <= s
    <3>1. C \in SUBSET (0 .. Len(l))
      BY <1>1
    <3> QED
      BY <1>1, <1>3, <3>1, GreatestNatural
  <2>2. ASSUME NEW c \in C
        PROVE  \/ l[c].kind = "Created" /\ l[c].prev = 0
               \/ /\ l[c].kind # "Created" /\ l[c].prev < c
                  /\ \E V \in SUBSET C : FieldGround(l, l[c].by, i, V, l[c].prev)
    <3>1. c \in 1 .. Len(l) /\ l[c].state = "committed" /\ l[c].id = i
      BY <2>2
    <3>2. EventGrounded(l, c)
      BY <3>1
    <3>3. CASE l[c].kind = "Created"
      BY <3>1, <3>2, <3>3 DEF EventGrounded
    <3>4. CASE l[c].kind # "Created"
      <4>1. PICK V \in SUBSET (1 .. Len(l)) :
              FieldGround(l, l[c].by, i, V, l[c].prev) /\ \A t \in V : l[t].state = "committed"
        BY <3>1, <3>2, <3>4 DEF EventGrounded
      <4>2. V \in SUBSET C
        BY <4>1 DEF FieldGround
      <4>3. l[c].prev < c
        BY <3>1, <3>2, <3>4 DEF EventGrounded
      <4> QED
        BY <3>4, <4>1, <4>2, <4>3
    <3> QED
      BY <3>3, <3>4
  <2>3. IsChain(C, prev)
    <3>1. ASSUME NEW c \in C PROVE prev[c] < c /\ prev[c] \in C \cup {0}
      <4>1. CASE l[c].kind = "Created" /\ l[c].prev = 0
        BY <1>1, <4>1
      <4>2. CASE l[c].prev < c /\ \E V \in SUBSET C : FieldGround(l, l[c].by, i, V, l[c].prev)
        <5>1. l[c].prev \in C
          BY <4>2 DEF FieldGround
        <5> QED
          BY <4>2, <5>1
      <4> QED
        BY <2>2, <4>1, <4>2
    <3>2. \A c, d \in C : prev[c] = prev[d] => c = d
      OBVIOUS
    <3> HIDE DEF prev
    <3> QED
      BY <3>1, <3>2 DEF IsChain
  <2>4. ASSUME NEW m \in C, m # s PROVE m <= l[s].prev
    <3>1. m < s
      BY <1>1, <2>1, <2>4
    <3>2. m <= prev[s]
      <4> HIDE DEF prev
      <4> QED
        BY <1>1, <2>3, <3>1, ChainOrder
    <3> QED
      BY <3>2
  <2>5. FieldFold(l, NoField, C) = ApplyField(l, FieldFold(l, NoField, C \ {s}), s)
    BY <1>1, <2>1, FieldFoldLast
  <2>6. /\ s \in 1 .. MaxFieldEvents /\ l[s].kind \in FieldKinds
        /\ l[s].value \in FieldValues \cup {"none"}
    BY <2>1, FieldLogTyped, MaxFieldEventsAssumption
  <2> DEFINE before == FieldFold(l, NoField, C \ {s})
  <2>7. SUFFICES before \in FieldRowRecords /\ (IsField(before) <=> l[s].kind # "Created")
    <3> HIDE DEF before
    <3>1. ASSUME before \in FieldRowRecords, IsField(before) <=> l[s].kind # "Created"
          PROVE  ApplyField(l, before, s) \in FieldRowRecords
      BY <2>6, <3>1, ApplyFieldTyped
    <3> QED
      BY <2>5, <3>1, FieldRowsTyped DEF before
  <2>8. CASE l[s].kind = "Created" /\ l[s].prev = 0
    <3>1. C \ {s} = {}
      BY <1>1, <2>4, <2>8
    <3> QED
      BY <1>1, <2>8, <3>1, FieldFoldNothing, FieldRowsTyped
  <2>9. CASE l[s].kind # "Created" /\ \E V \in SUBSET C : FieldGround(l, l[s].by, i, V, l[s].prev)
    <3>1. PICK V \in SUBSET C : FieldGround(l, l[s].by, i, V, l[s].prev)
      BY <2>9
    <3> DEFINE p == prev[s]
    <3>2. p = l[s].prev /\ p \in V /\ p < s
      BY <2>2, <2>9, <3>1 DEF FieldGround
    <3>3. \A t \in V : prev[t] \in V \cup {0} /\ t <= p
      BY <3>1, <3>2 DEF FieldGround
    <3> HIDE DEF prev, p
    <3>4. C \ {s} \subseteq V
      <4>1. ASSUME NEW m \in C, m # s PROVE m \in V
        <5>1. m <= p
          BY <2>4, <3>2, <4>1
        <5> QED
          BY <1>1, <2>3, <3>2, <3>3, <5>1, ChainClosed
      <4> QED
        BY <4>1
    <3>5. s \notin V
      BY <1>1, <3>2, <3>3
    <3>6. C \ {s} = V
      BY <3>4, <3>5
    <3>7. IsField(before)
      BY <3>1, <3>6 DEF FieldGround
    <3>8. \A t \in V : l[t].state # "aborted"
      OBVIOUS
    <3>9. before \in FieldRowRecords \cup {BrokenField}
      BY <1>1, <3>6, <3>8, SeenFolds, FieldRowsTyped
    <3> HIDE DEF before
    <3> QED
      BY <2>9, <3>7, <3>9, FieldRowsTyped
  <2> QED
    BY <2>2, <2>8, <2>9
<1> QED
  BY <1>2, <1>3

-----------------------------------------------------------------------------
(* The steps of an edit.                                                   *)

\* The transaction of e adds events, commits its own or rolls them back.
FieldLogMoves(l, m, e) ==
  /\ Len(l) <= Len(m)
  /\ \A t \in 1 .. Len(l) : m[t] = l[t] \/ (l[t].state = "open" /\ l[t].by = e)

LEMMA FieldGroundMoves ==
  ASSUME NEW l, NEW m, Len(l) \in Nat, Len(m) \in Nat, Len(l) <= Len(m), NEW e, NEW k, NEW i, NEW p,
         NEW V \in SUBSET (1 .. Len(l)), FieldGround(l, e, i, V, p),
         \A t \in V : /\ m[t].id = l[t].id /\ m[t].kind = l[t].kind /\ m[t].value = l[t].value
                      /\ m[t].prev = l[t].prev /\ FieldSees(m, k, t)
  PROVE  V \in SUBSET (1 .. Len(m)) /\ FieldGround(m, k, i, V, p)
<1>1. V \in SUBSET (1 .. Len(m))
  OBVIOUS
<1>2. FieldFold(l, NoField, V) = FieldFold(m, NoField, V)
  BY FieldFoldKept
<1> QED
  BY <1>1, <1>2 DEF FieldGround

\* The others do not notice, nor does what is committed.
LEMMA OthersGrounded ==
  ASSUME NEW l, NEW m, Len(l) \in Nat, Len(m) \in Nat, NEW e, FieldLogMoves(l, m, e),
         NEW k, NEW i, NEW p, NEW V \in SUBSET (1 .. Len(l)), FieldGround(l, k, i, V, p),
         k # e \/ \A t \in V : l[t].state = "committed"
  PROVE  /\ V \in SUBSET (1 .. Len(m)) /\ FieldGround(m, k, i, V, p)
         /\ \A t \in V : m[t] = l[t]
<1>1. \A t \in V : m[t] = l[t] /\ FieldSees(l, k, t)
  BY DEF FieldGround, FieldSees, FieldLogMoves
<1>2. \A t \in V : /\ m[t].id = l[t].id /\ m[t].kind = l[t].kind /\ m[t].value = l[t].value
                   /\ m[t].prev = l[t].prev /\ FieldSees(m, k, t)
  BY <1>1 DEF FieldSees
<1> QED
  BY <1>1, <1>2, FieldGroundMoves DEF FieldLogMoves

\* An event that e's transaction leaves alone, and that is not its own, stays
\* grounded.
LEMMA OtherEventGrounded ==
  ASSUME NEW l, NEW m, Len(l) \in Nat, Len(m) \in Nat, NEW e, FieldLogMoves(l, m, e),
         NEW s \in 1 .. Len(l), EventGrounded(l, s), m[s] = l[s],
         l[s].state \in {"open", "committed", "aborted"}, l[s].state = "open" => l[s].by # e
  PROVE  EventGrounded(m, s)
<1>1. CASE l[s].state = "aborted" \/ (l[s].kind = "Created" /\ l[s].prev = 0)
  BY <1>1 DEF EventGrounded
<1>2. CASE l[s].state # "aborted" /\ ~(l[s].kind = "Created" /\ l[s].prev = 0)
  <2>1. /\ l[s].kind # "Created" /\ l[s].prev < s
    BY <1>2 DEF EventGrounded
  <2>2. PICK V \in SUBSET (1 .. Len(l)) :
          /\ FieldGround(l, l[s].by, l[s].id, V, l[s].prev)
          /\ l[s].state = "committed" => \A t \in V : l[t].state = "committed"
    BY <1>2 DEF EventGrounded
  <2>3. l[s].by # e \/ \A t \in V : l[t].state = "committed"
    BY <1>2, <2>2
  <2>4. /\ V \in SUBSET (1 .. Len(m)) /\ FieldGround(m, l[s].by, l[s].id, V, l[s].prev)
        /\ \A t \in V : m[t] = l[t]
    BY <2>2, <2>3, OthersGrounded
  <2> QED
    BY <2>1, <2>2, <2>4 DEF EventGrounded
<1> QED
  BY <1>1, <1>2

\* What a step of e has to show.
LEMMA FieldEditMoves ==
  ASSUME FieldInv, NEW e \in FieldEditors, NEW next,
         FieldLogOK(fieldEvents'), FieldLogMoves(fieldEvents, fieldEvents', e),
         \A s \in 1 .. Len(fieldEvents') : EventGrounded(fieldEvents', s),
         fieldEdits' = [fieldEdits EXCEPT ![e] = next], FieldEditOK(next),
         EditGrounded(fieldEvents', e, next),
         fieldRows' \in [FieldIds -> FieldRowRecords], fieldPoll' = fieldPoll
  PROVE  FieldInv'
<1>1. PICK m : m = fieldEvents'
  OBVIOUS
<1>2. FieldLogOK(fieldEvents) /\ FieldLogOK(m) /\ FieldLogMoves(fieldEvents, m, e)
  BY <1>1 DEF FieldInv
<1>3. Len(fieldEvents) \in Nat /\ Len(m) \in Nat /\ DOMAIN fieldEvents = 1 .. Len(fieldEvents)
      /\ DOMAIN m = 1 .. Len(m)
  BY <1>2, FieldLogTyped
<1>4. next \in FieldEditRecords
  BY DEF FieldEditOK
<1>5. /\ fieldEdits' \in [FieldEditors -> FieldEditRecords] /\ fieldEdits'[e] = next
      /\ \A k \in FieldEditors : k # e => fieldEdits'[k] = fieldEdits[k]
  BY <1>4 DEF FieldInv
<1>6. \A k \in FieldEditors : FieldEditOK(fieldEdits'[k])
  BY <1>5 DEF FieldInv
<1>7. ASSUME NEW k \in FieldEditors PROVE EditGrounded(m, k, fieldEdits'[k])
  <2>1. CASE k = e
    BY <1>1, <1>5, <2>1
  <2>2. CASE k # e
    <3>1. EditGrounded(fieldEvents, k, fieldEdits[k]) /\ fieldEdits'[k] = fieldEdits[k]
      BY <1>5, <2>2 DEF FieldInv
    <3>2. ASSUME fieldEdits[k].pc = "loaded"
          PROVE  \E V \in SUBSET (1 .. Len(m)) :
                   FieldGround(m, k, Head(fieldEdits[k].plan).id, V, fieldEdits[k].expected)
      <4>1. PICK V \in SUBSET (1 .. Len(fieldEvents)) :
              FieldGround(fieldEvents, k, Head(fieldEdits[k].plan).id, V, fieldEdits[k].expected)
        BY <3>1, <3>2 DEF EditGrounded
      <4>2. V \in SUBSET (1 .. Len(m))
            /\ FieldGround(m, k, Head(fieldEdits[k].plan).id, V, fieldEdits[k].expected)
        BY <1>2, <1>3, <2>2, <4>1, OthersGrounded
      <4> QED
        BY <4>2
    <3> QED
      BY <3>1, <3>2 DEF EditGrounded
  <2> QED
    BY <2>1, <2>2
<1>8. \A s \in DOMAIN fieldEvents : fieldEvents[s].state = "committed" => s \in DOMAIN m /\ m[s].state = "committed"
  BY <1>2, <1>3 DEF FieldLogMoves
<1>9. FieldPollOK'
  BY <1>1, <1>8 DEF FieldInv, FieldPollOK, CommittedFieldSeqs
<1> QED
  BY <1>1, <1>5, <1>6, <1>7, <1>9 DEF FieldInv

LEMMA FieldEditPlaces ==
  ASSUME FieldInv, NEW e \in FieldEditors, NEW next, FieldEditOK(next),
         EditGrounded(fieldEvents, e, next), fieldEdits' = [fieldEdits EXCEPT ![e] = next],
         UNCHANGED <<fieldEvents, fieldRows, fieldPoll>>
  PROVE  FieldInv'
<1>1. FieldLogOK(fieldEvents) /\ Len(fieldEvents) \in Nat
  BY FieldLogTyped DEF FieldInv
<1>2. FieldLogMoves(fieldEvents, fieldEvents', e)
  BY <1>1 DEF FieldLogMoves
<1>3. \A s \in 1 .. Len(fieldEvents') : EventGrounded(fieldEvents', s)
  BY DEF FieldInv
<1>4. EditGrounded(fieldEvents', e, next) /\ fieldRows' \in [FieldIds -> FieldRowRecords]
  BY DEF FieldInv
<1> QED
  BY <1>1, <1>2, <1>3, <1>4, FieldEditMoves

\* e inserts an event.
LEMMA FieldEditAppends ==
  ASSUME FieldInv, NEW e \in FieldEditors, NEW next, FieldEditOK(next), next.pc # "loaded",
         fieldEdits' = [fieldEdits EXCEPT ![e] = next],
         NEW row \in FieldEventRecords, row.state = "open", row.by = e, row.kind \in FieldKinds,
         fieldEvents' = Append(fieldEvents, row), Len(fieldEvents) < MaxFieldEvents,
         \/ row.kind = "Created" /\ row.prev = 0
         \/ /\ row.kind # "Created"
            /\ \E V \in SUBSET (1 .. Len(fieldEvents)) : FieldGround(fieldEvents, e, row.id, V, row.prev),
         UNCHANGED <<fieldRows, fieldPoll>>
  PROVE  FieldInv'
<1> DEFINE n == Len(fieldEvents) + 1
<1>1. PICK m : m = fieldEvents'
  OBVIOUS
<1>2. FieldLogOK(fieldEvents) /\ fieldEvents \in Seq(FieldEventRecords) /\ Len(fieldEvents) \in Nat
  BY FieldLogTyped DEF FieldInv, FieldLogOK
<1>3. /\ m \in Seq(FieldEventRecords) /\ Len(m) = n /\ m[n] = row
      /\ \A t \in 1 .. Len(fieldEvents) : m[t] = fieldEvents[t]
  BY <1>1, <1>2
<1>4. n \in Nat /\ \A s \in 1 .. n : s \in 1 .. Len(fieldEvents) \/ s = n
  BY <1>2
<1>5. Len(m) <= MaxFieldEvents /\ Len(fieldEvents) <= Len(m)
  BY <1>2, <1>3, MaxFieldEventsAssumption
<1>6. FieldLogOK(m)
  BY <1>2, <1>3, <1>4, <1>5 DEF FieldLogOK
<1>7. FieldLogMoves(fieldEvents, m, e)
  BY <1>3, <1>5 DEF FieldLogMoves
<1>8. ASSUME NEW k, NEW i, NEW p, NEW V \in SUBSET (1 .. Len(fieldEvents)), FieldGround(fieldEvents, k, i, V, p)
      PROVE  V \in SUBSET (1 .. Len(m)) /\ FieldGround(m, k, i, V, p)
  <2>1. \A t \in V : m[t] = fieldEvents[t]
    BY <1>3
  <2>2. \A t \in V : FieldSees(m, k, t)
    BY <1>8, <2>1 DEF FieldGround, FieldSees
  <2> QED
    BY <1>2, <1>3, <1>4, <1>5, <1>8, <2>1, <2>2, FieldGroundMoves
<1>9. ASSUME NEW s \in 1 .. n PROVE EventGrounded(m, s)
  <2>1. CASE s = n
    <3>1. CASE row.kind = "Created" /\ row.prev = 0
      BY <1>3, <2>1, <3>1 DEF EventGrounded
    <3>2. CASE row.kind # "Created" /\ \E V \in SUBSET (1 .. Len(fieldEvents)) : FieldGround(fieldEvents, e, row.id, V, row.prev)
      <4>1. PICK V \in SUBSET (1 .. Len(fieldEvents)) : FieldGround(fieldEvents, e, row.id, V, row.prev)
        BY <3>2
      <4>2. row.prev < n
        <5>1. row.prev \in 1 .. Len(fieldEvents)
          BY <4>1 DEF FieldGround
        <5> HIDE DEF n
        <5>2. \A t \in 1 .. Len(fieldEvents) : t < Len(fieldEvents) + 1
          BY <1>2
        <5> QED
          BY <5>1, <5>2 DEF n
      <4>3. V \in SUBSET (1 .. Len(m)) /\ FieldGround(m, e, row.id, V, row.prev)
        BY <1>8, <4>1
      <4> QED
        BY <1>3, <2>1, <3>2, <4>2, <4>3 DEF EventGrounded
    <3> QED
      BY <3>1, <3>2
  <2>2. CASE s \in 1 .. Len(fieldEvents)
    <3>1. EventGrounded(fieldEvents, s) /\ m[s] = fieldEvents[s]
      BY <1>3, <2>2 DEF FieldInv
    <3>2. CASE m[s].state = "aborted" \/ (m[s].kind = "Created" /\ m[s].prev = 0)
      BY <3>2 DEF EventGrounded
    <3>3. CASE m[s].state # "aborted" /\ ~(m[s].kind = "Created" /\ m[s].prev = 0)
      <4>1. PICK V \in SUBSET (1 .. Len(fieldEvents)) :
              /\ FieldGround(fieldEvents, m[s].by, m[s].id, V, m[s].prev)
              /\ m[s].state = "committed" => \A t \in V : fieldEvents[t].state = "committed"
        BY <3>1, <3>3 DEF EventGrounded
      <4>2. V \in SUBSET (1 .. Len(m)) /\ FieldGround(m, m[s].by, m[s].id, V, m[s].prev)
        BY <1>8, <4>1
      <4>3. \A t \in V : m[t] = fieldEvents[t]
        BY <1>3
      <4>4. m[s].kind # "Created" /\ m[s].prev < s
        BY <3>1, <3>3 DEF EventGrounded
      <4> QED
        BY <4>1, <4>2, <4>3, <4>4 DEF EventGrounded
    <3> QED
      BY <3>2, <3>3
  <2> QED
    BY <1>4, <2>1, <2>2
<1>10. \A s \in 1 .. Len(m) : EventGrounded(m, s)
  BY <1>3, <1>9
<1>11. EditGrounded(m, e, next)
  BY DEF EditGrounded
<1>12. fieldRows' \in [FieldIds -> FieldRowRecords]
  BY DEF FieldInv
<1> QED
  BY <1>1, <1>6, <1>7, <1>10, <1>11, <1>12, FieldEditMoves

LEMMA IdleFieldEditOK ==
  /\ FieldEditOK(IdleFieldEdit) /\ IdleFieldEdit.pc = "idle" /\ IdleFieldEdit \in FieldEditRecords
<1>1. IdleFieldEdit \in FieldEditRecords
  BY FieldRowsTyped, NoWrites DEF IdleFieldEdit, FieldEditRecords
<1> QED
  BY <1>1 DEF FieldEditOK, IdleFieldEdit

LEMMA FieldEditBeginStep ==
  ASSUME FieldInv, NEW e \in FieldEditors, FieldEditBegin(e)
  PROVE  FieldInv'
<1>1. PICK submitted \in SubmittedLists :
        fieldEdits' = [fieldEdits EXCEPT ![e] = [IdleFieldEdit EXCEPT
                         !.pc = "next", !.existing = ExistingFields, !.known = CommittedFieldSeqs,
                         !.submitted = submitted,
                         !.plan = plan_field_updates(ExistingFields, submitted)]]
  BY DEF FieldEditBegin
<1> DEFINE plan == plan_field_updates(ExistingFields, submitted)
           next == [IdleFieldEdit EXCEPT !.pc = "next", !.existing = ExistingFields,
                      !.known = CommittedFieldSeqs, !.submitted = submitted, !.plan = plan]
<1>2. ExistingFields \in Seq(ExistingRecords) /\ submitted \in Seq(FieldValues)
  BY ExistingTyped, SubmittedListsAssumption DEF FieldInv
<1>3. plan \in Seq(FieldOps)
  BY <1>2, PlanTyped
<1>4. CommittedFieldSeqs \in SUBSET Nat
  BY FieldLogTyped DEF CommittedFieldSeqs, FieldInv
<1>5. fieldEdits' = [fieldEdits EXCEPT ![e] = next]
  BY <1>1
<1> HIDE DEF plan
<1>6. next \in FieldEditRecords /\ next.pc = "next"
  BY <1>2, <1>3, <1>4, IdleFieldEditOK DEF FieldEditRecords
<1> HIDE DEF next
<1>7. FieldEditOK(next) /\ EditGrounded(fieldEvents, e, next)
  BY <1>6 DEF FieldEditOK, EditGrounded
<1>8. UNCHANGED <<fieldEvents, fieldRows, fieldPoll>>
  BY DEF FieldEditBegin
<1> QED
  BY <1>5, <1>7, <1>8, FieldEditPlaces

LEMMA VisibleTyped ==
  ASSUME FieldInv, NEW e \in FieldEditors, NEW i
  PROVE  /\ VisibleFieldStream(e, i) \in SUBSET (1 .. Len(fieldEvents)) /\ Len(fieldEvents) \in Nat
         /\ \A t \in 1 .. Len(fieldEvents) :
              t \in VisibleFieldStream(e, i) <=> fieldEvents[t].id = i /\ FieldSees(fieldEvents, e, t)
         /\ FoldField(NoField, VisibleFieldStream(e, i)) \in FieldRowRecords \cup {BrokenField}
<1> DEFINE W == VisibleFieldStream(e, i)
<1>1. Len(fieldEvents) \in Nat /\ DOMAIN fieldEvents = 1 .. Len(fieldEvents) /\ FieldLogOK(fieldEvents)
  BY FieldLogTyped DEF FieldInv
<1>2. W \in SUBSET (1 .. Len(fieldEvents))
  BY <1>1 DEF VisibleFieldStream, FieldStream, CommittedFieldSeqs
<1>3. \A t \in 1 .. Len(fieldEvents) : t \in W <=> fieldEvents[t].id = i /\ FieldSees(fieldEvents, e, t)
  BY <1>1 DEF VisibleFieldStream, FieldStream, CommittedFieldSeqs, FieldSees
<1> HIDE DEF W
<1>4. \A t \in W : fieldEvents[t].state # "aborted"
  BY <1>2, <1>3 DEF FieldSees
<1>5. FieldFold(fieldEvents, NoField, W) \in FieldRowRecords \cup {BrokenField}
  BY <1>1, <1>2, <1>4, SeenFolds, FieldRowsTyped
<1> QED
  BY <1>1, <1>2, <1>3, <1>5, FieldFoldIs DEF W

LEMMA HighestIs ==
  ASSUME NEW k \in Nat, NEW S \in SUBSET (1 .. k), S # {}
  PROVE  Highest(S) \in S /\ \A t \in S : t <= Highest(S)
<1>1. S \in SUBSET (0 .. k)
  OBVIOUS
<1>2. \E x \in S : \A y \in S : y <= x
  BY <1>1, GreatestNatural
<1> QED
  BY <1>2 DEF Highest

LEMMA FieldEditLoadStep ==
  ASSUME FieldInv, NEW e \in FieldEditors, FieldEditLoad(e)
  PROVE  FieldInv'
<1> DEFINE d == fieldEdits[e]
           i == Head(d.plan).id
           W == VisibleFieldStream(e, i)
           next == [d EXCEPT !.pc = "loaded", !.expected = Highest(W)]
           l == fieldEvents
<1>1. d \in FieldEditRecords /\ fieldEdits \in [FieldEditors -> FieldEditRecords]
  BY DEF FieldInv
<1>2. /\ d.plan # <<>> /\ Head(d.plan).op # "Create" /\ IsField(FoldField(NoField, W))
      /\ UNCHANGED <<fieldEvents, fieldRows, fieldPoll>>
  BY DEF FieldEditLoad, Operation
<1>3. fieldEdits' = [fieldEdits EXCEPT ![e] = next]
  <2>1. fieldEdits' = [fieldEdits EXCEPT ![e].pc = "loaded", ![e].expected = Highest(W)]
    BY DEF FieldEditLoad, Operation
  <2> HIDE DEF W
  <2> QED
    BY <1>1, <2>1 DEF FieldEditRecords
<1>4. /\ W \in SUBSET (1 .. Len(l)) /\ Len(l) \in Nat
      /\ \A t \in 1 .. Len(l) : t \in W <=> l[t].id = i /\ FieldSees(l, e, t)
  BY VisibleTyped
<1>5. FoldField(NoField, W) = FieldFold(l, NoField, W)
  BY FieldFoldIs
<1> HIDE DEF W
<1>6. W # {}
  BY <1>2, <1>4, <1>5, FieldFoldNothing, FieldRowsTyped
<1> DEFINE p == Highest(W)
<1>7. p \in W /\ p \in Nat /\ \A t \in W : t <= p
  <2>1. Len(l) \in Nat /\ W \in SUBSET (1 .. Len(l))
    BY <1>4
  <2>2. p \in W /\ \A t \in W : t <= p
    BY <1>6, <2>1, HighestIs
  <2> HIDE DEF p, l
  <2>3. p \in 1 .. Len(l)
    BY <2>1, <2>2
  <2> QED
    BY <2>2, <2>3
<1> HIDE DEF p
<1>8. ASSUME NEW t \in W PROVE l[t].prev = 0 \/ l[t].prev \in W
  <2>1. t \in 1 .. Len(l) /\ l[t].id = i /\ FieldSees(l, e, t) /\ EventGrounded(l, t)
    BY <1>4 DEF FieldInv
  <2>2. l[t].state # "aborted"
    BY <2>1 DEF FieldSees
  <2>3. CASE l[t].prev # 0
    <3>1. PICK V \in SUBSET (1 .. Len(l)) :
            /\ FieldGround(l, l[t].by, i, V, l[t].prev)
            /\ l[t].state = "committed" => \A u \in V : l[u].state = "committed"
      BY <2>1, <2>2, <2>3 DEF EventGrounded
    <3>2. l[t].prev \in V /\ l[l[t].prev].id = i /\ FieldSees(l, l[t].by, l[t].prev)
      BY <3>1 DEF FieldGround
    <3>3. FieldSees(l, e, l[t].prev)
      BY <2>1, <3>1, <3>2 DEF FieldSees
    <3> QED
      BY <1>4, <3>2, <3>3
  <2> QED
    BY <2>3
<1>9. FieldGround(l, e, i, W, p)
  <2>1. \A t \in W : l[t].id = i /\ FieldSees(l, e, t)
    BY <1>4
  <2> QED
    BY <1>2, <1>5, <1>7, <1>8, <2>1 DEF FieldGround
<1>10. next.pc = "loaded" /\ next.plan = d.plan /\ next.expected = p /\ next \in FieldEditRecords
  BY <1>1, <1>7 DEF FieldEditRecords, p
<1> HIDE DEF next
<1>11. FieldEditOK(next) /\ EditGrounded(fieldEvents, e, next)
  BY <1>2, <1>4, <1>9, <1>10 DEF FieldEditOK, EditGrounded
<1> QED
  BY <1>2, <1>3, <1>11, FieldEditPlaces

LEMMA FieldEditSaveStep ==
  ASSUME FieldInv, NEW e \in FieldEditors, FieldEditSave(e)
  PROVE  FieldInv'
<1> DEFINE d == fieldEdits[e]
           op == Head(d.plan)
           kind == IF op.op = "Update" THEN "Updated" ELSE "Deleted"
           row == [id |-> op.id, kind |-> kind, value |-> op.value, prev |-> d.expected,
                   state |-> "open", by |-> e]
           next == [d EXCEPT !.pc = "saved"]
<1>1. d \in FieldEditRecords /\ fieldEdits \in [FieldEditors -> FieldEditRecords] /\ FieldEditOK(d)
  BY DEF FieldInv
<1>2. /\ d.pc = "loaded" /\ Len(fieldEvents) < MaxFieldEvents
      /\ UNCHANGED <<fieldRows, fieldPoll>> /\ VisibleHead(e) = d.expected
  BY DEF FieldEditSave, ExpectedFieldVersion
<1>3. fieldEvents' = Append(fieldEvents, row)
  BY <1>2 DEF FieldEditSave, Operation, Appended
<1>4. fieldEdits' = [fieldEdits EXCEPT ![e] = next]
  BY <1>1 DEF FieldEditSave, FieldEditRecords
<1>5. d.plan \in Seq(FieldOps) /\ d.plan # <<>> /\ op.op # "Create" /\ d.expected \in Nat
  BY <1>1, <1>2 DEF FieldEditOK, FieldEditRecords
<1>6. op \in FieldOps
  BY <1>5
<1>7. op.id \in FieldIds /\ op.value \in FieldValues \cup {"none"}
  BY <1>5, <1>6 DEF FieldOps
<1>8. kind \in FieldKinds /\ kind # "Created"
  BY DEF FieldKinds
<1> HIDE DEF op, kind
<1>9. row \in FieldEventRecords
  BY <1>5, <1>7, <1>8 DEF FieldEventRecords
<1>10. row.id = op.id /\ row.kind = kind /\ row.prev = d.expected /\ row.state = "open" /\ row.by = e
  OBVIOUS
<1> HIDE DEF row
<1>11. PICK V \in SUBSET (1 .. Len(fieldEvents)) : FieldGround(fieldEvents, e, op.id, V, d.expected)
  BY <1>2 DEF FieldInv, EditGrounded, op
<1>12. next \in FieldEditRecords /\ next.pc = "saved" /\ next.plan = d.plan
  BY <1>1 DEF FieldEditRecords
<1> HIDE DEF next
<1>13. FieldEditOK(next)
  BY <1>5, <1>12 DEF FieldEditOK, op
<1> QED
  BY <1>2, <1>3, <1>4, <1>8, <1>9, <1>10, <1>11, <1>12, <1>13, FieldEditAppends

LEMMA FieldEditReloadStep ==
  ASSUME FieldInv, NEW e \in FieldEditors, FieldEditReload(e)
  PROVE  FieldInv'
<1> DEFINE d == fieldEdits[e]
           entity == FoldField(NoField, VisibleFieldStream(e, Operation(e).id))
           next == [d EXCEPT !.pc = "folded", !.entity = entity]
<1>1. d \in FieldEditRecords /\ fieldEdits \in [FieldEditors -> FieldEditRecords] /\ FieldEditOK(d)
  BY DEF FieldInv
<1>2. d.pc = "saved" /\ IsField(entity) /\ UNCHANGED <<fieldEvents, fieldRows, fieldPoll>>
  BY DEF FieldEditReload
<1>3. entity \in FieldRowRecords
  BY <1>2, VisibleTyped, FieldRowsTyped
<1>4. fieldEdits' = [fieldEdits EXCEPT ![e].pc = "folded", ![e].entity = entity]
  BY DEF FieldEditReload
<1> HIDE DEF entity
<1>5. fieldEdits' = [fieldEdits EXCEPT ![e] = next]
  BY <1>1, <1>4 DEF FieldEditRecords
<1>6. next \in FieldEditRecords /\ next.pc = "folded" /\ next.plan = d.plan
  BY <1>1, <1>3 DEF FieldEditRecords
<1> HIDE DEF next
<1>7. FieldEditOK(next) /\ EditGrounded(fieldEvents, e, next)
  BY <1>1, <1>2, <1>6 DEF FieldEditOK, EditGrounded
<1> QED
  BY <1>2, <1>5, <1>7, FieldEditPlaces

LEMMA FieldEditWriteStep ==
  ASSUME FieldInv, NEW e \in FieldEditors, FieldEditWrite(e)
  PROVE  FieldInv'
<1> DEFINE d == fieldEdits[e]
           op == Head(d.plan)
           writes == Over(Written(op.id, d.entity), d.writes)
           next == [d EXCEPT !.pc = "next", !.plan = Tail(d.plan), !.entity = NoField, !.expected = 0,
                             !.writes = writes]
<1>1. d \in FieldEditRecords /\ fieldEdits \in [FieldEditors -> FieldEditRecords] /\ FieldEditOK(d)
  BY DEF FieldInv
<1>2. /\ d.pc \in {"saved", "folded"} /\ UNCHANGED <<fieldEvents, fieldRows, fieldPoll>>
      /\ fieldEdits' = [fieldEdits EXCEPT ![e].pc = "next", ![e].plan = Tail(@),
                          ![e].entity = NoField, ![e].expected = 0,
                          ![e].writes = Over(Written(op.id, fieldEdits[e].entity), @)]
  BY DEF FieldEditWrite, Operation
<1>3. d.plan \in Seq(FieldOps) /\ d.plan # <<>> /\ op.op # "Create" /\ d.entity \in FieldRowRecords
      /\ d.writes \in FieldWrites
  BY <1>1, <1>2 DEF FieldEditOK, FieldEditRecords
<1>4. op \in FieldOps /\ Tail(d.plan) \in Seq(FieldOps)
  BY <1>3
<1>5. op.id \in FieldIds
  BY <1>3, <1>4 DEF FieldOps
<1>6. writes \in FieldWrites
  BY <1>3, <1>5, OverWrites
<1>7. fieldEdits' = [fieldEdits EXCEPT ![e] = next]
  <2>1. fieldEdits' = [fieldEdits EXCEPT ![e].pc = "next", ![e].plan = Tail(d.plan),
                          ![e].entity = NoField, ![e].expected = 0, ![e].writes = writes]
    BY <1>1, <1>2 DEF FieldEditRecords
  <2> HIDE DEF writes, op
  <2> QED
    BY <1>1, <2>1 DEF FieldEditRecords
<1> HIDE DEF writes
<1>8. next \in FieldEditRecords /\ next.pc = "next"
  BY <1>1, <1>4, <1>6, FieldRowsTyped DEF FieldEditRecords
<1> HIDE DEF next
<1>9. FieldEditOK(next) /\ EditGrounded(fieldEvents, e, next)
  BY <1>8 DEF FieldEditOK, EditGrounded
<1> QED
  BY <1>2, <1>7, <1>9, FieldEditPlaces

LEMMA FieldEditCreateStep ==
  ASSUME FieldInv, NEW e \in FieldEditors, FieldEditCreate(e)
  PROVE  FieldInv'
<1> DEFINE d == fieldEdits[e]
           op == Head(d.plan)
           n == Len(fieldEvents) + 1
<1>1. d \in FieldEditRecords /\ fieldEdits \in [FieldEditors -> FieldEditRecords]
  BY DEF FieldInv
<1>2. PICK id \in FieldIds :
        /\ fieldEvents' = Appended(e, id, "Created", op.value, 0)
        /\ fieldEdits' = [fieldEdits EXCEPT ![e].plan = Tail(@),
             ![e].writes = Over(Written(id, [version |-> n, value |-> op.value]), @)]
  BY DEF FieldEditCreate, Operation
<1>3. /\ d.pc = "next" /\ d.plan # <<>> /\ Len(fieldEvents) < MaxFieldEvents
      /\ UNCHANGED <<fieldRows, fieldPoll>>
  BY DEF FieldEditCreate
<1>4. d.plan \in Seq(FieldOps) /\ d.writes \in FieldWrites
  BY <1>1 DEF FieldEditRecords
<1>5. op \in FieldOps /\ Tail(d.plan) \in Seq(FieldOps)
  BY <1>3, <1>4
<1>6. op.value \in FieldValues \cup {"none"}
  BY <1>5 DEF FieldOps
<1> HIDE DEF op
<1> DEFINE written == [version |-> n, value |-> op.value]
           writes == Over(Written(id, written), d.writes)
           next == [d EXCEPT !.plan = Tail(d.plan), !.writes = writes]
           row == [id |-> id, kind |-> "Created", value |-> op.value, prev |-> 0,
                   state |-> "open", by |-> e]
<1>7. n \in 0 .. MaxFieldEvents
  BY <1>3, FieldLogTyped, MaxFieldEventsAssumption DEF FieldInv
<1> HIDE DEF n
<1>8. written \in FieldRowRecords
  BY <1>6, <1>7 DEF FieldRowRecords
<1>9. fieldEdits' = [fieldEdits EXCEPT ![e].plan = Tail(d.plan), ![e].writes = writes]
  BY <1>1, <1>2 DEF FieldEditRecords
<1> HIDE DEF written
<1>10. writes \in FieldWrites
  BY <1>4, <1>8, OverWrites
<1> HIDE DEF writes
<1>11. fieldEdits' = [fieldEdits EXCEPT ![e] = next]
  BY <1>1, <1>9 DEF FieldEditRecords
<1>12. next \in FieldEditRecords /\ next.pc = "next"
  BY <1>1, <1>3, <1>5, <1>10 DEF FieldEditRecords
<1> HIDE DEF next
<1>13. FieldEditOK(next)
  BY <1>12 DEF FieldEditOK
<1>14. fieldEvents' = Append(fieldEvents, row)
  BY <1>2 DEF Appended
<1>15. row \in FieldEventRecords
  BY <1>6 DEF FieldEventRecords, FieldKinds
<1>16. row.kind = "Created" /\ row.prev = 0 /\ row.state = "open" /\ row.by = e /\ row.kind \in FieldKinds
  BY DEF FieldKinds
<1> HIDE DEF row
<1> QED
  BY <1>3, <1>11, <1>12, <1>13, <1>14, <1>15, <1>16, FieldEditAppends

\* The events of e when its transaction ends: the others are left alone.
Ended(l, e, m) ==
  /\ Len(m) = Len(l)
  /\ \A t \in 1 .. Len(l) : ~(l[t].by = e /\ l[t].state = "open") => m[t] = l[t]

LEMMA FieldEditEnds ==
  ASSUME FieldInv, NEW e \in FieldEditors, FieldLogOK(fieldEvents'), Ended(fieldEvents, e, fieldEvents'),
         \A s \in 1 .. Len(fieldEvents) : fieldEvents[s].by = e /\ fieldEvents[s].state = "open"
                                            => EventGrounded(fieldEvents', s),
         fieldEdits' = [fieldEdits EXCEPT ![e] = IdleFieldEdit],
         fieldRows' \in [FieldIds -> FieldRowRecords], fieldPoll' = fieldPoll
  PROVE  FieldInv'
<1>1. PICK m : m = fieldEvents'
  OBVIOUS
<1>2. /\ FieldLogOK(fieldEvents) /\ Len(fieldEvents) \in Nat /\ Len(m) = Len(fieldEvents)
      /\ \A t \in 1 .. Len(fieldEvents) : fieldEvents[t].state \in {"open", "committed", "aborted"}
  BY <1>1, FieldLogTyped DEF FieldInv, Ended
<1>3. FieldLogMoves(fieldEvents, m, e)
  BY <1>1, <1>2 DEF Ended, FieldLogMoves
<1>4. ASSUME NEW s \in 1 .. Len(m) PROVE EventGrounded(m, s)
  <2>1. CASE fieldEvents[s].by = e /\ fieldEvents[s].state = "open"
    BY <1>1, <1>2, <2>1
  <2>2. CASE ~(fieldEvents[s].by = e /\ fieldEvents[s].state = "open")
    <3>1. m[s] = fieldEvents[s] /\ EventGrounded(fieldEvents, s) /\ s \in 1 .. Len(fieldEvents)
      BY <1>1, <1>2, <2>2 DEF Ended, FieldInv
    <3> QED
      BY <1>2, <1>3, <2>2, <3>1, OtherEventGrounded
  <2> QED
    BY <2>1, <2>2
<1>5. FieldEditOK(IdleFieldEdit) /\ EditGrounded(m, e, IdleFieldEdit)
  BY IdleFieldEditOK DEF EditGrounded
<1> QED
  BY <1>1, <1>3, <1>4, <1>5, FieldEditMoves

LEMMA FieldEditCommitStep ==
  ASSUME FieldInv, NEW e \in FieldEditors, FieldEditCommit(e)
  PROVE  FieldInv'
<1> DEFINE l == fieldEvents
<1>1. PICK m : m = fieldEvents'
  OBVIOUS
<1>2. /\ FieldLogOK(l) /\ Len(l) \in Nat /\ DOMAIN l = 1 .. Len(l) /\ l \in Seq(FieldEventRecords)
      /\ \A s \in 1 .. Len(l) : l[s] \in FieldEventRecords
  BY FieldLogTyped DEF FieldInv, FieldLogOK
<1>3. m = [s \in 1 .. Len(l) |-> IF l[s].by = e /\ l[s].state = "open"
                                 THEN [l[s] EXCEPT !.state = "committed", !.by = "none"] ELSE l[s]]
  BY <1>1, <1>2 DEF FieldEditCommit
<1>4. ASSUME NEW s \in 1 .. Len(l)
      PROVE  /\ m[s] \in FieldEventRecords
             /\ m[s].id = l[s].id /\ m[s].kind = l[s].kind /\ m[s].value = l[s].value /\ m[s].prev = l[s].prev
             /\ ~(l[s].by = e /\ l[s].state = "open") => m[s] = l[s]
             /\ l[s].by = e /\ l[s].state = "open" => m[s].state = "committed" /\ m[s].by = "none"
  <2>1. CASE l[s].by = e /\ l[s].state = "open"
    <3>1. m[s] = [l[s] EXCEPT !.state = "committed", !.by = "none"]
      BY <1>3, <2>1
    <3> QED
      BY <1>2, <2>1, <3>1 DEF FieldEventRecords
  <2>2. CASE ~(l[s].by = e /\ l[s].state = "open")
    <3>1. m[s] = l[s]
      BY <1>3, <2>2
    <3> QED
      BY <1>2, <2>2, <3>1
  <2> QED
    BY <2>1, <2>2
<1>5. DOMAIN m = 1 .. Len(l)
  BY <1>3
<1>6. m \in Seq(FieldEventRecords) /\ Len(m) = Len(l)
  <2>1. m = [s \in 1 .. Len(l) |-> m[s]]
    BY <1>3
  <2> QED
    BY <1>2, <1>4, <2>1
<1>7. FieldLogOK(m)
  <2>1. \A s \in 1 .. Len(l) : m[s].state # "aborted" => m[s].kind \in FieldKinds
    BY <1>2, <1>4 DEF FieldLogOK
  <2> QED
    BY <1>2, <1>6, <2>1 DEF FieldLogOK
<1>8. Ended(l, e, m)
  BY <1>4, <1>6 DEF Ended
<1>9. ASSUME NEW s \in 1 .. Len(l), l[s].by = e, l[s].state = "open"
      PROVE  EventGrounded(m, s)
  <2>1. EventGrounded(l, s)
    BY DEF FieldInv
  <2>2. m[s].state = "committed" /\ m[s].by = "none" /\ m[s].kind = l[s].kind /\ m[s].id = l[s].id
        /\ m[s].prev = l[s].prev
    BY <1>4, <1>9
  <2>3. CASE l[s].kind = "Created" /\ l[s].prev = 0
    BY <2>2, <2>3 DEF EventGrounded
  <2>4. CASE ~(l[s].kind = "Created" /\ l[s].prev = 0)
    <3>1. l[s].kind # "Created" /\ l[s].prev < s
      BY <1>9, <2>1, <2>4 DEF EventGrounded
    <3>2. PICK V \in SUBSET (1 .. Len(l)) : FieldGround(l, e, l[s].id, V, l[s].prev)
      BY <1>9, <2>1, <2>4 DEF EventGrounded
    <3>3. \A t \in V : t \in 1 .. Len(l) /\ FieldSees(l, e, t)
      BY <3>2 DEF FieldGround
    <3>4. \A t \in V : m[t].state = "committed"
      BY <1>4, <3>3 DEF FieldSees
    <3>5. \A t \in V : /\ m[t].id = l[t].id /\ m[t].kind = l[t].kind /\ m[t].value = l[t].value
                       /\ m[t].prev = l[t].prev /\ FieldSees(m, "none", t)
      BY <1>4, <3>3, <3>4 DEF FieldSees
    <3>6. Len(m) \in Nat /\ Len(l) <= Len(m)
      BY <1>2, <1>6
    <3>7. V \in SUBSET (1 .. Len(m)) /\ FieldGround(m, "none", l[s].id, V, l[s].prev)
      BY <1>2, <3>2, <3>5, <3>6, FieldGroundMoves
    <3> QED
      BY <2>2, <3>1, <3>4, <3>7 DEF EventGrounded
  <2> QED
    BY <2>3, <2>4
<1>10. /\ fieldEdits' = [fieldEdits EXCEPT ![e] = IdleFieldEdit] /\ fieldPoll' = fieldPoll
       /\ fieldRows' = Over(fieldEdits[e].writes, fieldRows)
  BY DEF FieldEditCommit
<1>11. fieldEdits[e].writes \in FieldWrites /\ fieldRows \in [FieldIds -> FieldRowRecords]
  BY DEF FieldInv, FieldEditRecords
<1>12. fieldRows' \in [FieldIds -> FieldRowRecords]
  BY <1>10, <1>11, OverRows
<1> QED
  BY <1>1, <1>7, <1>8, <1>9, <1>10, <1>12, FieldEditEnds

LEMMA FieldEditAbortStep ==
  ASSUME FieldInv, NEW e \in FieldEditors, FieldEditAbort(e)
  PROVE  FieldInv'
<1> DEFINE l == fieldEvents
<1>1. PICK m : m = fieldEvents'
  OBVIOUS
<1>2. /\ FieldLogOK(l) /\ Len(l) \in Nat /\ DOMAIN l = 1 .. Len(l) /\ l \in Seq(FieldEventRecords)
      /\ \A s \in 1 .. Len(l) : l[s] \in FieldEventRecords
  BY FieldLogTyped DEF FieldInv, FieldLogOK
<1>3. m = [s \in 1 .. Len(l) |-> IF l[s].by = e /\ l[s].state = "open" THEN AbortedEvent ELSE l[s]]
  BY <1>1, <1>2 DEF FieldEditAbort
<1>4. AbortedEvent \in FieldEventRecords /\ AbortedEvent.state = "aborted"
  <2>1. 1 \in FieldIds
    BY MaxFieldsAssumption DEF FieldIds
  <2> QED
    BY <2>1 DEF AbortedEvent, FieldEventRecords
<1>5. \A s \in 1 .. Len(l) :
        /\ m[s] \in FieldEventRecords
        /\ ~(l[s].by = e /\ l[s].state = "open") => m[s] = l[s]
        /\ l[s].by = e /\ l[s].state = "open" => m[s].state = "aborted"
  <2> HIDE DEF l
  <2> QED
    BY <1>2, <1>3, <1>4
<1>6. m \in Seq(FieldEventRecords) /\ Len(m) = Len(l)
  <2>1. m = [s \in 1 .. Len(l) |-> m[s]]
    BY <1>3
  <2> QED
    BY <1>2, <1>5, <2>1
<1>7. FieldLogOK(m)
  <2>1. \A s \in 1 .. Len(l) : m[s].state # "aborted" => m[s].kind \in FieldKinds
    BY <1>2, <1>5 DEF FieldLogOK
  <2> QED
    BY <1>2, <1>6, <2>1 DEF FieldLogOK
<1>8. Ended(l, e, m)
  BY <1>5, <1>6 DEF Ended
<1>9. \A s \in 1 .. Len(l) : l[s].by = e /\ l[s].state = "open" => EventGrounded(m, s)
  BY <1>5 DEF EventGrounded
<1>10. /\ fieldEdits' = [fieldEdits EXCEPT ![e] = IdleFieldEdit] /\ fieldPoll' = fieldPoll
       /\ fieldRows' \in [FieldIds -> FieldRowRecords]
  BY DEF FieldEditAbort, FieldInv
<1> QED
  BY <1>1, <1>7, <1>8, <1>9, <1>10, FieldEditEnds

-----------------------------------------------------------------------------
(* The account's row and the projector.                                    *)

\* Rows and poll change; the events and the edits do not.
LEMMA FieldRowsMove ==
  ASSUME FieldInv, UNCHANGED <<fieldEvents, fieldEdits>>,
         fieldRows' \in [FieldIds -> FieldRowRecords], FieldPollOK'
  PROVE  FieldInv'
BY DEF FieldInv

LEMMA FieldParentSteps ==
  ASSUME FieldInv, FieldParentDeleted \/ FieldParentLive
  PROVE  FieldInv'
<1>1. UNCHANGED <<fieldEvents, fieldEdits, fieldPoll>>
  BY DEF FieldParentDeleted, FieldParentLive
<1>2. FieldPollOK'
  BY <1>1 DEF FieldInv, FieldPollOK, CommittedFieldSeqs
<1>3. fieldRows' \in [FieldIds -> FieldRowRecords]
  BY FieldRowsTyped DEF FieldParentDeleted, FieldParentLive, FieldInv
<1> QED
  BY <1>1, <1>2, <1>3, FieldRowsMove

LEMMA IdleFieldPollOK ==
  IdleFieldPoll \in FieldPollRecords /\ IdleFieldPoll.batch = {} /\ IdleFieldPoll.pc = "idle"
<1>1. 0 \in 0 .. MaxFields
  BY MaxFieldsAssumption
<1> QED
  BY <1>1, FieldRowsTyped, NoWrites DEF IdleFieldPoll, FieldPollRecords

LEMMA FieldWindowCommitted ==
  ASSUME FieldInv
  PROVE  /\ FieldWindow \subseteq CommittedFieldSeqs /\ FieldWindow \in SUBSET Nat
         /\ {fieldEvents[s].id : s \in FieldWindow} \in SUBSET FieldIds
<1>1. FieldWindow \subseteq CommittedFieldSeqs
  BY DEF FieldWindow, SeqWindow, FirstRows
<1>2. FieldLogOK(fieldEvents)
  BY DEF FieldInv
<1>3. \A s \in FieldWindow : s \in 1 .. Len(fieldEvents)
  BY <1>1, <1>2, FieldLogTyped DEF CommittedFieldSeqs
<1>4. \A s \in FieldWindow : fieldEvents[s].id \in FieldIds
  BY <1>2, <1>3, FieldLogTyped
<1> QED
  BY <1>1, <1>3, <1>4

LEMMA FieldPollReadStep == ASSUME FieldInv, FieldPollRead PROVE FieldInv'
<1> DEFINE ids == {fieldEvents[s].id : s \in FieldWindow}
           next == [fieldPoll EXCEPT !.pc = "read", !.batch = FieldWindow, !.todo = ids]
<1>1. fieldPoll' = next /\ UNCHANGED <<fieldEvents, fieldEdits, fieldRows>>
  BY DEF FieldPollRead
<1>2. FieldWindow \subseteq CommittedFieldSeqs /\ FieldWindow \in SUBSET Nat /\ ids \in SUBSET FieldIds
  BY FieldWindowCommitted
<1>3. fieldPoll \in FieldPollRecords
  BY DEF FieldInv, FieldPollOK
<1> HIDE DEF ids
<1>4. next \in FieldPollRecords /\ next.pc = "read" /\ next.batch = FieldWindow
  BY <1>2, <1>3 DEF FieldPollRecords
<1> HIDE DEF next
<1>5. CommittedFieldSeqs' = CommittedFieldSeqs
  BY <1>1 DEF CommittedFieldSeqs
<1>6. FieldPollOK'
  BY <1>1, <1>2, <1>4, <1>5 DEF FieldPollOK
<1>7. fieldRows' \in [FieldIds -> FieldRowRecords]
  BY <1>1 DEF FieldInv
<1> QED
  BY <1>1, <1>6, <1>7, FieldRowsMove

\* What the projector folds is a field, none, or broken.
LEMMA FoldedFieldTyped ==
  ASSUME FieldInv, NEW i \in FieldIds
  PROVE  FoldedField(i) \in FieldRowRecords \cup {BrokenField}
<1> DEFINE S == PendingField(i)
<1>1. FieldLogOK(fieldEvents) /\ fieldRows[i] \in FieldRowRecords
  BY DEF FieldInv
<1>2. S \subseteq CommittedFieldSeqs
  BY DEF PendingField, FieldStream, FieldInv, FieldPollOK
<1>3. S \in SUBSET (1 .. Len(fieldEvents)) /\ \A t \in S : fieldEvents[t].state # "aborted"
  BY <1>1, <1>2, FieldLogTyped DEF CommittedFieldSeqs
<1> HIDE DEF S
<1>4. FieldFold(fieldEvents, fieldRows[i], S) \in FieldRowRecords \cup {BrokenField}
  BY <1>1, <1>3, SeenFolds
<1> QED
  BY <1>4, FieldFoldIs DEF FoldedField, S

LEMMA FieldPollFoldStep ==
  ASSUME FieldInv, NEW i \in FieldIds, FieldPollFold(i)
  PROVE  FieldInv'
<1> DEFINE skipped == [fieldPoll EXCEPT !.todo = @ \ {i}]
           folded == [fieldPoll EXCEPT !.pc = "folded", !.todo = @ \ {i}, !.cur = i,
                                       !.entity = FoldedField(i)]
<1>1. /\ fieldPoll.pc = "read" /\ UNCHANGED <<fieldEvents, fieldEdits, fieldRows>>
      /\ \/ fieldPoll' = skipped
         \/ fieldPoll' = folded /\ FoldedField(i) # BrokenField
  BY DEF FieldPollFold, FieldSkipped
<1>2. fieldPoll \in FieldPollRecords /\ fieldPoll.batch \in SUBSET CommittedFieldSeqs
  BY DEF FieldInv, FieldPollOK
<1>3. skipped \in FieldPollRecords /\ skipped.pc = "read" /\ skipped.batch = fieldPoll.batch
  BY <1>1, <1>2 DEF FieldPollRecords
<1>4. ASSUME FoldedField(i) # BrokenField
      PROVE  folded \in FieldPollRecords /\ folded.cur = i /\ folded.batch = fieldPoll.batch
  <2>1. FoldedField(i) \in FieldRowRecords
    BY <1>4, FoldedFieldTyped
  <2>2. i \in 0 .. MaxFields
    BY MaxFieldsAssumption DEF FieldIds
  <2> QED
    BY <1>2, <2>1, <2>2 DEF FieldPollRecords
<1> HIDE DEF skipped, folded
<1>5. CommittedFieldSeqs' = CommittedFieldSeqs
  BY <1>1 DEF CommittedFieldSeqs
<1>6. FieldPollOK'
  <2>1. CASE fieldPoll' = skipped
    BY <1>2, <1>3, <1>5, <2>1 DEF FieldPollOK
  <2>2. CASE fieldPoll' = folded /\ FoldedField(i) # BrokenField
    BY <1>2, <1>4, <1>5, <2>2 DEF FieldPollOK
  <2> QED
    BY <1>1, <2>1, <2>2
<1>7. fieldRows' \in [FieldIds -> FieldRowRecords]
  BY <1>1 DEF FieldInv
<1> QED
  BY <1>1, <1>6, <1>7, FieldRowsMove

LEMMA FieldPollWriteStep == ASSUME FieldInv, FieldPollWrite PROVE FieldInv'
<1> DEFINE i == fieldPoll.cur
           over == Over(Written(i, fieldPoll.entity), fieldPoll.writes)
           writes == IF WritesField(fieldRows[i], fieldPoll.entity) THEN over ELSE fieldPoll.writes
           next == [fieldPoll EXCEPT !.pc = "read", !.cur = 0, !.entity = NoField, !.writes = writes]
<1>1. fieldPoll \in FieldPollRecords /\ fieldPoll.batch \in SUBSET CommittedFieldSeqs
  BY DEF FieldInv, FieldPollOK
<1>2. fieldPoll.pc = "folded" /\ UNCHANGED <<fieldEvents, fieldEdits, fieldRows>> /\ fieldPoll' = next
  BY <1>1 DEF FieldPollWrite, FieldPollRecords
<1>3. i \in FieldIds /\ fieldPoll.entity \in FieldRowRecords /\ fieldPoll.writes \in FieldWrites
  BY <1>1, <1>2 DEF FieldInv, FieldPollOK, FieldPollRecords
<1>4. over \in FieldWrites
  BY <1>3, OverWrites
<1> HIDE DEF over
<1>5. writes \in FieldWrites
  BY <1>3, <1>4
<1> HIDE DEF writes
<1>6. 0 \in 0 .. MaxFields
  BY MaxFieldsAssumption
<1>7. next \in FieldPollRecords /\ next.pc = "read" /\ next.batch = fieldPoll.batch
  BY <1>1, <1>5, <1>6, FieldRowsTyped DEF FieldPollRecords
<1> HIDE DEF next
<1>8. CommittedFieldSeqs' = CommittedFieldSeqs
  BY <1>2 DEF CommittedFieldSeqs
<1>9. FieldPollOK'
  BY <1>1, <1>2, <1>7, <1>8 DEF FieldPollOK
<1>10. fieldRows' \in [FieldIds -> FieldRowRecords]
  BY <1>2 DEF FieldInv
<1> QED
  BY <1>2, <1>9, <1>10, FieldRowsMove

LEMMA FieldPollCommitStep == ASSUME FieldInv, FieldPollCommit PROVE FieldInv'
<1>1. /\ UNCHANGED <<fieldEvents, fieldEdits>> /\ fieldPoll' = IdleFieldPoll
      /\ fieldRows' = Over(fieldPoll.writes, fieldRows)
  BY DEF FieldPollCommit
<1>2. fieldPoll.writes \in FieldWrites /\ fieldRows \in [FieldIds -> FieldRowRecords]
  BY DEF FieldInv, FieldPollOK, FieldPollRecords
<1>3. fieldRows' \in [FieldIds -> FieldRowRecords]
  BY <1>1, <1>2, OverRows
<1>4. FieldPollOK'
  BY <1>1, IdleFieldPollOK DEF FieldPollOK
<1> QED
  BY <1>1, <1>3, <1>4, FieldRowsMove

LEMMA FieldInvInit == ASSUME FieldInit PROVE FieldInv
<1> DEFINE first == [id |-> 1, kind |-> "Created", value |-> FirstValue,
                     prev |-> 0, state |-> "committed", by |-> "none"]
<1>1. fieldEvents = <<first>>
  BY DEF FieldInit
<1>first. 1 \in FieldIds /\ FirstValue \in FieldValues
  BY MaxFieldsAssumption, FieldValuesAssumption DEF FieldIds, FirstValue
<1>2. first \in FieldEventRecords /\ first.kind = "Created" /\ first.prev = 0
  BY <1>first DEF FieldEventRecords, FieldKinds
<1> HIDE DEF first
<1>3. fieldEvents \in Seq(FieldEventRecords) /\ Len(fieldEvents) = 1 /\ fieldEvents[1] = first
  BY <1>1, <1>2
<1>4. \A s \in 1 .. Len(fieldEvents) : fieldEvents[s].kind = "Created" /\ fieldEvents[s].prev = 0
  BY <1>2, <1>3
<1>5. FieldLogOK(fieldEvents)
  BY <1>3, <1>4, MaxFieldEventsAssumption DEF FieldLogOK, FieldKinds
<1>6. \A s \in 1 .. Len(fieldEvents) : EventGrounded(fieldEvents, s)
  BY <1>4 DEF EventGrounded
<1>7. /\ fieldEdits \in [FieldEditors -> FieldEditRecords]
      /\ \A e \in FieldEditors : fieldEdits[e] = IdleFieldEdit
  BY IdleFieldEditOK DEF FieldInit
<1>8. \A e \in FieldEditors : FieldEditOK(fieldEdits[e]) /\ EditGrounded(fieldEvents, e, fieldEdits[e])
  BY <1>7, IdleFieldEditOK DEF EditGrounded
<1>9. fieldRows \in [FieldIds -> FieldRowRecords]
  <2>1. [version |-> 1, value |-> FirstValue] \in FieldRowRecords
    BY <1>first, MaxFieldEventsAssumption DEF FieldRowRecords
  <2>2. NoField \in FieldRowRecords
    BY FieldRowsTyped
  <2> QED
    BY <2>1, <2>2 DEF FieldInit
<1>10. FieldPollOK
  BY IdleFieldPollOK DEF FieldInit, FieldPollOK
<1> QED
  BY <1>5, <1>6, <1>7, <1>8, <1>9, <1>10 DEF FieldInv

LEMMA FieldInvStep == FieldInv /\ [FieldNext]_fieldVars => FieldInv'
<1> SUFFICES ASSUME FieldInv, [FieldNext]_fieldVars PROVE FieldInv'
  OBVIOUS
<1>1. CASE UNCHANGED fieldVars
  <2>1. FieldPollOK'
    BY <1>1 DEF fieldVars, FieldInv, FieldPollOK, CommittedFieldSeqs
  <2>2. fieldRows' \in [FieldIds -> FieldRowRecords] /\ UNCHANGED <<fieldEvents, fieldEdits>>
    BY <1>1 DEF fieldVars, FieldInv
  <2> QED
    BY <2>1, <2>2, FieldRowsMove
<1>2. CASE \E e \in FieldEditors : FieldEditBegin(e) \/ FieldEditStep(e)
  BY <1>2, FieldEditBeginStep, FieldEditLoadStep, FieldEditSaveStep, FieldEditReloadStep,
     FieldEditWriteStep, FieldEditCreateStep, FieldEditCommitStep, FieldEditAbortStep DEF FieldEditStep
<1>3. CASE FieldParentDeleted \/ FieldParentLive
  BY <1>3, FieldParentSteps
<1>4. CASE FieldPollStep
  BY <1>4, FieldPollReadStep, FieldPollFoldStep, FieldPollWriteStep, FieldPollCommitStep DEF FieldPollStep
<1> QED
  BY <1>1, <1>2, <1>3, <1>4 DEF FieldNext

LEMMA FieldInvSafe == ASSUME FieldInv PROVE FieldSafety
<1>1. FieldTypeOK
  <2>1. \A e \in FieldEditors : fieldEdits[e].plan \in Seq(FieldOps)
    BY DEF FieldInv, FieldEditRecords
  <2>2. \A e \in FieldEditors : \A n \in DOMAIN fieldEdits[e].plan : fieldEdits[e].plan[n] \in FieldOps
    BY <2>1
  <2>3. \A o \in FieldOps : o.op \in {"Create", "Update", "Delete"}
    BY DEF FieldOps
  <2> QED
    BY <2>2, <2>3 DEF FieldTypeOK, FieldInv, FieldLogOK, FieldRowRecords
<1>2. ASSUME NEW i \in FieldIds, CommittedField(i) = BrokenField
      PROVE  \E s, t \in FieldStream(i, CommittedFieldSeqs) :
               s # t /\ fieldEvents[s].prev = fieldEvents[t].prev
  <2> DEFINE C == FieldStream(i, CommittedFieldSeqs)
  <2>1. FieldLogOK(fieldEvents) /\ \A s \in 1 .. Len(fieldEvents) : EventGrounded(fieldEvents, s)
    BY DEF FieldInv
  <2>2. C = {s \in 1 .. Len(fieldEvents) : fieldEvents[s].state = "committed" /\ fieldEvents[s].id = i}
    BY <2>1, FieldLogTyped DEF FieldStream, CommittedFieldSeqs
  <2>3. FieldFold(fieldEvents, NoField, C) = BrokenField
    BY <1>2, FieldFoldIs DEF CommittedField
  <2> HIDE DEF C
  <2>4. ~ \A s, t \in C : fieldEvents[s].prev = fieldEvents[t].prev => s = t
    BY <2>1, <2>2, <2>3, UnforkedFieldFolds
  <2>5. \E s, t \in C : s # t /\ fieldEvents[s].prev = fieldEvents[t].prev
    BY <2>4
  <2> QED
    BY <2>5 DEF C
<1> QED
  BY <1>1, <1>2 DEF FieldSafety, FieldBreaksOnlyByFork

\* The rows and the plans of the edits are well formed, and the stream of a field
\* stops folding only after two requests wrote on top of the same version,
\* neither seeing the other's event (update_account_detail, persist_internal).
THEOREM FieldsCorrect == FieldSpec => []FieldSafety
<1>1. FieldInit => FieldInv
  BY FieldInvInit
<1>2. FieldInv => FieldSafety
  BY FieldInvSafe
<1> QED
  BY <1>1, <1>2, FieldInvStep, PTL DEF FieldSpec
=============================================================================
