---------------------------- MODULE AccountProofs ----------------------------
(***************************************************************************)
(* Proofs about the accounts: the use cases over the event log, the        *)
(* projector and the read model, for any accounts, any number of           *)
(* concurrent requests, any clock and any window and batch of the poll.    *)
(***************************************************************************)
EXTENDS AccountTailing, FiniteSetTheorems, LeastNumber, TLAPS

-----------------------------------------------------------------------------
(* The fold of a set of events.                                            *)

EventRecords == [kind : Kinds, version : 1 .. MaxVersion, until : 0 .. Never]

\* A set of events has a latest one.
LEMMA LatestIsLatest ==
  ASSUME NEW S \in SUBSET EventRecords, IsFiniteSet(S), S # {}
  PROVE  Latest(S) \in S /\ \A f \in S : f.version <= Latest(S).version
<1> DEFINE V == {e.version : e \in S}
<1>1. V \in SUBSET Nat /\ V # {}
  BY DEF EventRecords
<1>2. IsFiniteSet(V)
  <2> DEFINE f == [e \in S |-> e.version]
  <2>1. f \in Surjection(S, V)
    BY DEF Surjection
  <2> HIDE DEF f, V
  <2> QED
    BY <2>1, FS_Surjection
<1>3. PICK b \in Nat : \A x \in V : x <= b
  <2> HIDE DEF V
  <2> QED
    BY <1>1, <1>2, FiniteIsBounded
<1>4. V \in SUBSET (0 .. b)
  BY <1>1, <1>3
<1>5. PICK v \in V : \A w \in V : w <= v
  <2> HIDE DEF V
  <2> QED
    BY <1>1, <1>3, <1>4, GreatestNatural
<1>6. PICK e \in S : e.version = v
  BY <1>5
<1>7. \A f \in S : f.version <= e.version
  BY <1>5, <1>6
<1> QED
  BY <1>6, <1>7 DEF Latest

\* g folds every one of the sets of D.
Folding(g, acct, D) ==
  g = [s \in D |-> IF s = {} THEN acct ELSE apply(g[s \ {Latest(s)}], Latest(s))]

LEMMA FoldIsChosen ==
  ASSUME NEW acct, NEW events
  PROVE  Fold(acct, events) = (CHOOSE g : Folding(g, acct, SUBSET events))[events]
BY DEF Fold, MapThenFoldSet, Folding

\* The subsets of S of at most n events.
Upto(S, n) == {s \in SUBSET S : Cardinality(s) <= n}

LEMMA RemoveOne ==
  ASSUME NEW S, IsFiniteSet(S), NEW x \in S
  PROVE  /\ IsFiniteSet(S \ {x}) /\ Cardinality(S \ {x}) \in Nat
         /\ Cardinality(S) = Cardinality(S \ {x}) + 1
<1>1. IsFiniteSet(S \ {x}) /\ Cardinality(S \ {x}) = Cardinality(S) - 1
  BY FS_RemoveElement
<1>2. Cardinality(S) \in Nat /\ Cardinality(S \ {x}) \in Nat
  BY <1>1, FS_CardinalityType
<1> QED
  BY <1>1, <1>2

\* The recursion has a solution, built up by the size of the sets.
LEMMA FoldingExists ==
  ASSUME NEW acct, NEW S \in SUBSET EventRecords, IsFiniteSet(S)
  PROVE  \E g : Folding(g, acct, SUBSET S)
<1> DEFINE Sizes == {n \in Nat : \E g : Folding(g, acct, Upto(S, n))}
<1>1. \A s \in SUBSET S : IsFiniteSet(s) /\ Cardinality(s) \in Nat /\ s \in SUBSET EventRecords
  BY FS_Subset, FS_CardinalityType
<1>2. 0 \in Sizes
  <2> DEFINE g == [s \in Upto(S, 0) |-> acct]
  <2>1. \A s \in Upto(S, 0) : s = {}
    BY <1>1, FS_EmptySet DEF Upto
  <2>2. Folding(g, acct, Upto(S, 0))
    BY <2>1 DEF Folding
  <2> QED
    BY <2>2
<1>3. ASSUME NEW n \in Sizes PROVE n + 1 \in Sizes
  <2>1. PICK g : Folding(g, acct, Upto(S, n))
    OBVIOUS
  <2>2. n \in Nat
    OBVIOUS
  <2> DEFINE D == Upto(S, n + 1)
             h == [s \in D |-> IF s \in Upto(S, n) THEN g[s]
                               ELSE apply(g[s \ {Latest(s)}], Latest(s))]
  <2>3. /\ \A s \in Upto(S, n) : s \in D
        /\ \A s \in D : s # {} => s \ {Latest(s)} \in Upto(S, n)
        /\ {} \in Upto(S, n)
    <3>1. ASSUME NEW s \in D, s # {} PROVE s \ {Latest(s)} \in Upto(S, n)
      <4>1. s \in SUBSET S /\ Cardinality(s) <= n + 1
        BY DEF Upto
      <4>2. Latest(s) \in s
        BY <1>1, <3>1, <4>1, LatestIsLatest
      <4>3. Cardinality(s \ {Latest(s)}) \in Nat /\ Cardinality(s) = Cardinality(s \ {Latest(s)}) + 1
        BY <1>1, <4>1, <4>2, RemoveOne
      <4> QED
        BY <2>2, <4>1, <4>3 DEF Upto
    <3>2. \A s \in Upto(S, n) : s \in D
      BY <1>1, <2>2 DEF Upto
    <3>3. {} \in Upto(S, n)
      BY <2>2, FS_EmptySet DEF Upto
    <3> QED
      BY <3>1, <3>2, <3>3
  <2>4. \A s \in Upto(S, n) :
          g[s] = IF s = {} THEN acct ELSE apply(g[s \ {Latest(s)}], Latest(s))
    BY <2>1 DEF Folding
  <2> HIDE DEF D
  <2>5. \A s \in Upto(S, n) : h[s] = g[s]
    BY <2>3
  <2>6. \A s \in D : h[s] = IF s \in Upto(S, n) THEN g[s]
                            ELSE apply(g[s \ {Latest(s)}], Latest(s))
    OBVIOUS
  <2>7. h = [s \in D |-> h[s]]
    OBVIOUS
  <2> HIDE DEF h
  <2>8. \A s \in D : h[s] = IF s = {} THEN acct ELSE apply(h[s \ {Latest(s)}], Latest(s))
    BY <2>3, <2>4, <2>5, <2>6
  <2>9. Folding(h, acct, D)
    BY <2>7, <2>8 DEF Folding
  <2> QED
    BY <2>2, <2>9 DEF D
<1>4. Cardinality(S) \in Sizes
  <2>1. Sizes \in SUBSET Nat
    OBVIOUS
  <2>2. Cardinality(S) \in Nat
    BY FS_CardinalityType
  <2> HIDE DEF Sizes
  <2> QED
    BY <1>2, <1>3, <2>1, <2>2, SetInduction
<1>5. Upto(S, Cardinality(S)) = SUBSET S
  BY FS_Subset DEF Upto
<1> QED
  BY <1>4, <1>5

\* And no more than one, so that the sets that an account was folded from may
\* be looked at alone.
LEMMA FoldingsAgree ==
  ASSUME NEW acct, NEW S \in SUBSET EventRecords, NEW R \in SUBSET S, NEW g, NEW h,
         IsFiniteSet(S), Folding(g, acct, SUBSET S), Folding(h, acct, SUBSET R)
  PROVE  g[R] = h[R]
<1> DEFINE Sizes == {n \in Nat : \A s \in SUBSET R : Cardinality(s) = n => g[s] = h[s]}
<1>1. \A s \in SUBSET R : /\ IsFiniteSet(s) /\ Cardinality(s) \in Nat /\ s \in SUBSET EventRecords
                          /\ s \in SUBSET S
  BY FS_Subset, FS_CardinalityType
<1>2. \A s \in SUBSET S : g[s] = IF s = {} THEN acct ELSE apply(g[s \ {Latest(s)}], Latest(s))
  BY DEF Folding
<1>3. \A s \in SUBSET R : h[s] = IF s = {} THEN acct ELSE apply(h[s \ {Latest(s)}], Latest(s))
  BY DEF Folding
<1>4. 0 \in Sizes
  BY <1>1, <1>2, <1>3, FS_EmptySet
<1>5. ASSUME NEW n \in Sizes PROVE n + 1 \in Sizes
  <2>1. ASSUME NEW s \in SUBSET R, Cardinality(s) = n + 1 PROVE g[s] = h[s]
    <3>1. s # {} /\ n \in Nat
      <4>1. n \in Nat /\ n + 1 # 0
        OBVIOUS
      <4> QED
        BY <2>1, <4>1, FS_EmptySet
    <3>2. Latest(s) \in s
      BY <1>1, <3>1, LatestIsLatest
    <3>3. Cardinality(s \ {Latest(s)}) \in Nat /\ Cardinality(s) = Cardinality(s \ {Latest(s)}) + 1
      BY <1>1, <3>2, RemoveOne
    <3>4. Cardinality(s \ {Latest(s)}) = n /\ s \ {Latest(s)} \in SUBSET R
      BY <2>1, <3>1, <3>3
    <3>5. g[s \ {Latest(s)}] = h[s \ {Latest(s)}]
      BY <3>4
    <3> QED
      BY <1>1, <1>2, <1>3, <3>1, <3>5
  <2> QED
    BY <2>1
<1>6. Sizes = Nat
  <2>1. Sizes \in SUBSET Nat
    OBVIOUS
  <2> HIDE DEF Sizes
  <2> QED
    BY <1>4, <1>5, <2>1, SetInduction
<1> QED
  BY <1>1, <1>6

\* The equations of Fold.
LEMMA FoldEquation ==
  ASSUME NEW acct, NEW S \in SUBSET EventRecords, IsFiniteSet(S)
  PROVE  Fold(acct, S) = IF S = {} THEN acct
                         ELSE apply(Fold(acct, S \ {Latest(S)}), Latest(S))
<1> DEFINE R == S \ {Latest(S)}
<1>1. R \in SUBSET S /\ R \in SUBSET EventRecords /\ IsFiniteSet(R)
  BY FS_Subset
<1>2. PICK g : Fold(acct, S) = g[S] /\ Folding(g, acct, SUBSET S)
  BY FoldIsChosen, FoldingExists
<1>3. \A s \in SUBSET S : g[s] = IF s = {} THEN acct ELSE apply(g[s \ {Latest(s)}], Latest(s))
  BY <1>2 DEF Folding
<1>4. g[S] = IF S = {} THEN acct ELSE apply(g[R], Latest(S))
  BY <1>3
<1> HIDE DEF R
<1>5. PICK h : Fold(acct, R) = h[R] /\ Folding(h, acct, SUBSET R)
  BY <1>1, FoldIsChosen, FoldingExists
<1>6. g[R] = h[R]
  BY <1>1, <1>2, <1>5, FoldingsAgree
<1> QED
  BY <1>2, <1>4, <1>5, <1>6 DEF R

-----------------------------------------------------------------------------
(* What apply and Fold return.                                             *)

LEMMA StatesTyped == NoAccount \in States /\ Broken \in States
BY MaxNowAssumption DEF NoAccount, Broken, AccountState, States, Never

\* An event that does not break an account leaves it existing.
LEMMA ApplyTyped ==
  ASSUME NEW acct \in States, NEW e \in EventRecords
  PROVE  /\ apply(acct, e) \in States
         /\ \/ apply(acct, e) = Broken
            \/ Exists(apply(acct, e)) /\ apply(acct, e).version = e.version
<1>1. e.kind \in Kinds /\ e.version \in 1 .. MaxVersion /\ e.until \in 0 .. Never
  BY DEF EventRecords
<1>2. CASE ~Applies(acct, e)
  BY <1>2, StatesTyped DEF apply
<1>3. CASE Applies(acct, e)
  <2> DEFINE status == StatusAfter(acct, e.kind)
             until == UntilAfter(acct, e)
             deleted == DeletedAfter(acct, e.kind)
  <2>1. apply(acct, e) = AccountState(status, until, deleted, e.version)
    BY <1>3 DEF apply
  <2>2. status \in {"active", "suspended", "banned"}
    BY <1>1, <1>3 DEF Applies, Exists, StatusAfter, Kinds
  <2>3. until \in 0 .. Never
    BY <1>1, MaxNowAssumption DEF UntilAfter, Kinds, States, Never
  <2>4. deleted \in BOOLEAN
    BY <1>1 DEF DeletedAfter, Kinds, States
  <2>5. e.version \in Nat
    BY <1>1, BoundsAssumption
  <2> HIDE DEF status, until, deleted
  <2>6. AccountState(status, until, deleted, e.version) \in States
    BY <2>2, <2>3, <2>4, <2>5 DEF AccountState, States
  <2>7. /\ Exists(AccountState(status, until, deleted, e.version))
        /\ AccountState(status, until, deleted, e.version).version = e.version
    BY <2>2 DEF AccountState, Exists
  <2> QED
    BY <2>1, <2>6, <2>7
<1> QED
  BY <1>2, <1>3

LEMMA FoldTyped ==
  ASSUME NEW acct \in States, NEW S \in SUBSET EventRecords, IsFiniteSet(S)
  PROVE  Fold(acct, S) \in States
<1> DEFINE Sizes == {n \in Nat : \A s \in SUBSET S : Cardinality(s) = n => Fold(acct, s) \in States}
<1>1. \A s \in SUBSET S : IsFiniteSet(s) /\ Cardinality(s) \in Nat /\ s \in SUBSET EventRecords
  BY FS_Subset, FS_CardinalityType
<1>2. 0 \in Sizes
  <2>1. ASSUME NEW s \in SUBSET S, Cardinality(s) = 0 PROVE Fold(acct, s) \in States
    <3>1. s = {}
      BY <1>1, <2>1, FS_EmptySet
    <3> QED
      BY <1>1, <3>1, FoldEquation
  <2> QED
    BY <2>1
<1>3. ASSUME NEW n \in Sizes PROVE n + 1 \in Sizes
  <2>1. ASSUME NEW s \in SUBSET S, Cardinality(s) = n + 1 PROVE Fold(acct, s) \in States
    <3>1. s # {} /\ n \in Nat
      <4>1. n \in Nat /\ n + 1 # 0
        OBVIOUS
      <4> QED
        BY <2>1, <4>1, FS_EmptySet
    <3>2. Latest(s) \in s /\ Latest(s) \in EventRecords
      BY <1>1, <3>1, LatestIsLatest
    <3>3. Cardinality(s \ {Latest(s)}) \in Nat /\ Cardinality(s) = Cardinality(s \ {Latest(s)}) + 1
      BY <1>1, <3>2, RemoveOne
    <3>4. Cardinality(s \ {Latest(s)}) = n /\ s \ {Latest(s)} \in SUBSET S
      BY <2>1, <3>1, <3>3
    <3>5. Fold(acct, s \ {Latest(s)}) \in States
      BY <3>4
    <3>6. Fold(acct, s) = apply(Fold(acct, s \ {Latest(s)}), Latest(s))
      BY <1>1, <3>1, FoldEquation
    <3> QED
      BY <3>2, <3>5, <3>6, ApplyTyped
  <2> QED
    BY <2>1
<1>4. Sizes = Nat
  <2>1. Sizes \in SUBSET Nat
    OBVIOUS
  <2> HIDE DEF Sizes
  <2> QED
    BY <1>2, <1>3, <2>1, SetInduction
<1> QED
  BY <1>1, <1>4

\* A fold of some events is broken, or an account with the version of the last.
LEMMA FoldOfSome ==
  ASSUME NEW acct \in States, NEW S \in SUBSET EventRecords, IsFiniteSet(S), S # {}
  PROVE  \/ Fold(acct, S) = Broken
         \/ Exists(Fold(acct, S)) /\ Fold(acct, S).version = Latest(S).version
<1>1. Latest(S) \in S /\ Latest(S) \in EventRecords
  BY LatestIsLatest
<1> DEFINE R == S \ {Latest(S)}
<1>2. R \in SUBSET EventRecords /\ IsFiniteSet(R)
  BY FS_Subset
<1>3. Fold(acct, S) = apply(Fold(acct, R), Latest(S))
  BY FoldEquation
<1> HIDE DEF R
<1>4. Fold(acct, R) \in States
  BY <1>2, FoldTyped
<1> QED
  BY <1>1, <1>3, <1>4, ApplyTyped

-----------------------------------------------------------------------------
(* The event log and the requests.                                         *)

LogRecords == [acc : Accounts, event : EventRecords, prev : Nat,
               state : {"open", "committed", "aborted"}]

\* The event of a request has its version once the stream is loaded.
RequestEvents == [kind : Kinds \cup {"none"}, version : 0 .. MaxVersion, until : 0 .. Never]

RequestRecords ==
  [pc : {"idle", "admitted", "loaded", "saved", "relations"}, op : AllOps \cup {"none"},
   acc : Accounts \cup {"none"}, event : RequestEvents, acct : States, seq : Nat,
   calls : Seq(Relations)]

\* The event that a use case emits.
KindOf(op) ==
  CASE op = "create" -> "Created"
    [] op \in {"update", "detail"} -> "Updated"
    [] op = "suspend" -> "Suspended"
    [] op = "unsuspend" -> "Unsuspended"
    [] op = "ban" -> "Banned"
    [] op = "unban" -> "Unbanned"
    [] op = "deactivate" -> "Deactivated"
    [] op = "reactivate" -> "Reactivated"

Commands == AllOps \ {"follow"}

RequestOK(r) ==
  /\ r \in RequestRecords
  /\ r.pc # "idle" => r.op \in Commands /\ r.acc \in Accounts
  /\ r.pc \in {"admitted", "loaded", "saved"} => r.event.kind = KindOf(r.op)
  /\ r.pc \in {"loaded", "saved"} => r.event.version # 0
  /\ r.pc = "saved" /\ r.op = "create" => ~r.acct.deleted
  /\ r.pc = "relations" => r.calls # <<>>

\* An open row of the log belongs to one request.
SavedIsOpen ==
  /\ \A h \in Handlers : req[h].pc = "saved" =>
       req[h].seq \in DOMAIN log /\ log[req[h].seq].state = "open"
  /\ \A h, k \in Handlers :
       req[h].pc = "saved" /\ req[k].pc = "saved" /\ req[h].seq = req[k].seq => h = k

CommandsOK ==
  /\ log \in Seq(LogRecords)
  /\ rows \in [Accounts -> States]
  /\ dependents \in [Accounts -> SUBSET DependentKinds]
  /\ keto \in [Accounts -> SUBSET Relations]
  /\ req \in [Handlers -> RequestRecords]
  /\ \A h \in Handlers : RequestOK(req[h])
  /\ SavedIsOpen
  /\ now \in 0 .. MaxNow

\* What a poll has read is committed, what it has written is typed, and it
\* writes each account once.
PollRecords ==
  [pc : {"idle", "read", "folded"}, batch : SUBSET Nat, top : Nat, todo : SUBSET Accounts,
   cur : Accounts \cup {"none"}, entity : States, writes : [Accounts -> States],
   removes : [Accounts -> SUBSET DependentKinds]]

PollOK(p) ==
  /\ p \in PollRecords
  /\ p.batch \subseteq CommittedSeqs
  /\ p.top \in 0 .. Len(log)
  /\ p.pc = "idle" <=> p = IdlePoll
  /\ p.pc = "idle" <=> p.batch = {}
  /\ p.pc = "folded" => p.cur \in Accounts \ p.todo /\ Exists(p.entity)
  /\ \A a \in Accounts : Exists(p.writes[a]) =>
       /\ a \notin p.todo
       /\ p.pc = "folded" => a # p.cur

AccountInv ==
  /\ CommandsOK
  /\ checkpoint \in 0 .. Len(log)
  /\ PollOK(poll)

-----------------------------------------------------------------------------
(* What is read of the log.                                                *)

LEMMA LogTyped ==
  ASSUME CommandsOK
  PROVE  /\ Len(log) \in Nat /\ DOMAIN log = 1 .. Len(log)
         /\ \A i \in DOMAIN log :
              /\ log[i] \in LogRecords /\ log[i].acc \in Accounts
              /\ log[i].event \in EventRecords /\ log[i].prev \in Nat
              /\ log[i].state \in {"open", "committed", "aborted"}
<1>1. log \in Seq(LogRecords)
  BY DEF CommandsOK
<1>2. Len(log) \in Nat /\ DOMAIN log = 1 .. Len(log) /\ \A i \in DOMAIN log : log[i] \in LogRecords
  BY <1>1
<1>3. \A i \in DOMAIN log : /\ log[i].acc \in Accounts
                            /\ log[i].event \in EventRecords /\ log[i].prev \in Nat
                            /\ log[i].state \in {"open", "committed", "aborted"}
  BY <1>2 DEF LogRecords
<1> QED
  BY <1>2, <1>3

LEMMA EventsTyped ==
  ASSUME CommandsOK, NEW a, NEW seqs \in SUBSET DOMAIN log
  PROVE  EventsOf(a, seqs) \in SUBSET EventRecords /\ IsFiniteSet(EventsOf(a, seqs))
<1> DEFINE D == {j \in seqs : log[j].acc = a}
           f == [i \in D |-> log[i].event]
<1>1. D \in SUBSET DOMAIN log /\ \A i \in D : log[i].event \in EventRecords
  BY LogTyped
<1>2. IsFiniteSet(D)
  <2>1. IsFiniteSet(1 .. Len(log)) /\ DOMAIN log = 1 .. Len(log)
    BY LogTyped, FS_Interval
  <2> QED
    BY <1>1, <2>1, FS_Subset
<1>3. EventsOf(a, seqs) = {log[i].event : i \in D}
  BY DEF EventsOf
<1>4. f \in Surjection(D, EventsOf(a, seqs))
  BY <1>3 DEF Surjection
<1>5. IsFiniteSet(EventsOf(a, seqs))
  <2> HIDE DEF D, f
  <2> QED
    BY <1>2, <1>4, FS_Surjection
<1> QED
  BY <1>1, <1>3, <1>5

LEMMA StreamTyped ==
  ASSUME CommandsOK, NEW a
  PROVE  Stream(a) \in SUBSET EventRecords /\ IsFiniteSet(Stream(a)) /\ load(a) \in States
<1>1. CommittedSeqs \in SUBSET DOMAIN log
  BY DEF CommittedSeqs
<1>2. Stream(a) \in SUBSET EventRecords /\ IsFiniteSet(Stream(a))
  BY <1>1, EventsTyped DEF Stream
<1> QED
  BY <1>2, StatesTyped, FoldTyped DEF load, from_events

\* The versions that were handed out and are around.
UsedVersions == {log[i].event.version : i \in DOMAIN log} \cup {req[h].event.version : h \in Handlers}

LEMMA GeneratedIsNew ==
  ASSUME CommandsOK
  PROVE  generate_id \in Nat \ {0} /\ \A u \in UsedVersions : u < generate_id
<1> DEFINE U == UsedVersions \cup {0}
<1>1. U \in SUBSET (0 .. MaxVersion)
  <2>1. \A i \in DOMAIN log : log[i].event.version \in 0 .. MaxVersion
    BY LogTyped, BoundsAssumption DEF EventRecords
  <2>2. \A h \in Handlers : req[h].event.version \in 0 .. MaxVersion
    BY DEF CommandsOK, RequestRecords, RequestEvents
  <2> QED
    BY <2>1, <2>2, BoundsAssumption DEF UsedVersions
<1>2. \E v \in U : \A u \in UsedVersions : u <= v
  <2>1. PICK v \in U : \A u \in U : u <= v
    BY <1>1, BoundsAssumption, GreatestNatural
  <2> QED
    BY <2>1
<1>3. generate_id = 1 + CHOOSE v \in U : \A u \in UsedVersions : u <= v
  BY DEF generate_id, UsedVersions
<1>4. PICK v \in U : generate_id = 1 + v /\ \A u \in UsedVersions : u <= v
  BY <1>2, <1>3
<1>5. v \in Nat /\ \A u \in UsedVersions : u \in Nat
  BY <1>1, <1>4, BoundsAssumption
<1> QED
  BY <1>4, <1>5

-----------------------------------------------------------------------------
(* Steps of the requests.                                                  *)

LEMMA IdleOK == RequestOK(Idle) /\ Idle.pc = "idle" /\ Idle \in RequestRecords
<1>1. NoEvent \in RequestEvents
  BY BoundsAssumption, MaxNowAssumption DEF NoEvent, Event, RequestEvents, Never
<1>2. Idle \in RequestRecords /\ Idle.pc = "idle"
  BY <1>1, StatesTyped DEF Idle, RequestRecords
<1> QED
  BY <1>2 DEF RequestOK

\* A poll in progress is not disturbed by what is committed meanwhile.
LEMMA PollKept ==
  ASSUME PollOK(poll), poll' = poll, CommittedSeqs \subseteq CommittedSeqs',
         Len(log) \in Nat, Len(log') \in Nat, Len(log) <= Len(log')
  PROVE  PollOK(poll)'
BY DEF PollOK

LEMMA RequestMoves ==
  ASSUME AccountInv, NEW h \in Handlers, NEW next, RequestOK(next), next.pc # "saved",
         req' = [req EXCEPT ![h] = next], keto' \in [Accounts -> SUBSET Relations],
         UNCHANGED <<log, rows, dependents, now, checkpoint, poll>>
  PROVE  AccountInv'
<1>1. next \in RequestRecords
  BY DEF RequestOK
<1>2. req' \in [Handlers -> RequestRecords] /\ \A k \in Handlers : RequestOK(req'[k])
  BY <1>1 DEF AccountInv, CommandsOK
<1>3. \A k \in Handlers : req'[k].pc = "saved" => req'[k] = req[k]
  BY DEF AccountInv, CommandsOK
<1>4. SavedIsOpen'
  BY <1>3 DEF AccountInv, CommandsOK, SavedIsOpen
<1>5. CommandsOK'
  BY <1>2, <1>4 DEF AccountInv, CommandsOK
<1>6. PollOK(poll)'
  BY DEF AccountInv, PollOK, CommittedSeqs
<1> QED
  BY <1>5, <1>6 DEF AccountInv

LEMMA CaseOfCommand ==
  ASSUME NEW op \in Commands, NEW a, NEW acct
  PROVE  /\ Case(op, a, acct).kind = KindOf(op)
         /\ Case(op, a, acct).calls \in Seq(Relations)
<1> DEFINE all == <<"owner", "editor", "signer">>
<1>1. <<>> \in Seq(Relations) /\ <<"owner">> \in Seq(Relations) /\ all \in Seq(Relations)
  BY DEF Relations
<1>2. CASE op = "create"
  <2>1. Case(op, a, acct) = create_account(a, acct) /\ KindOf(op) = "Created"
    BY <1>2 DEF Case, KindOf
  <2>2. create_account(a, acct).kind = "Created" /\ create_account(a, acct).calls = <<"owner">>
    BY DEF create_account, UseCase
  <2> QED
    BY <1>1, <2>1, <2>2
<1>3. CASE op = "update"
  <2>1. Case(op, a, acct) = update_account(a, acct) /\ KindOf(op) = "Updated"
    BY <1>3 DEF Case, KindOf
  <2>2. update_account(a, acct).kind = "Updated" /\ update_account(a, acct).calls = <<>>
    BY DEF update_account, UseCase
  <2> QED
    BY <1>1, <2>1, <2>2
<1>4. CASE op = "detail"
  <2>1. Case(op, a, acct) = update_account_detail(a, acct) /\ KindOf(op) = "Updated"
    BY <1>4 DEF Case, KindOf
  <2>2. update_account_detail(a, acct).kind = "Updated" /\ update_account_detail(a, acct).calls = <<>>
    BY DEF update_account_detail, UseCase
  <2> QED
    BY <1>1, <2>1, <2>2
<1>5. CASE op = "suspend"
  <2>1. Case(op, a, acct) = suspend_account(a, acct) /\ KindOf(op) = "Suspended"
    BY <1>5 DEF Case, KindOf
  <2>2. suspend_account(a, acct).kind = "Suspended" /\ suspend_account(a, acct).calls = <<>>
    BY DEF suspend_account, UseCase
  <2> QED
    BY <1>1, <2>1, <2>2
<1>6. CASE op = "unsuspend"
  <2>1. Case(op, a, acct) = unsuspend_account(a, acct) /\ KindOf(op) = "Unsuspended"
    BY <1>6 DEF Case, KindOf
  <2>2. unsuspend_account(a, acct).kind = "Unsuspended" /\ unsuspend_account(a, acct).calls = <<>>
    BY DEF unsuspend_account, UseCase
  <2> QED
    BY <1>1, <2>1, <2>2
<1>7. CASE op = "ban"
  <2>1. Case(op, a, acct) = ban_account(a, acct) /\ KindOf(op) = "Banned"
    BY <1>7 DEF Case, KindOf
  <2>2. ban_account(a, acct).kind = "Banned" /\ ban_account(a, acct).calls = <<>>
    BY DEF ban_account, UseCase
  <2> QED
    BY <1>1, <2>1, <2>2
<1>8. CASE op = "unban"
  <2>1. Case(op, a, acct) = unban_account(a, acct) /\ KindOf(op) = "Unbanned"
    BY <1>8 DEF Case, KindOf
  <2>2. unban_account(a, acct).kind = "Unbanned" /\ unban_account(a, acct).calls = <<>>
    BY DEF unban_account, UseCase
  <2> QED
    BY <1>1, <2>1, <2>2
<1>9. CASE op = "deactivate"
  <2>1. Case(op, a, acct) = deactivate_account(a, acct) /\ KindOf(op) = "Deactivated"
    BY <1>9 DEF Case, KindOf
  <2>2. deactivate_account(a, acct).kind = "Deactivated" /\ deactivate_account(a, acct).calls = all
    BY DEF deactivate_account, UseCase
  <2> QED
    BY <1>1, <2>1, <2>2
<1>10. CASE op = "reactivate"
  <2>1. Case(op, a, acct) = reactivate_account(a, acct) /\ KindOf(op) = "Reactivated"
    BY <1>10 DEF Case, KindOf
  <2>2. reactivate_account(a, acct).kind = "Reactivated" /\ reactivate_account(a, acct).calls = all
    BY DEF reactivate_account, UseCase
  <2> QED
    BY <1>1, <2>1, <2>2
<1> QED
  BY <1>2, <1>3, <1>4, <1>5, <1>6, <1>7, <1>8, <1>9, <1>10 DEF Commands, AllOps

LEMMA KindIsKind == \A op \in Commands : KindOf(op) \in Kinds
BY DEF Commands, AllOps, KindOf, Kinds

LEMMA AdmitStep ==
  ASSUME AccountInv, NEW h \in Handlers, NEW op \in Commands, NEW a \in Accounts,
         NEW until \in 0 .. Never, Admit(h, op, a, until), UNCHANGED <<checkpoint, poll>>
  PROVE  AccountInv'
<1> DEFINE event == Event(Case(op, a, NoAccount).kind, 0, until)
           next == [Idle EXCEPT !.pc = "admitted", !.op = op, !.acc = a, !.event = event]
<1>1. req' = [req EXCEPT ![h] = next] /\ UNCHANGED <<log, rows, dependents, keto, now>>
  BY DEF Admit
<1>2. event \in RequestEvents /\ event.kind = KindOf(op)
  <2>1. event = Event(KindOf(op), 0, until) /\ KindOf(op) \in Kinds
    BY CaseOfCommand, KindIsKind
  <2> QED
    BY <2>1, BoundsAssumption DEF Event, RequestEvents
<1> HIDE DEF event
<1>3. /\ next \in RequestRecords /\ next.pc = "admitted" /\ next.op = op /\ next.acc = a
      /\ next.event = event
  BY <1>2, IdleOK DEF RequestRecords, Commands
<1> HIDE DEF next
<1>4. RequestOK(next)
  BY <1>2, <1>3 DEF RequestOK
<1> QED
  BY <1>1, <1>3, <1>4, RequestMoves DEF AccountInv, CommandsOK

LEMMA ArrivesStep ==
  ASSUME AccountInv, NEW h \in Handlers, NEW a \in Accounts, Arrives(h, a),
         UNCHANGED <<checkpoint, poll>>
  PROVE  AccountInv'
<1>1. Never \in 0 .. Never
  BY MaxNowAssumption DEF Never
<1>2. PICK op \in Commands, until \in 0 .. Never : Admit(h, op, a, until)
  BY <1>1 DEF Arrives, create_account_route, update_account_by_id, deactivate_account_by_id,
     reactivate_account_by_id, suspend_account_by_id, unsuspend_account_by_id,
     ban_account_by_id, unban_account_by_id, Commands, AllOps
<1> QED
  BY <1>2, AdmitStep

LEMMA LoadStep ==
  ASSUME AccountInv, NEW h \in Handlers, Load(h), UNCHANGED <<checkpoint, poll>>
  PROVE  AccountInv'
<1> DEFINE r == req[h]
           event == [r.event EXCEPT !.version = generate_id]
           next == [r EXCEPT !.pc = "loaded", !.event = event, !.acct = load(r.acc)]
<1>1. /\ req' = [req EXCEPT ![h] = next] /\ UNCHANGED <<log, rows, dependents, keto, now>>
      /\ r.pc = "admitted" /\ generate_id <= MaxVersion
  BY DEF Load
<1>2. r \in RequestRecords /\ RequestOK(r) /\ CommandsOK
  BY DEF AccountInv, CommandsOK
<1> HIDE DEF r
<1>3. load(r.acc) \in States /\ generate_id \in 1 .. MaxVersion
  BY <1>1, <1>2, StreamTyped, GeneratedIsNew, BoundsAssumption
<1>4. event \in RequestEvents /\ event.kind = r.event.kind /\ event.version # 0
  <2>1. r.event \in RequestEvents
    BY <1>2 DEF RequestRecords
  <2> QED
    BY <1>3, <2>1 DEF RequestEvents
<1> HIDE DEF event
<1>5. /\ next \in RequestRecords /\ next.pc = "loaded" /\ next.op = r.op /\ next.acc = r.acc
      /\ next.event = event
  BY <1>2, <1>3, <1>4 DEF RequestRecords
<1> HIDE DEF next
<1>6. RequestOK(next)
  BY <1>1, <1>2, <1>4, <1>5 DEF RequestOK
<1> QED
  BY <1>1, <1>5, <1>6, RequestMoves DEF AccountInv, CommandsOK

\* A request that ends without a trace in the log.
LEMMA RejectStep ==
  ASSUME AccountInv, NEW h \in Handlers, Reject(h) \/ Conflict(h), UNCHANGED <<checkpoint, poll>>
  PROVE  AccountInv'
<1>1. req' = [req EXCEPT ![h] = Idle] /\ UNCHANGED <<log, rows, dependents, keto, now>>
  BY DEF Reject, Conflict
<1> QED
  BY <1>1, IdleOK, RequestMoves DEF AccountInv, CommandsOK

LEMMA ChangeRelationStep ==
  ASSUME AccountInv, NEW h \in Handlers, ChangeRelation(h), UNCHANGED <<checkpoint, poll>>
  PROVE  AccountInv'
<1> DEFINE r == req[h]
           rel == Head(r.calls)
           held == IF r.op = "deactivate" THEN keto[r.acc] \ {rel} ELSE keto[r.acc] \cup {rel}
           next == IF Tail(r.calls) = <<>> THEN Idle ELSE [r EXCEPT !.calls = Tail(@)]
<1>1. /\ keto' = [keto EXCEPT ![r.acc] = held] /\ req' = [req EXCEPT ![h] = next]
      /\ UNCHANGED <<log, rows, dependents, now>> /\ r.pc = "relations"
  BY DEF ChangeRelation
<1>2. /\ r \in RequestRecords /\ RequestOK(r) /\ r.acc \in Accounts /\ r.calls # <<>>
      /\ keto \in [Accounts -> SUBSET Relations]
  BY <1>1 DEF AccountInv, CommandsOK, RequestOK
<1> HIDE DEF r
<1>3. rel \in Relations /\ Tail(r.calls) \in Seq(Relations)
  <2>1. r.calls \in Seq(Relations)
    BY <1>2 DEF RequestRecords
  <2> QED
    BY <1>2, <2>1
<1>4. keto' \in [Accounts -> SUBSET Relations]
  <2>1. held \in SUBSET Relations
    BY <1>2, <1>3
  <2> HIDE DEF held
  <2> QED
    BY <1>1, <1>2, <2>1
<1>5. RequestOK(next) /\ next.pc # "saved"
  <2>1. CASE Tail(r.calls) = <<>>
    BY <2>1, IdleOK
  <2>2. CASE Tail(r.calls) # <<>>
    <3> DEFINE other == [r EXCEPT !.calls = Tail(@)]
    <3>1. /\ other \in RequestRecords /\ other.pc = "relations" /\ other.op = r.op
          /\ other.acc = r.acc /\ other.calls = Tail(r.calls)
      BY <1>1, <1>2, <1>3 DEF RequestRecords
    <3> HIDE DEF other
    <3>2. RequestOK(other)
      BY <1>1, <1>2, <2>2, <3>1 DEF RequestOK
    <3> QED
      BY <2>2, <3>1, <3>2 DEF other
  <2> QED
    BY <2>1, <2>2
<1> HIDE DEF next
<1> QED
  BY <1>1, <1>4, <1>5, RequestMoves

LEMMA EventComplete ==
  ASSUME NEW r, RequestOK(r), r.pc \in {"loaded", "saved"}
  PROVE  r.event \in EventRecords
<1>1. r.event \in RequestEvents /\ r.event.version # 0 /\ r.event.kind \in Kinds
  BY KindIsKind DEF RequestOK, RequestRecords
<1> QED
  BY <1>1, BoundsAssumption DEF RequestEvents, EventRecords

LEMMA SaveStep ==
  ASSUME AccountInv, NEW h \in Handlers, Save(h), UNCHANGED <<checkpoint, poll>>
  PROVE  AccountInv'
<1> DEFINE r == req[h]
           state == IF r.op = "update" THEN "committed" ELSE "open"
           row == [acc |-> r.acc, event |-> r.event, prev |-> r.acct.version, state |-> state]
           saved == [r EXCEPT !.pc = "saved", !.seq = Len(log) + 1, !.acct = apply(r.acct, r.event)]
           next == IF r.op = "update" THEN Idle ELSE saved
<1>1. /\ log' = Append(log, row) /\ req' = [req EXCEPT ![h] = next]
      /\ UNCHANGED <<rows, dependents, keto, now>> /\ r.pc = "loaded"
  BY DEF Save
<1>2. r \in RequestRecords /\ RequestOK(r) /\ CommandsOK
  BY DEF AccountInv, CommandsOK
<1> HIDE DEF r
<1>3. r.event \in EventRecords /\ r.acct \in States /\ r.acc \in Accounts /\ r.op \in Commands
  BY <1>1, <1>2, EventComplete DEF RequestOK, RequestRecords
<1>4. state \in {"committed", "open"} /\ row \in LogRecords /\ row.state = state
  BY <1>3 DEF LogRecords, States
<1>5. Len(log) \in Nat /\ DOMAIN log = 1 .. Len(log) /\ log \in Seq(LogRecords)
  BY <1>2, LogTyped DEF CommandsOK
<1> HIDE DEF state, row
<1>6. /\ log' \in Seq(LogRecords) /\ Len(log') = Len(log) + 1 /\ log'[Len(log) + 1] = row
      /\ DOMAIN log' = 1 .. (Len(log) + 1) /\ \A i \in DOMAIN log : log'[i] = log[i]
  BY <1>1, <1>4, <1>5
<1>7. RequestOK(next) /\ (next.pc = "saved" => next.seq = Len(log) + 1 /\ r.op # "update")
  <2>1. CASE r.op = "update"
    BY <2>1, IdleOK
  <2>2. CASE r.op # "update"
    <3>1. apply(r.acct, r.event) \in States
      BY <1>3, ApplyTyped
    <3>2. saved \in RequestRecords
      <4>1. Len(log) + 1 \in Nat
        BY <1>5
      <4> QED
        BY <1>2, <3>1, <4>1 DEF RequestRecords
    <3>3. /\ saved.pc = "saved" /\ saved.op = r.op /\ saved.acc = r.acc /\ saved.event = r.event
          /\ saved.seq = Len(log) + 1 /\ saved.acct = apply(r.acct, r.event)
      BY <1>2 DEF RequestRecords
    <3>4. r.op = "create" => ~apply(r.acct, r.event).deleted
      <4>1. r.op = "create" => r.event.kind = "Created"
        BY <1>1, <1>2 DEF RequestOK, KindOf
      <4> QED
        BY <4>1 DEF apply, AccountState, Broken, DeletedAfter
    <3> HIDE DEF saved
    <3>5. RequestOK(saved)
      BY <1>1, <1>2, <3>2, <3>3, <3>4 DEF RequestOK
    <3> QED
      BY <2>2, <3>3, <3>5
  <2> QED
    BY <2>1, <2>2
<1> HIDE DEF next
<1>8. req' \in [Handlers -> RequestRecords] /\ \A k \in Handlers : RequestOK(req'[k])
  BY <1>1, <1>2, <1>7 DEF CommandsOK, RequestOK
<1>9. SavedIsOpen'
  <2>1. \A k \in Handlers : k # h => req'[k] = req[k]
    BY <1>1, <1>2 DEF CommandsOK
  <2>2. req'[h] = next
    BY <1>1, <1>2 DEF CommandsOK
  <2>3. next.pc = "saved" => log'[next.seq].state = "open" /\ next.seq \in DOMAIN log'
    BY <1>4, <1>5, <1>6, <1>7 DEF state
  <2>4. next.pc = "saved" => next.seq \notin DOMAIN log
    BY <1>5, <1>7
  <2>5. \A k \in Handlers : req'[k].pc = "saved" =>
          req'[k].seq \in DOMAIN log' /\ log'[req'[k].seq].state = "open"
    BY <1>2, <1>5, <1>6, <2>1, <2>2, <2>3 DEF CommandsOK, SavedIsOpen
  <2>6. \A k, l \in Handlers :
          req'[k].pc = "saved" /\ req'[l].pc = "saved" /\ req'[k].seq = req'[l].seq => k = l
    BY <1>2, <2>1, <2>2, <2>4 DEF CommandsOK, SavedIsOpen
  <2> QED
    BY <2>5, <2>6 DEF SavedIsOpen
<1>10. CommandsOK'
  BY <1>1, <1>2, <1>6, <1>8, <1>9 DEF CommandsOK
<1>11. CommittedSeqs \subseteq CommittedSeqs' /\ Len(log) <= Len(log') /\ Len(log') \in Nat
  BY <1>5, <1>6 DEF CommittedSeqs
<1>12. PollOK(poll)'
  BY <1>1, <1>5, <1>11, PollKept DEF AccountInv
<1> QED
  BY <1>1, <1>5, <1>6, <1>10, <1>12 DEF AccountInv

\* The transaction of a request ends, one way or the other.
LEMMA LogMarked ==
  ASSUME CommandsOK, NEW s \in DOMAIN log, log[s].state = "open",
         NEW st \in {"committed", "aborted"}, log' = [log EXCEPT ![s].state = st]
  PROVE  /\ log' \in Seq(LogRecords) /\ Len(log') = Len(log) /\ Len(log) \in Nat
         /\ DOMAIN log' = DOMAIN log
         /\ \A i \in DOMAIN log : i # s => log'[i] = log[i]
         /\ log'[s] = [log[s] EXCEPT !.state = st]
         /\ CommittedSeqs \subseteq CommittedSeqs'
<1> DEFINE row == [log[s] EXCEPT !.state = st]
<1>1. log \in Seq(LogRecords) /\ DOMAIN log = 1 .. Len(log) /\ Len(log) \in Nat
  BY LogTyped DEF CommandsOK
<1>2. row \in LogRecords
  <2>1. log[s] \in LogRecords
    BY LogTyped
  <2> QED
    BY <2>1 DEF LogRecords
<1>3. log' = [log EXCEPT ![s] = row]
  OBVIOUS
<1> HIDE DEF row
<1>4. /\ log' \in Seq(LogRecords) /\ Len(log') = Len(log) /\ DOMAIN log' = DOMAIN log
      /\ log'[s] = row /\ \A i \in DOMAIN log : i # s => log'[i] = log[i]
  BY <1>1, <1>2, <1>3
<1>5. CommittedSeqs \subseteq CommittedSeqs'
  BY <1>4 DEF CommittedSeqs
<1> QED
  BY <1>1, <1>4, <1>5 DEF row

LEMMA TransactionEnds ==
  ASSUME AccountInv, NEW h \in Handlers, req[h].pc = "saved",
         NEW st \in {"committed", "aborted"}, log' = [log EXCEPT ![req[h].seq].state = st],
         NEW next, RequestOK(next), next.pc # "saved", req' = [req EXCEPT ![h] = next],
         rows' \in [Accounts -> States], dependents' \in [Accounts -> SUBSET DependentKinds],
         UNCHANGED <<keto, now, checkpoint, poll>>
  PROVE  AccountInv'
<1>1. CommandsOK /\ req[h].seq \in DOMAIN log /\ log[req[h].seq].state = "open"
  BY DEF AccountInv, CommandsOK, SavedIsOpen
<1>2. /\ log' \in Seq(LogRecords) /\ Len(log') = Len(log) /\ Len(log) \in Nat
      /\ DOMAIN log' = DOMAIN log
      /\ \A i \in DOMAIN log : i # req[h].seq => log'[i] = log[i]
      /\ CommittedSeqs \subseteq CommittedSeqs'
  BY <1>1, LogMarked
<1>3. req' \in [Handlers -> RequestRecords] /\ \A k \in Handlers : RequestOK(req'[k])
  BY <1>1 DEF CommandsOK, RequestOK
<1>4. SavedIsOpen'
  <2>1. \A k \in Handlers : req'[k].pc = "saved" => k # h /\ req'[k] = req[k]
    BY <1>1 DEF CommandsOK
  <2> QED
    BY <1>1, <1>2, <2>1 DEF CommandsOK, SavedIsOpen
<1>5. CommandsOK'
  BY <1>1, <1>2, <1>3, <1>4 DEF CommandsOK
<1>6. PollOK(poll)'
  BY <1>2, PollKept DEF AccountInv
<1> QED
  BY <1>2, <1>5, <1>6 DEF AccountInv

LEMMA CommitStep ==
  ASSUME AccountInv, NEW h \in Handlers, NEW fields \in SUBSET {"metadata"},
         CommitTx(h, fields), ~RowLocked(h), UNCHANGED <<checkpoint, poll>>
  PROVE  AccountInv'
<1> DEFINE r == req[h]
           calls == Case(r.op, r.acc, r.acct).calls
           after == DependentsAfter(r, fields)
           told == [Idle EXCEPT !.pc = "relations", !.op = r.op, !.acc = r.acc, !.calls = calls]
           next == IF calls = <<>> THEN Idle ELSE told
<1>1. /\ r.pc = "saved" /\ ReadsBack(r)
      /\ dependents' = [dependents EXCEPT ![r.acc] = after]
      /\ log' = [log EXCEPT ![r.seq].state = "committed"]
      /\ rows' = IF WritesRow(r.op) THEN [rows EXCEPT ![r.acc] = r.acct] ELSE rows
      /\ req' = [req EXCEPT ![h] = next]
      /\ UNCHANGED <<keto, now>>
  BY DEF CommitTx
<1>2. /\ r \in RequestRecords /\ RequestOK(r) /\ r.acc \in Accounts /\ r.acct \in States
      /\ r.op \in Commands /\ rows \in [Accounts -> States]
      /\ dependents \in [Accounts -> SUBSET DependentKinds]
  BY <1>1 DEF AccountInv, CommandsOK, RequestOK, RequestRecords
<1>3. calls \in Seq(Relations)
  BY <1>2, CaseOfCommand
<1>4. RequestOK(next) /\ next.pc # "saved"
  <2>1. CASE calls = <<>>
    BY <2>1, IdleOK
  <2>2. CASE calls # <<>>
    <3> HIDE DEF calls, r
    <3>1. /\ told \in RequestRecords /\ told.pc = "relations" /\ told.op = r.op /\ told.acc = r.acc
          /\ told.calls = calls
      BY <1>2, <1>3, IdleOK DEF RequestRecords, Commands
    <3> HIDE DEF told
    <3>2. RequestOK(told)
      BY <1>2, <2>2, <3>1 DEF RequestOK
    <3> QED
      BY <2>2, <3>1, <3>2
  <2> QED
    BY <2>1, <2>2
<1> HIDE DEF next
<1>5. after \in SUBSET DependentKinds
  <2>1. CASE r.op = "create"
    BY <2>1 DEF DependentsAfter, DependentKinds
  <2>2. CASE r.op = "detail"
    BY <1>2, <2>2 DEF DependentsAfter, DependentKinds
  <2>3. CASE r.op \notin {"create", "detail"}
    BY <1>2, <2>3 DEF DependentsAfter
  <2> QED
    BY <2>1, <2>2, <2>3
<1> HIDE DEF after, r
<1>6. rows' \in [Accounts -> States]
  BY <1>1, <1>2
<1>7. dependents' \in [Accounts -> SUBSET DependentKinds]
  BY <1>1, <1>2, <1>5
<1> QED
  BY <1>1, <1>4, <1>6, <1>7, TransactionEnds DEF r

\* A rolled back transaction leaves the tables as they were.
LEMMA RollbackStep ==
  ASSUME AccountInv, NEW h \in Handlers, DetailNotFound(h) \/ Fail(h),
         UNCHANGED <<checkpoint, poll>>
  PROVE  AccountInv'
<1>1. req' = [req EXCEPT ![h] = Idle] /\ UNCHANGED <<rows, dependents, keto, now>>
  BY DEF DetailNotFound, Fail
<1>2. CASE req[h].pc = "saved"
  <2>1. log' = [log EXCEPT ![req[h].seq].state = "aborted"]
    BY <1>2 DEF DetailNotFound, Fail
  <2> QED
    BY <1>1, <1>2, <2>1, IdleOK, TransactionEnds DEF AccountInv, CommandsOK
<1>3. CASE req[h].pc # "saved"
  <2>1. UNCHANGED log
    BY <1>3 DEF DetailNotFound, Fail
  <2> QED
    BY <1>1, <2>1, IdleOK, RequestMoves DEF AccountInv, CommandsOK
<1> QED
  BY <1>2, <1>3

LEMMA TickStep ==
  ASSUME AccountInv, Tick, UNCHANGED <<checkpoint, poll>>
  PROVE  AccountInv'
<1>1. now' \in 0 .. MaxNow /\ UNCHANGED <<log, rows, dependents, keto, req>>
  BY MaxNowAssumption DEF Tick, AccountInv, CommandsOK
<1>2. CommandsOK'
  BY <1>1 DEF AccountInv, CommandsOK, SavedIsOpen
<1>3. PollOK(poll)'
  BY <1>1 DEF AccountInv, PollOK, CommittedSeqs
<1> QED
  BY <1>1, <1>2, <1>3 DEF AccountInv

\* Rows in other tables change.
LEMMA OtherRowsStep ==
  ASSUME AccountInv, NEW a \in Accounts,
         \/ FollowChanges(a) /\ UNCHANGED <<checkpoint, poll>>
         \/ ProjectProfile(a)
  PROVE  AccountInv'
<1>1. PICK after \in {dependents[a] \cup {"follow"}, dependents[a] \ {"follow"},
                     dependents[a] \cup {"profile"}} :
        /\ dependents' = [dependents EXCEPT ![a] = after]
        /\ UNCHANGED <<log, rows, keto, req, now, checkpoint, poll>>
  BY DEF FollowChanges, ProjectProfile
<1>2. dependents \in [Accounts -> SUBSET DependentKinds]
  BY DEF AccountInv, CommandsOK
<1>3. after \in SUBSET DependentKinds
  BY <1>1, <1>2 DEF DependentKinds
<1>4. dependents' \in [Accounts -> SUBSET DependentKinds]
  BY <1>1, <1>2, <1>3
<1>5. CommandsOK'
  BY <1>1, <1>4 DEF AccountInv, CommandsOK, SavedIsOpen
<1>6. PollOK(poll)'
  BY <1>1 DEF AccountInv, PollOK, CommittedSeqs
<1> QED
  BY <1>1, <1>5, <1>6 DEF AccountInv

-----------------------------------------------------------------------------
(* Steps of a poll.                                                        *)

LEMMA PollMoves ==
  ASSUME AccountInv, PollOK(poll'), keto' \in [Accounts -> SUBSET Relations],
         UNCHANGED <<log, rows, dependents, req, now, checkpoint>>
  PROVE  AccountInv'
<1>1. CommandsOK'
  BY DEF AccountInv, CommandsOK, SavedIsOpen
<1>2. PollOK(poll)'
  BY DEF PollOK, CommittedSeqs
<1> QED
  BY <1>1, <1>2 DEF AccountInv

LEMMA IdlePollFields ==
  /\ IdlePoll \in PollRecords /\ IdlePoll.pc = "idle" /\ IdlePoll.batch = {} /\ IdlePoll.top = 0
  /\ \A a \in Accounts : IdlePoll.writes[a] = NoAccount
  /\ ~Exists(NoAccount)
<1>1. ~Exists(NoAccount)
  BY DEF Exists, NoAccount, AccountState
<1> QED
  BY <1>1, StatesTyped DEF IdlePoll, PollRecords

LEMMA IdlePollOK == ASSUME CommandsOK PROVE PollOK(IdlePoll)
BY LogTyped, IdlePollFields DEF PollOK

LEMMA WindowIsCommitted ==
  \A from, limit : find_by_seq_window(from, limit) \subseteq CommittedSeqs
BY DEF find_by_seq_window, Lowest

LEMMA PollReadStep ==
  ASSUME AccountInv, PollRead
  PROVE  AccountInv'
<1> DEFINE events == find_by_seq_window(checkpoint - Window, BatchLimit)
           todo == {log[s].acc : s \in events}
<1>1. PICK top \in events :
        /\ poll' = [IdlePoll EXCEPT !.pc = "read", !.batch = events, !.top = top, !.todo = todo]
        /\ UNCHANGED <<log, rows, dependents, keto, req, now, checkpoint>>
  BY DEF PollRead, commandVars
<1>2. CommandsOK /\ keto \in [Accounts -> SUBSET Relations]
  BY DEF AccountInv, CommandsOK
<1>3. events \subseteq CommittedSeqs
  BY WindowIsCommitted
<1>4. \A s \in CommittedSeqs : s \in 1 .. Len(log) /\ log[s].acc \in Accounts
  BY <1>2, LogTyped DEF CommittedSeqs
<1>5. Len(log) \in Nat
  BY <1>2, LogTyped
<1>6. events \in SUBSET Nat /\ top \in 0 .. Len(log) /\ top \in Nat /\ todo \in SUBSET Accounts
  BY <1>1, <1>3, <1>4, <1>5
<1>7. IdlePoll \in PollRecords /\ \A a \in Accounts : IdlePoll.writes[a] = NoAccount
  BY StatesTyped DEF IdlePoll, PollRecords
<1> HIDE DEF todo, events
<1>8. /\ poll' \in PollRecords /\ poll'.pc = "read" /\ poll'.batch = events /\ poll'.top = top
      /\ poll'.writes = IdlePoll.writes
  BY <1>1, <1>6, <1>7 DEF PollRecords
<1>9. ~Exists(NoAccount) /\ IdlePoll.pc = "idle"
  BY DEF Exists, NoAccount, AccountState, IdlePoll
<1>10. PollOK(poll')
  BY <1>1, <1>3, <1>6, <1>7, <1>8, <1>9 DEF PollOK
<1> QED
  BY <1>1, <1>2, <1>10, PollMoves

LEMMA ExistingTyped ==
  ASSUME CommandsOK, NEW a \in Accounts
  PROVE  Existing(a) \in States /\ (Existing(a) = NoAccount \/ Exists(Existing(a)))
<1>1. rows[a] \in States
  BY DEF CommandsOK
<1>2. CASE Expired(rows[a], now)
  <2> DEFINE row == [rows[a] EXCEPT !.status = "active", !.until = Never]
  <2>1. row \in States /\ row.status = "active"
    <3>1. Never \in 0 .. Never
      BY MaxNowAssumption DEF Never
    <3> QED
      BY <1>1, <3>1 DEF States
  <2>2. Existing(a) = NoAccount \/ Existing(a) = row
    BY <1>2 DEF Existing, account_from_row
  <2> HIDE DEF row
  <2> QED
    BY <2>1, <2>2, StatesTyped DEF Exists
<1>3. CASE ~Expired(rows[a], now)
  BY <1>1, <1>3, StatesTyped DEF Existing, account_from_row
<1> QED
  BY <1>2, <1>3

LEMMA PendingTyped ==
  ASSUME AccountInv, NEW a \in Accounts
  PROVE  /\ Envelopes(a) \in SUBSET EventRecords /\ IsFiniteSet(Envelopes(a))
         /\ Pending(a) \in SUBSET EventRecords /\ IsFiniteSet(Pending(a))
<1>1. CommandsOK /\ poll.batch \in SUBSET DOMAIN log
  BY DEF AccountInv, PollOK, CommittedSeqs
<1>2. Envelopes(a) \in SUBSET EventRecords /\ IsFiniteSet(Envelopes(a))
  BY <1>1, EventsTyped DEF Envelopes
<1>3. Pending(a) \in SUBSET Envelopes(a)
  BY DEF Pending
<1> QED
  BY <1>2, <1>3, FS_Subset

\* What is not skipped folds into an account.
LEMMA FoldedExists ==
  ASSUME AccountInv, NEW a \in Accounts, ~Skips(a)
  PROVE  FoldsInto(a) \in States /\ Exists(FoldsInto(a))
<1>1. Existing(a) \in States /\ (Existing(a) = NoAccount \/ Exists(Existing(a)))
  BY ExistingTyped DEF AccountInv
<1>2. FoldsInto(a) \in States
  BY <1>1, PendingTyped, FoldTyped DEF FoldsInto
<1>3. FoldsInto(a).status # "broken"
  BY DEF Skips
<1>4. CASE Pending(a) # {}
  <2>1. FoldsInto(a) = Broken \/ Exists(FoldsInto(a))
    BY <1>1, <1>4, PendingTyped, FoldOfSome DEF FoldsInto
  <2>2. Broken.status = "broken"
    BY DEF Broken, AccountState
  <2> QED
    BY <1>2, <1>3, <2>1, <2>2
<1>5. CASE Pending(a) = {}
  <2>1. PICK e \in Envelopes(a) : e.kind = "Created"
    BY <1>5 DEF Skips, CreatedInWindow
  <2>2. e.version \in Nat /\ e.version # 0
    BY <2>1, PendingTyped, BoundsAssumption DEF EventRecords
  <2>3. ~(e.version > Existing(a).version)
    BY <1>5, <2>1 DEF Pending
  <2>4. Existing(a) # NoAccount
    BY <2>2, <2>3 DEF NoAccount, AccountState
  <2>5. FoldsInto(a) = Existing(a)
    BY <1>5, PendingTyped, FoldEquation DEF FoldsInto
  <2> QED
    BY <1>1, <1>2, <2>4, <2>5
<1> QED
  BY <1>2, <1>4, <1>5

LEMMA PollFoldStep ==
  ASSUME AccountInv, NEW a \in Accounts, PollFold(a)
  PROVE  AccountInv'
<1>1. /\ poll.pc = "read" /\ a \in poll.todo
      /\ UNCHANGED <<log, rows, dependents, keto, req, now, checkpoint>>
  BY DEF PollFold, commandVars
<1>2. /\ poll \in PollRecords /\ PollOK(poll) /\ poll # IdlePoll
      /\ keto \in [Accounts -> SUBSET Relations]
  BY <1>1 DEF AccountInv, CommandsOK, PollOK, IdlePoll
<1>3. ~Exists(poll.writes[a])
  BY <1>1, <1>2 DEF PollOK
<1>4. CASE Skips(a)
  <2>1. poll' = [poll EXCEPT !.todo = @ \ {a}]
    BY <1>4 DEF PollFold
  <2>2. /\ poll' \in PollRecords /\ poll'.pc = "read" /\ poll'.todo = poll.todo \ {a}
        /\ poll'.batch = poll.batch /\ poll'.top = poll.top /\ poll'.writes = poll.writes
        /\ poll'.removes = poll.removes
    BY <1>1, <1>2, <2>1 DEF PollRecords
  <2>3. PollOK(poll')
    BY <1>1, <1>2, <2>2 DEF PollOK, IdlePoll
  <2> QED
    BY <1>1, <1>2, <2>3, PollMoves
<1>5. CASE ~Skips(a)
  <2> DEFINE entity == FoldsInto(a)
  <2>1. poll' = [poll EXCEPT !.pc = "folded", !.cur = a, !.todo = @ \ {a}, !.entity = entity]
    BY <1>5 DEF PollFold
  <2>2. entity \in States /\ Exists(entity)
    BY <1>5, FoldedExists
  <2> HIDE DEF entity
  <2>3. poll' \in PollRecords
    BY <1>2, <2>1, <2>2 DEF PollRecords
  <2>4. /\ poll'.pc = "folded" /\ poll'.todo = poll.todo \ {a} /\ poll'.cur = a
        /\ poll'.entity = entity /\ poll'.batch = poll.batch /\ poll'.top = poll.top
        /\ poll'.writes = poll.writes /\ poll'.removes = poll.removes
    BY <1>2, <2>1 DEF PollRecords
  <2>5. PollOK(poll')
    BY <1>1, <1>2, <1>3, <2>2, <2>3, <2>4 DEF PollOK, IdlePoll
  <2> QED
    BY <1>1, <1>2, <2>5, PollMoves
<1> QED
  BY <1>4, <1>5

\* What a write changes of the poll, whether the savepoint holds or not.
LEMMA WrittenOK ==
  ASSUME AccountInv, poll.pc = "folded", NEW next, next \in PollRecords, next.pc = "read",
         next.batch = poll.batch, next.top = poll.top, next.todo = poll.todo,
         \A a \in Accounts \ {poll.cur} : next.writes[a] = poll.writes[a]
  PROVE  PollOK(next)
<1>1. PollOK(poll) /\ poll.cur \in Accounts \ poll.todo /\ poll # IdlePoll
  BY DEF AccountInv, PollOK, IdlePoll
<1>2. ASSUME NEW a \in Accounts, Exists(next.writes[a])
      PROVE  a \notin next.todo
  <2>1. CASE a = poll.cur
    BY <1>1, <1>2, <2>1
  <2>2. CASE a # poll.cur
    BY <1>1, <1>2, <2>2 DEF PollOK
  <2> QED
    BY <2>1, <2>2
<1>3. IdlePoll.pc = "idle"
  BY DEF IdlePoll
<1>4. next # IdlePoll /\ next.batch # {}
  BY <1>1, <1>3 DEF PollOK
<1> QED
  BY <1>1, <1>2, <1>4 DEF PollOK

LEMMA PollWriteStep ==
  ASSUME AccountInv, NEW granted \in BOOLEAN, PollWrite(granted)
  PROVE  AccountInv'
<1> DEFINE cur == poll.cur
           written == IF Upserts(rows[cur], poll.entity) THEN poll.entity ELSE poll.writes[cur]
           removed == Cascade
           writes == [poll.writes EXCEPT ![cur] = written]
           removes == [poll.removes EXCEPT ![cur] = removed]
<1>1. poll.pc = "folded" /\ UNCHANGED <<log, rows, dependents, req, now, checkpoint>>
  BY DEF PollWrite
<1>2. /\ poll \in PollRecords /\ PollOK(poll) /\ cur \in Accounts /\ Exists(poll.entity)
      /\ ~Exists(poll.writes[cur]) /\ poll.entity \in States
      /\ poll.writes \in [Accounts -> States]
      /\ poll.removes \in [Accounts -> SUBSET DependentKinds]
      /\ dependents \in [Accounts -> SUBSET DependentKinds]
  BY <1>1 DEF AccountInv, CommandsOK, PollOK, PollRecords
<1>3. poll' = [poll EXCEPT !.pc = "read", !.cur = "none", !.entity = NoAccount,
                           !.writes = writes, !.removes = removes]
  BY <1>2 DEF PollWrite, Written, PollRecords
<1>4. written \in States /\ removed \in SUBSET DependentKinds
  BY <1>2 DEF Cascade
<1> HIDE DEF written, removed, cur
<1>6. /\ writes \in [Accounts -> States] /\ removes \in [Accounts -> SUBSET DependentKinds]
      /\ \A a \in Accounts \ {cur} : writes[a] = poll.writes[a]
  BY <1>2, <1>4
<1> HIDE DEF writes, removes
<1>7. poll' \in PollRecords
  BY <1>2, <1>3, <1>6, StatesTyped DEF PollRecords
<1>8. /\ poll'.pc = "read" /\ poll'.batch = poll.batch /\ poll'.top = poll.top
      /\ poll'.todo = poll.todo /\ poll'.writes = writes
  BY <1>2, <1>3 DEF PollRecords
<1>9. \A a \in Accounts \ {poll.cur} : poll'.writes[a] = poll.writes[a]
  BY <1>6, <1>8 DEF cur
<1>11. PollOK(poll')
  BY <1>1, <1>7, <1>8, <1>9, WrittenOK
<1>12. keto' \in [Accounts -> SUBSET Relations]
  BY <1>2 DEF PollWrite, AccountInv, CommandsOK, Relations, cur
<1> QED
  BY <1>1, <1>11, <1>12, PollMoves

LEMMA PollEndStep ==
  ASSUME AccountInv, PollWriteFails \/ PollAbort
  PROVE  AccountInv'
<1>1. /\ UNCHANGED <<log, rows, dependents, keto, req, now, checkpoint>>
      /\ poll \in PollRecords /\ keto \in [Accounts -> SUBSET Relations] /\ CommandsOK
  BY DEF PollWriteFails, PollAbort, commandVars, AccountInv, PollOK, CommandsOK
<1>2. CASE PollAbort
  BY <1>1, <1>2, IdlePollOK, PollMoves DEF PollAbort
<1>3. CASE PollWriteFails
  <2>1. /\ poll.pc = "folded"
        /\ poll' = [poll EXCEPT !.pc = "read", !.cur = "none", !.entity = NoAccount]
    BY <1>3 DEF PollWriteFails, Written
  <2>2. poll' \in PollRecords
    BY <1>1, <2>1, StatesTyped DEF PollRecords
  <2>3. /\ poll'.pc = "read" /\ poll'.batch = poll.batch /\ poll'.top = poll.top
        /\ poll'.todo = poll.todo /\ poll'.writes = poll.writes
    BY <1>1, <2>1 DEF PollRecords
  <2>4. PollOK(poll')
    BY <2>1, <2>2, <2>3, WrittenOK
  <2> QED
    BY <1>1, <2>4, PollMoves
<1> QED
  BY <1>2, <1>3

\* What the poll has written and removed is committed at once.
LEMMA PollCommitStep ==
  ASSUME AccountInv, PollCommit
  PROVE  AccountInv'
<1>1. /\ rows' = [a \in Accounts |-> IF Exists(poll.writes[a]) THEN poll.writes[a] ELSE rows[a]]
      /\ dependents' = [a \in Accounts |-> dependents[a] \ poll.removes[a]]
      /\ checkpoint' = Greatest(checkpoint, poll.top) /\ poll' = IdlePoll
      /\ UNCHANGED <<log, keto, req, now>>
  BY DEF PollCommit
<1>2. /\ poll.writes \in [Accounts -> States] /\ rows \in [Accounts -> States]
      /\ dependents \in [Accounts -> SUBSET DependentKinds]
  BY DEF AccountInv, CommandsOK, PollOK, PollRecords
<1>3. rows' \in [Accounts -> States]
  BY <1>1, <1>2
<1>4. dependents' \in [Accounts -> SUBSET DependentKinds]
  BY <1>1, <1>2
<1>5. CommandsOK'
  BY <1>1, <1>3, <1>4 DEF AccountInv, CommandsOK, SavedIsOpen
<1>6. PollOK(poll)'
  <2>1. Len(log) \in Nat
    BY LogTyped DEF AccountInv
  <2> QED
    BY <1>1, <2>1, IdlePollFields DEF PollOK
<1>7. checkpoint' \in 0 .. Len(log')
  BY <1>1 DEF AccountInv, PollOK, Greatest
<1> QED
  BY <1>5, <1>6, <1>7 DEF AccountInv

-----------------------------------------------------------------------------
(* The invariant of the accounts.                                          *)

LEMMA AccountInvInit == ProjectionInit => AccountInv
<1> SUFFICES ASSUME ProjectionInit PROVE AccountInv
  OBVIOUS
<1>1. log = <<>> /\ Len(log) = 0 /\ DOMAIN log = {}
  BY DEF ProjectionInit, Init
<1>2. CommandsOK
  <2>1. log \in Seq(LogRecords)
    BY <1>1
  <2>2. req \in [Handlers -> RequestRecords] /\ \A h \in Handlers : req[h] = Idle
    BY IdleOK DEF ProjectionInit, Init
  <2>3. SavedIsOpen
    BY <2>2, IdleOK DEF SavedIsOpen
  <2> QED
    BY <2>1, <2>2, <2>3, IdleOK, StatesTyped, MaxNowAssumption
    DEF ProjectionInit, Init, CommandsOK
<1> QED
  BY <1>1, <1>2, IdlePollOK DEF ProjectionInit, AccountInv

LEMMA RequestStep ==
  ASSUME AccountInv, NEW h \in Handlers, Request(h)
  PROVE  AccountInv'
BY ArrivesStep, LoadStep, RejectStep, SaveStep, CommitStep, RollbackStep, ChangeRelationStep
DEF Request

LEMMA AccountUnchanged == ASSUME AccountInv, UNCHANGED vars PROVE AccountInv'
<1>1. CommandsOK'
  BY DEF vars, AccountInv, CommandsOK, SavedIsOpen
<1>2. PollOK(poll)'
  BY DEF vars, AccountInv, PollOK, CommittedSeqs
<1> QED
  BY <1>1, <1>2 DEF vars, AccountInv

LEMMA AccountInvStep == AccountInv /\ [Next]_vars => AccountInv'
<1> SUFFICES ASSUME AccountInv, [Next]_vars PROVE AccountInv'
  OBVIOUS
<1>1. CASE UNCHANGED vars
  BY <1>1, AccountUnchanged
<1>2. CASE PollStep
  <2>1. CASE PollEmpty
    BY <2>1, AccountUnchanged DEF PollEmpty
  <2> QED
    BY <1>2, <2>1, PollReadStep, PollFoldStep, PollWriteStep, PollEndStep DEF PollStep
<1>3. CASE (Tick \/ \E a \in Accounts : FollowChanges(a)) /\ UNCHANGED <<checkpoint, poll>>
  BY <1>3, TickStep, OtherRowsStep
<1> QED
  BY <1>1, <1>2, <1>3, RequestStep, OtherRowsStep, PollCommitStep DEF Next

LEMMA AccountInvHolds == Spec => []AccountInv
BY AccountInvInit, AccountInvStep, PTL DEF Spec

\* Types of the event log, the read model, the requests and the poll; among them
\* that an uncommitted row of the log belongs to its request, that a poll holds
\* committed events only and that what it writes is an account.
THEOREM AccountTypeCorrect == Spec => []TypeOK
<1>1. AccountInv => TypeOK
  <2> SUFFICES ASSUME AccountInv PROVE TypeOK
    OBVIOUS
  <2>1. CommandsOK
    BY DEF AccountInv
  <2>2. \A i \in DOMAIN log :
          /\ log[i].acc \in Accounts
          /\ log[i].event.kind \in Kinds
          /\ log[i].event.version \in Nat \ {0}
          /\ log[i].state \in {"open", "committed", "aborted"}
    BY <2>1, LogTyped, BoundsAssumption DEF EventRecords
  <2>3. \A h \in Handlers :
          /\ req[h].pc \in {"idle", "admitted", "loaded", "saved", "relations"}
          /\ req[h].pc = "saved" => log[req[h].seq].state = "open"
    BY <2>1 DEF CommandsOK, SavedIsOpen, RequestRecords
  <2> QED
    BY <2>1, <2>2, <2>3 DEF AccountInv, CommandsOK, PollOK, TypeOK
<1> QED
  BY <1>1, AccountInvHolds, PTL

-----------------------------------------------------------------------------
(* Where the events come from.  An operator of the log l, so that it can be *)
(* said of the log before and after a step.                                *)

EventsIn(l, V) == {l[i].event : i \in V}

Folded(l, V) == from_events(EventsIn(l, V))

\* Events V are committed events of account a.
Belong(l, V, a) == \A i \in V : i \in DOMAIN l /\ l[i].state = "committed" /\ l[i].acc = a

\* A command is validated against the account it loaded, so that its event
\* applies; only deactivate_account does not ask whether it is deactivated.
Validated(acct, e) == Applies(acct, e) \/ (e.kind = "Deactivated" /\ Exists(acct))

\* The event e was emitted on the account that V, committed events with their
\* predecessors, folds into.
Ground(l, V, a, e) ==
  /\ Belong(l, V, a)
  /\ \A i \in V : /\ l[i].event.version < e.version
                  /\ l[i].prev = 0 \/ \E j \in V : l[j].event.version = l[i].prev
  /\ Validated(Folded(l, V), e)

LogGrounded(l) ==
  \A i \in DOMAIN l :
    \E V \in SUBSET DOMAIN l :
      Ground(l, V, l[i].acc, l[i].event) /\ Folded(l, V).version = l[i].prev

\* The same of the event a request is about to save or has saved.
RequestGrounded(l, r) ==
  /\ r.pc = "loaded" =>
       \E V \in SUBSET DOMAIN l : Ground(l, V, r.acc, r.event) /\ r.acct = Folded(l, V)
  /\ r.pc = "saved" =>
       /\ l[r.seq].acc = r.acc /\ l[r.seq].event = r.event
       /\ \E V \in SUBSET DOMAIN l :
            Ground(l, V, r.acc, r.event) /\ r.acct = apply(Folded(l, V), r.event)

\* A version is handed out once.
VersionsApart(l, rs) ==
  /\ \A i, j \in DOMAIN l : l[i].event.version = l[j].event.version => i = j
  /\ \A h \in Handlers : rs[h].pc = "loaded" =>
       /\ \A i \in DOMAIN l : l[i].event.version # rs[h].event.version
       /\ \A k \in Handlers :
            rs[k].pc = "loaded" /\ rs[k].event.version = rs[h].event.version => k = h

HistoryOK ==
  /\ LogGrounded(log)
  /\ \A h \in Handlers : RequestGrounded(log, req[h])
  /\ VersionsApart(log, req)

LEMMA EventsInTyped ==
  ASSUME NEW l \in Seq(LogRecords), NEW V \in SUBSET DOMAIN l
  PROVE  /\ EventsIn(l, V) \in SUBSET EventRecords /\ IsFiniteSet(EventsIn(l, V))
         /\ Folded(l, V) \in States
<1> DEFINE f == [i \in V |-> l[i].event]
<1>1. DOMAIN l = 1 .. Len(l) /\ Len(l) \in Nat /\ \A i \in DOMAIN l : l[i] \in LogRecords
  OBVIOUS
<1>2. \A i \in V : l[i].event \in EventRecords
  BY <1>1 DEF LogRecords
<1>3. IsFiniteSet(V)
  <2>1. IsFiniteSet(1 .. Len(l)) /\ V \subseteq 1 .. Len(l)
    BY <1>1, FS_Interval
  <2> QED
    BY <2>1, FS_Subset
<1>4. f \in Surjection(V, EventsIn(l, V))
  BY DEF Surjection, EventsIn
<1>5. IsFiniteSet(EventsIn(l, V))
  <2> HIDE DEF f
  <2> QED
    BY <1>3, <1>4, FS_Surjection
<1>6. EventsIn(l, V) \in SUBSET EventRecords
  BY <1>2 DEF EventsIn
<1> QED
  BY <1>5, <1>6, StatesTyped, FoldTyped DEF Folded, from_events

\* What a set of events folds into is broken, or nothing, or has the version of
\* the last of them.
LEMMA FoldedHead ==
  ASSUME NEW l \in Seq(LogRecords), NEW V \in SUBSET DOMAIN l, Folded(l, V) # Broken
  PROVE  \/ V = {} /\ Folded(l, V) = NoAccount
         \/ /\ V # {} /\ Exists(Folded(l, V))
            /\ \E j \in V : l[j].event.version = Folded(l, V).version
            /\ \A i \in V : l[i].event.version <= Folded(l, V).version
<1> DEFINE E == EventsIn(l, V)
<1>1. E \in SUBSET EventRecords /\ IsFiniteSet(E)
  BY EventsInTyped
<1>2. Folded(l, V) = Fold(NoAccount, E)
  BY DEF Folded, from_events
<1>3. CASE V = {}
  <2>1. E = {}
    BY <1>3 DEF EventsIn
  <2> QED
    BY <1>1, <1>2, <1>3, <2>1, FoldEquation
<1>4. CASE V # {}
  <2>1. E # {} /\ \A i \in V : l[i].event \in E
    BY <1>4 DEF EventsIn
  <2>2. Latest(E) \in E /\ \A f \in E : f.version <= Latest(E).version
    <3> HIDE DEF E
    <3> QED
      BY <1>1, <2>1, LatestIsLatest
  <2>3. PICK j \in V : l[j].event = Latest(E)
    BY <2>2 DEF EventsIn
  <2> HIDE DEF E
  <2>4. Exists(Folded(l, V)) /\ Folded(l, V).version = Latest(E).version
    BY <1>1, <1>2, <2>1, StatesTyped, FoldOfSome
  <2> QED
    BY <1>4, <2>1, <2>2, <2>3, <2>4
<1> QED
  BY <1>3, <1>4

\* The log grows: rows are added and transactions end.
GrownTo(l, m) ==
  \A i \in DOMAIN l :
    /\ i \in DOMAIN m
    /\ m[i].acc = l[i].acc /\ m[i].event = l[i].event /\ m[i].prev = l[i].prev
    /\ l[i].state = "committed" => m[i].state = "committed"

LEMMA GroundKept ==
  ASSUME NEW l, NEW m, NEW V \in SUBSET DOMAIN l, NEW a, NEW e, GrownTo(l, m)
  PROVE  /\ V \in SUBSET DOMAIN m /\ Folded(m, V) = Folded(l, V)
         /\ Belong(l, V, a) => Belong(m, V, a)
         /\ Ground(l, V, a, e) => Ground(m, V, a, e)
<1>1. \A i \in V : /\ i \in DOMAIN l /\ i \in DOMAIN m
                   /\ m[i].acc = l[i].acc /\ m[i].event = l[i].event /\ m[i].prev = l[i].prev
                   /\ l[i].state = "committed" => m[i].state = "committed"
  BY DEF GrownTo
<1>2. EventsIn(m, V) = EventsIn(l, V)
  BY <1>1 DEF EventsIn
<1>3. Folded(m, V) = Folded(l, V)
  BY <1>2 DEF Folded
<1>4. Belong(l, V, a) => Belong(m, V, a)
  BY <1>1 DEF Belong
<1>5. Ground(l, V, a, e) => Ground(m, V, a, e)
  BY <1>1, <1>3, <1>4 DEF Ground
<1> QED
  BY <1>1, <1>3, <1>4, <1>5

\* What a use case asks of the account makes its event apply.
LEMMA CaseValidates ==
  ASSUME NEW op \in Commands, NEW a, NEW acct, acct = NoAccount \/ Exists(acct), NEW e,
         e.kind = KindOf(op), Case(op, a, acct).validates
  PROVE  Validated(acct, e)
<1>1. acct = NoAccount => acct.status = "none"
  BY DEF NoAccount, AccountState
<1>2. CASE op = "create"
  <2>1. Case(op, a, acct) = create_account(a, acct) /\ e.kind = "Created"
    BY <1>2 DEF Case, KindOf
  <2>2. create_account(a, acct).validates = (~Exists(acct))
    BY DEF create_account, UseCase
  <2>3. ~Exists(acct)
    BY <2>1, <2>2
  <2> QED
    BY <1>1, <2>1, <2>3 DEF Validated, Applies, Exists
<1>3. CASE op = "update"
  <2>1. Case(op, a, acct) = update_account(a, acct) /\ e.kind = "Updated"
    BY <1>3 DEF Case, KindOf
  <2>2. update_account(a, acct).validates = (acct.status = "active" /\ ~acct.deleted)
    BY DEF update_account, UseCase
  <2>3. acct.status = "active" /\ ~acct.deleted
    BY <2>1, <2>2
  <2> QED
    BY <1>1, <2>1, <2>3 DEF Validated, Applies, Exists
<1>4. CASE op = "detail"
  <2>1. Case(op, a, acct) = update_account_detail(a, acct) /\ e.kind = "Updated"
    BY <1>4 DEF Case, KindOf
  <2>2. update_account_detail(a, acct).validates = (Exists(acct))
    BY DEF update_account_detail, UseCase
  <2>3. Exists(acct)
    BY <2>1, <2>2
  <2> QED
    BY <1>1, <2>1, <2>3 DEF Validated, Applies, Exists
<1>5. CASE op = "suspend"
  <2>1. Case(op, a, acct) = suspend_account(a, acct) /\ e.kind = "Suspended"
    BY <1>5 DEF Case, KindOf
  <2>2. suspend_account(a, acct).validates = (acct.status = "active" /\ ~acct.deleted)
    BY DEF suspend_account, UseCase
  <2>3. acct.status = "active" /\ ~acct.deleted
    BY <2>1, <2>2
  <2> QED
    BY <1>1, <2>1, <2>3 DEF Validated, Applies, Exists
<1>6. CASE op = "unsuspend"
  <2>1. Case(op, a, acct) = unsuspend_account(a, acct) /\ e.kind = "Unsuspended"
    BY <1>6 DEF Case, KindOf
  <2>2. unsuspend_account(a, acct).validates = (acct.status = "suspended")
    BY DEF unsuspend_account, UseCase
  <2>3. acct.status = "suspended"
    BY <2>1, <2>2
  <2> QED
    BY <1>1, <2>1, <2>3 DEF Validated, Applies, Exists
<1>7. CASE op = "ban"
  <2>1. Case(op, a, acct) = ban_account(a, acct) /\ e.kind = "Banned"
    BY <1>7 DEF Case, KindOf
  <2>2. ban_account(a, acct).validates = (Exists(acct) /\ acct.status # "banned" /\ ~acct.deleted)
    BY DEF ban_account, UseCase
  <2>3. Exists(acct) /\ acct.status # "banned" /\ ~acct.deleted
    BY <2>1, <2>2
  <2> QED
    BY <1>1, <2>1, <2>3 DEF Validated, Applies, Exists
<1>8. CASE op = "unban"
  <2>1. Case(op, a, acct) = unban_account(a, acct) /\ e.kind = "Unbanned"
    BY <1>8 DEF Case, KindOf
  <2>2. unban_account(a, acct).validates = (acct.status = "banned")
    BY DEF unban_account, UseCase
  <2>3. acct.status = "banned"
    BY <2>1, <2>2
  <2> QED
    BY <1>1, <2>1, <2>3 DEF Validated, Applies, Exists
<1>9. CASE op = "deactivate"
  <2>1. Case(op, a, acct) = deactivate_account(a, acct) /\ e.kind = "Deactivated"
    BY <1>9 DEF Case, KindOf
  <2>2. deactivate_account(a, acct).validates = (Exists(acct))
    BY DEF deactivate_account, UseCase
  <2>3. Exists(acct)
    BY <2>1, <2>2
  <2> QED
    BY <1>1, <2>1, <2>3 DEF Validated, Applies, Exists
<1>10. CASE op = "reactivate"
  <2>1. Case(op, a, acct) = reactivate_account(a, acct) /\ e.kind = "Reactivated"
    BY <1>10 DEF Case, KindOf
  <2>2. reactivate_account(a, acct).validates = (Exists(acct) /\ acct.deleted)
    BY DEF reactivate_account, UseCase
  <2>3. Exists(acct) /\ acct.deleted
    BY <2>1, <2>2
  <2> QED
    BY <1>1, <2>1, <2>3 DEF Validated, Applies, Exists
<1> QED
  BY <1>2, <1>3, <1>4, <1>5, <1>6, <1>7, <1>8, <1>9, <1>10 DEF Commands, AllOps

\* Most steps end transactions or requests and begin none.
LEMMA HistoryMoves ==
  ASSUME HistoryOK, CommandsOK, GrownTo(log, log'), DOMAIN log' = DOMAIN log,
         \A h \in Handlers : req'[h].pc \in {"loaded", "saved"} => req'[h] = req[h]
  PROVE  HistoryOK'
<1>1. \A i \in DOMAIN log : /\ log'[i].acc = log[i].acc /\ log'[i].event = log[i].event
                            /\ log'[i].prev = log[i].prev
  BY DEF GrownTo
<1>2. LogGrounded(log')
  <2>1. ASSUME NEW i \in DOMAIN log
        PROVE  \E V \in SUBSET DOMAIN log' :
                 Ground(log', V, log'[i].acc, log'[i].event) /\ Folded(log', V).version = log'[i].prev
    <3>1. PICK V \in SUBSET DOMAIN log :
            Ground(log, V, log[i].acc, log[i].event) /\ Folded(log, V).version = log[i].prev
      BY DEF HistoryOK, LogGrounded
    <3>2. /\ V \in SUBSET DOMAIN log' /\ Folded(log', V) = Folded(log, V)
          /\ Ground(log', V, log[i].acc, log[i].event)
      BY <3>1, GroundKept
    <3> QED
      BY <1>1, <3>1, <3>2
  <2> QED
    BY <2>1 DEF LogGrounded
<1>3. ASSUME NEW h \in Handlers PROVE RequestGrounded(log', req'[h])
  <2>1. CASE req'[h].pc \notin {"loaded", "saved"}
    BY <2>1 DEF RequestGrounded
  <2>2. CASE req'[h].pc = "loaded"
    <3>1. req'[h] = req[h] /\ RequestGrounded(log, req[h])
      BY <2>2 DEF HistoryOK
    <3>2. PICK V \in SUBSET DOMAIN log : Ground(log, V, req[h].acc, req[h].event) /\ req[h].acct = Folded(log, V)
      BY <2>2, <3>1 DEF RequestGrounded
    <3>3. /\ V \in SUBSET DOMAIN log' /\ Folded(log', V) = Folded(log, V)
          /\ Ground(log', V, req[h].acc, req[h].event)
      BY <3>2, GroundKept
    <3> QED
      BY <2>2, <3>1, <3>2, <3>3 DEF RequestGrounded
  <2>3. CASE req'[h].pc = "saved"
    <3>1. req'[h] = req[h] /\ RequestGrounded(log, req[h]) /\ req[h].seq \in DOMAIN log
      BY <2>3 DEF HistoryOK, CommandsOK, SavedIsOpen
    <3>2. /\ log[req[h].seq].acc = req[h].acc /\ log[req[h].seq].event = req[h].event
          /\ \E V \in SUBSET DOMAIN log :
               Ground(log, V, req[h].acc, req[h].event) /\ req[h].acct = apply(Folded(log, V), req[h].event)
      BY <2>3, <3>1 DEF RequestGrounded
    <3>3. PICK V \in SUBSET DOMAIN log :
            Ground(log, V, req[h].acc, req[h].event) /\ req[h].acct = apply(Folded(log, V), req[h].event)
      BY <3>2
    <3>4. /\ V \in SUBSET DOMAIN log' /\ Folded(log', V) = Folded(log, V)
          /\ Ground(log', V, req[h].acc, req[h].event)
      BY <3>3, GroundKept
    <3> QED
      BY <1>1, <2>3, <3>1, <3>2, <3>3, <3>4 DEF RequestGrounded
  <2> QED
    BY <2>1, <2>2, <2>3
<1>4. VersionsApart(log', req')
  BY <1>1 DEF HistoryOK, VersionsApart
<1> QED
  BY <1>2, <1>3, <1>4 DEF HistoryOK

LEMMA LogSame == ASSUME log' = log PROVE GrownTo(log, log') /\ DOMAIN log' = DOMAIN log
BY DEF GrownTo

\* The whole stream is a part of itself that has its predecessors.
LEMMA StreamGrounds ==
  ASSUME HistoryOK, CommandsOK, NEW a, NEW V \in SUBSET DOMAIN log,
         V = {i \in CommittedSeqs : log[i].acc = a}
  PROVE  /\ Belong(log, V, a) /\ Folded(log, V) = load(a)
         /\ \A i \in V : log[i].prev = 0 \/ \E j \in V : log[j].event.version = log[i].prev
<1>1. Belong(log, V, a)
  BY DEF Belong, CommittedSeqs
<1>2. EventsIn(log, V) = Stream(a)
  BY DEF EventsIn, Stream, EventsOf
<1>3. ASSUME NEW i \in V PROVE log[i].prev = 0 \/ \E j \in V : log[j].event.version = log[i].prev
  <2>1. i \in DOMAIN log /\ log[i].acc = a /\ log \in Seq(LogRecords)
    BY DEF CommandsOK, CommittedSeqs
  <2>2. PICK W \in SUBSET DOMAIN log :
          Ground(log, W, a, log[i].event) /\ Folded(log, W).version = log[i].prev
    BY <2>1 DEF HistoryOK, LogGrounded
  <2>3. Folded(log, W) # Broken
    BY <2>2 DEF Ground, Validated, Applies, Exists, Broken, AccountState
  <2>4. Folded(log, W) = NoAccount \/ \E j \in W : log[j].event.version = Folded(log, W).version
    BY <2>1, <2>3, FoldedHead
  <2>5. CASE Folded(log, W) = NoAccount
    BY <2>2, <2>5 DEF NoAccount, AccountState
  <2>6. CASE \E j \in W : log[j].event.version = Folded(log, W).version
    <3>1. PICK j \in W : log[j].event.version = Folded(log, W).version
      BY <2>6
    <3>2. j \in V
      BY <2>2 DEF Ground, Belong, CommittedSeqs
    <3> QED
      BY <2>2, <3>1, <3>2
  <2> QED
    BY <2>4, <2>5, <2>6
<1> QED
  BY <1>1, <1>2, <1>3 DEF Folded, load

LEMMA LoadHistory ==
  ASSUME HistoryOK, CommandsOK, NEW h \in Handlers, Load(h)
  PROVE  HistoryOK'
<1> DEFINE r == req[h]
           event == [r.event EXCEPT !.version = generate_id]
           next == [r EXCEPT !.pc = "loaded", !.event = event, !.acct = load(r.acc)]
           V == {i \in CommittedSeqs : log[i].acc = r.acc}
<1>1. /\ req' = [req EXCEPT ![h] = next] /\ log' = log
      /\ r.pc = "admitted" /\ Loads(r.op, r.acc)
  BY DEF Load
<1>2. r \in RequestRecords /\ RequestOK(r) /\ log \in Seq(LogRecords)
  BY DEF CommandsOK
<1>3. r.event \in RequestEvents /\ r.event.kind = KindOf(r.op) /\ r.op \in Commands
  BY <1>1, <1>2 DEF RequestOK, RequestRecords
<1>4. /\ generate_id \in Nat
      /\ \A i \in DOMAIN log : log[i].event.version < generate_id
      /\ \A k \in Handlers : req[k].event.version < generate_id
  BY GeneratedIsNew DEF UsedVersions
<1>5. \A i \in DOMAIN log : log[i].event.version \in Nat
  BY LogTyped, BoundsAssumption DEF EventRecords
<1>6. \A k \in Handlers : req[k].event.version \in Nat
  BY BoundsAssumption DEF CommandsOK, RequestRecords, RequestEvents
<1>7. event.kind = r.event.kind /\ event.version = generate_id
  BY <1>3 DEF RequestEvents
<1>8. next.pc = "loaded" /\ next.acc = r.acc /\ next.event = event /\ next.acct = load(r.acc)
  BY <1>2 DEF RequestRecords
<1>9. req'[h] = next /\ \A k \in Handlers : k # h => req'[k] = req[k]
  BY <1>1 DEF CommandsOK
<1>10. V \in SUBSET DOMAIN log
  BY DEF CommittedSeqs
<1>11. /\ Belong(log, V, r.acc) /\ Folded(log, V) = load(r.acc)
       /\ \A i \in V : log[i].prev = 0 \/ \E j \in V : log[j].event.version = log[i].prev
  <2> HIDE DEF r
  <2>1. PICK W \in SUBSET DOMAIN log : W = V
    BY <1>10
  <2> HIDE DEF V
  <2>2. W = {i \in CommittedSeqs : log[i].acc = r.acc}
    BY <2>1 DEF V
  <2> QED
    BY <2>1, <2>2, StreamGrounds
<1> HIDE DEF event, next, r, V
<1>12. Validated(load(r.acc), event)
  <2>1. load(r.acc) # Broken /\ Case(r.op, r.acc, load(r.acc)).validates
    BY <1>1 DEF Loads
  <2>2. load(r.acc) = NoAccount \/ Exists(load(r.acc))
    BY <1>2, <1>10, <1>11, <2>1, FoldedHead
  <2> QED
    BY <1>3, <1>7, <2>1, <2>2, CaseValidates
<1>13. Ground(log, V, r.acc, event)
  BY <1>4, <1>7, <1>10, <1>11, <1>12 DEF Ground
<1>14. RequestGrounded(log', req'[h])
  BY <1>1, <1>8, <1>9, <1>10, <1>11, <1>13 DEF RequestGrounded
<1>15. \A k \in Handlers : RequestGrounded(log', req'[k])
  BY <1>1, <1>9, <1>14 DEF HistoryOK
<1>16. VersionsApart(log', req')
  <2>1. \A i \in DOMAIN log : log[i].event.version # generate_id
    BY <1>4, <1>5
  <2>2. \A k \in Handlers : req[k].event.version # generate_id
    BY <1>4, <1>6
  <2>3. req'[h].event.version = generate_id
    BY <1>7, <1>8, <1>9
  <2>4. \A k \in Handlers : req'[k].pc = "loaded" =>
          /\ \A i \in DOMAIN log' : log'[i].event.version # req'[k].event.version
          /\ \A g \in Handlers :
               req'[g].pc = "loaded" /\ req'[g].event.version = req'[k].event.version => g = k
    BY <1>1, <1>9, <2>1, <2>2, <2>3 DEF HistoryOK, VersionsApart
  <2> QED
    BY <1>1, <2>4 DEF HistoryOK, VersionsApart
<1>17. LogGrounded(log')
  BY <1>1 DEF HistoryOK
<1> QED
  BY <1>15, <1>16, <1>17 DEF HistoryOK

LEMMA SaveHistory ==
  ASSUME HistoryOK, CommandsOK, NEW h \in Handlers, Save(h)
  PROVE  HistoryOK'
<1> DEFINE r == req[h]
           state == IF r.op = "update" THEN "committed" ELSE "open"
           row == [acc |-> r.acc, event |-> r.event, prev |-> r.acct.version, state |-> state]
           saved == [r EXCEPT !.pc = "saved", !.seq = Len(log) + 1, !.acct = apply(r.acct, r.event)]
           next == IF r.op = "update" THEN Idle ELSE saved
           n == Len(log) + 1
<1>1. /\ log' = Append(log, row) /\ req' = [req EXCEPT ![h] = next] /\ r.pc = "loaded"
  BY DEF Save
<1>2. r \in RequestRecords /\ log \in Seq(LogRecords) /\ RequestGrounded(log, r)
  BY DEF CommandsOK, HistoryOK
<1>3. Len(log) \in Nat /\ DOMAIN log = 1 .. Len(log)
  BY LogTyped
<1>4. row.acc = r.acc /\ row.event = r.event /\ row.prev = r.acct.version
  OBVIOUS
<1>5. /\ saved.pc = "saved" /\ saved.acc = r.acc /\ saved.event = r.event /\ saved.seq = n
      /\ saved.acct = apply(r.acct, r.event)
  BY <1>2 DEF RequestRecords
<1>6. next = saved \/ next.pc = "idle"
  BY IdleOK
<1>7. req'[h] = next /\ \A k \in Handlers : k # h => req'[k] = req[k]
  BY <1>1 DEF CommandsOK
<1> HIDE DEF row, saved, next, r
<1>8. /\ log'[n] = row /\ DOMAIN log' = DOMAIN log \cup {n} /\ n \notin DOMAIN log
      /\ \A i \in DOMAIN log : log'[i] = log[i]
  <2>1. DOMAIN log' = 1 .. (Len(log) + 1) /\ log'[n] = row /\ \A i \in 1 .. Len(log) : log'[i] = log[i]
    BY <1>1, <1>2, <1>3
  <2>2. 1 .. (Len(log) + 1) = (1 .. Len(log)) \cup {n} /\ n \notin 1 .. Len(log)
    BY <1>3
  <2> QED
    BY <1>3, <2>1, <2>2
<1> HIDE DEF n
<1>9. GrownTo(log, log')
  BY <1>8 DEF GrownTo
<1>10. PICK V \in SUBSET DOMAIN log : Ground(log, V, r.acc, r.event) /\ r.acct = Folded(log, V)
  BY <1>1, <1>2 DEF RequestGrounded
<1>11. /\ V \in SUBSET DOMAIN log' /\ Folded(log', V) = Folded(log, V)
       /\ Ground(log', V, r.acc, r.event)
  BY <1>9, <1>10, GroundKept
<1>12. LogGrounded(log')
  <2>1. ASSUME NEW i \in DOMAIN log
        PROVE  \E W \in SUBSET DOMAIN log' :
                 Ground(log', W, log'[i].acc, log'[i].event) /\ Folded(log', W).version = log'[i].prev
    <3>1. PICK W \in SUBSET DOMAIN log :
            Ground(log, W, log[i].acc, log[i].event) /\ Folded(log, W).version = log[i].prev
      BY DEF HistoryOK, LogGrounded
    <3>2. /\ W \in SUBSET DOMAIN log' /\ Folded(log', W) = Folded(log, W)
          /\ Ground(log', W, log[i].acc, log[i].event)
      BY <1>9, <3>1, GroundKept
    <3> QED
      BY <1>8, <3>1, <3>2
  <2>2. \E W \in SUBSET DOMAIN log' :
          Ground(log', W, log'[n].acc, log'[n].event) /\ Folded(log', W).version = log'[n].prev
    BY <1>4, <1>8, <1>10, <1>11
  <2> QED
    BY <1>8, <2>1, <2>2 DEF LogGrounded
<1>13. ASSUME NEW k \in Handlers PROVE RequestGrounded(log', req'[k])
  <2>1. CASE k = h
    <3>1. CASE next.pc = "idle"
      BY <1>7, <2>1, <3>1 DEF RequestGrounded
    <3>2. CASE next = saved
      BY <1>4, <1>5, <1>7, <1>8, <1>10, <1>11, <2>1, <3>2 DEF RequestGrounded
    <3> QED
      BY <1>6, <3>1, <3>2
  <2>2. CASE k # h /\ req[k].pc = "loaded"
    <3>1. PICK W \in SUBSET DOMAIN log : Ground(log, W, req[k].acc, req[k].event) /\ req[k].acct = Folded(log, W)
      BY <2>2 DEF HistoryOK, RequestGrounded
    <3>2. /\ W \in SUBSET DOMAIN log' /\ Folded(log', W) = Folded(log, W)
          /\ Ground(log', W, req[k].acc, req[k].event)
      BY <1>9, <3>1, GroundKept
    <3> QED
      BY <1>7, <2>2, <3>1, <3>2 DEF RequestGrounded
  <2>3. CASE k # h /\ req[k].pc = "saved"
    <3>1. /\ req[k].seq \in DOMAIN log
          /\ log[req[k].seq].acc = req[k].acc /\ log[req[k].seq].event = req[k].event
      BY <2>3 DEF HistoryOK, RequestGrounded, CommandsOK, SavedIsOpen
    <3>2. PICK W \in SUBSET DOMAIN log :
            Ground(log, W, req[k].acc, req[k].event) /\ req[k].acct = apply(Folded(log, W), req[k].event)
      BY <2>3 DEF HistoryOK, RequestGrounded
    <3>3. /\ W \in SUBSET DOMAIN log' /\ Folded(log', W) = Folded(log, W)
          /\ Ground(log', W, req[k].acc, req[k].event)
      BY <1>9, <3>2, GroundKept
    <3> QED
      BY <1>7, <1>8, <2>3, <3>1, <3>2, <3>3 DEF RequestGrounded
  <2>4. CASE k # h /\ req[k].pc \notin {"loaded", "saved"}
    BY <1>7, <2>4 DEF RequestGrounded
  <2> QED
    BY <2>1, <2>2, <2>3, <2>4
<1>14. VersionsApart(log', req')
  <2>1. \A i \in DOMAIN log : log[i].event.version # r.event.version
    BY <1>1 DEF HistoryOK, VersionsApart, r
  <2>2. \A i, j \in DOMAIN log' : log'[i].event.version = log'[j].event.version => i = j
    BY <1>4, <1>8, <2>1 DEF HistoryOK, VersionsApart
  <2>3. req'[h].pc # "loaded"
    BY <1>5, <1>6, <1>7
  <2>4. \A k \in Handlers : k # h /\ req[k].pc = "loaded" => req[k].event.version # r.event.version
    BY <1>1 DEF HistoryOK, VersionsApart, r
  <2>5. \A k \in Handlers : req'[k].pc = "loaded" =>
          /\ \A i \in DOMAIN log' : log'[i].event.version # req'[k].event.version
          /\ \A g \in Handlers :
               req'[g].pc = "loaded" /\ req'[g].event.version = req'[k].event.version => g = k
    <3>1. ASSUME NEW k \in Handlers, req'[k].pc = "loaded"
          PROVE  k # h /\ req'[k] = req[k] /\ req[k].pc = "loaded"
      BY <1>7, <2>3, <3>1
    <3>2. ASSUME NEW k \in Handlers, req'[k].pc = "loaded", NEW i \in DOMAIN log'
          PROVE  log'[i].event.version # req'[k].event.version
      <4>1. k # h /\ req'[k] = req[k] /\ req[k].pc = "loaded"
        BY <3>1, <3>2
      <4>2. CASE i \in DOMAIN log
        BY <1>8, <4>1, <4>2 DEF HistoryOK, VersionsApart
      <4>3. CASE i = n
        BY <1>4, <1>8, <2>4, <4>1, <4>3
      <4> QED
        BY <1>8, <3>2, <4>2, <4>3
    <3>3. ASSUME NEW k \in Handlers, req'[k].pc = "loaded", NEW g \in Handlers, req'[g].pc = "loaded",
                 req'[g].event.version = req'[k].event.version
          PROVE  g = k
      BY <3>1, <3>3 DEF HistoryOK, VersionsApart
    <3> QED
      BY <3>2, <3>3
  <2> QED
    BY <2>2, <2>5 DEF VersionsApart
<1> QED
  BY <1>12, <1>13, <1>14 DEF HistoryOK

\* The transaction of a request ends.
LEMMA EndHistory ==
  ASSUME HistoryOK, CommandsOK, NEW h \in Handlers, req[h].pc = "saved",
         NEW st \in {"committed", "aborted"}, log' = [log EXCEPT ![req[h].seq].state = st],
         NEW next, next.pc \notin {"loaded", "saved"}, req' = [req EXCEPT ![h] = next]
  PROVE  HistoryOK'
<1>1. req[h].seq \in DOMAIN log /\ log[req[h].seq].state = "open"
  BY DEF CommandsOK, SavedIsOpen
<1>2. /\ DOMAIN log' = DOMAIN log /\ \A i \in DOMAIN log : i # req[h].seq => log'[i] = log[i]
      /\ log'[req[h].seq] = [log[req[h].seq] EXCEPT !.state = st]
  BY <1>1, LogMarked
<1>3. log[req[h].seq] \in LogRecords
  BY <1>1, LogTyped
<1>4. GrownTo(log, log')
  BY <1>1, <1>2, <1>3 DEF GrownTo, LogRecords
<1>5. \A k \in Handlers : req'[k].pc \in {"loaded", "saved"} => req'[k] = req[k]
  BY DEF CommandsOK
<1> QED
  BY <1>2, <1>4, <1>5, HistoryMoves

\* A request goes on to a place where it has no event in hand.
LEMMA PlaceHistory ==
  ASSUME HistoryOK, CommandsOK, NEW h \in Handlers, NEW next, next.pc \notin {"loaded", "saved"},
         req' = [req EXCEPT ![h] = next], log' = log
  PROVE  HistoryOK'
<1>1. \A k \in Handlers : req'[k].pc \in {"loaded", "saved"} => req'[k] = req[k]
  BY DEF CommandsOK
<1> QED
  BY <1>1, LogSame, HistoryMoves

LEMMA RequestHistory ==
  ASSUME HistoryOK, CommandsOK, NEW h \in Handlers, Request(h)
  PROVE  HistoryOK'
<1>1. Idle.pc = "idle"
  BY IdleOK
<1>2. CASE \E a \in Accounts : Arrives(h, a)
  <2>1. PICK op, a, until : Admit(h, op, a, until)
    BY <1>2 DEF Arrives, create_account_route, update_account_by_id, deactivate_account_by_id,
       reactivate_account_by_id, suspend_account_by_id, unsuspend_account_by_id,
       ban_account_by_id, unban_account_by_id
  <2> DEFINE next == [Idle EXCEPT !.pc = "admitted", !.op = op, !.acc = a,
                                  !.event = Event(Case(op, a, NoAccount).kind, 0, until)]
  <2>2. req' = [req EXCEPT ![h] = next] /\ log' = log
    BY <2>1 DEF Admit
  <2>3. next.pc = "admitted"
    BY DEF Idle
  <2> HIDE DEF next
  <2> QED
    BY <2>2, <2>3, PlaceHistory
<1>3. CASE Reject(h) \/ Conflict(h)
  <2>1. req' = [req EXCEPT ![h] = Idle] /\ log' = log
    BY <1>3 DEF Reject, Conflict
  <2> QED
    BY <1>1, <2>1, PlaceHistory
<1>4. CASE ChangeRelation(h)
  <2> DEFINE next == IF Tail(req[h].calls) = <<>> THEN Idle
                     ELSE [req[h] EXCEPT !.calls = Tail(@)]
  <2>1. req' = [req EXCEPT ![h] = next] /\ log' = log /\ req[h].pc = "relations"
    BY <1>4 DEF ChangeRelation
  <2>2. next.pc \in {"idle", "relations"}
    BY <1>1, <2>1 DEF CommandsOK, RequestRecords
  <2> HIDE DEF next
  <2> QED
    BY <2>1, <2>2, PlaceHistory
<1>5. CASE \E fields \in SUBSET {"metadata"} : CommitTx(h, fields)
  <2> DEFINE calls == Case(req[h].op, req[h].acc, req[h].acct).calls
             next == IF calls = <<>> THEN Idle
                     ELSE [Idle EXCEPT !.pc = "relations", !.op = req[h].op, !.acc = req[h].acc,
                                       !.calls = calls]
  <2>1. /\ req[h].pc = "saved" /\ log' = [log EXCEPT ![req[h].seq].state = "committed"]
        /\ req' = [req EXCEPT ![h] = next]
    BY <1>5 DEF CommitTx
  <2> HIDE DEF calls
  <2>2. next.pc \in {"idle", "relations"}
    BY <1>1 DEF Idle
  <2> HIDE DEF next
  <2> QED
    BY <2>1, <2>2, EndHistory
<1>6. CASE DetailNotFound(h) \/ Fail(h)
  <2>1. req' = [req EXCEPT ![h] = Idle]
    BY <1>6 DEF DetailNotFound, Fail
  <2>2. CASE req[h].pc = "saved"
    <3>1. log' = [log EXCEPT ![req[h].seq].state = "aborted"]
      BY <1>6, <2>2 DEF DetailNotFound, Fail
    <3> QED
      BY <1>1, <2>1, <2>2, <3>1, EndHistory
  <2>3. CASE req[h].pc # "saved"
    <3>1. log' = log
      BY <1>6, <2>3 DEF DetailNotFound, Fail
    <3> QED
      BY <1>1, <2>1, <3>1, PlaceHistory
  <2> QED
    BY <2>2, <2>3
<1> QED
  BY <1>2, <1>3, <1>4, <1>5, <1>6, LoadHistory, SaveHistory DEF Request

LEMMA HistoryStep == AccountInv /\ HistoryOK /\ [Next]_vars => HistoryOK'
<1> SUFFICES ASSUME AccountInv, HistoryOK, [Next]_vars PROVE HistoryOK'
  OBVIOUS
<1>1. CommandsOK
  BY DEF AccountInv
<1>2. CASE UNCHANGED <<log, req>>
  BY <1>1, <1>2, LogSame, HistoryMoves
<1>3. CASE \E h \in Handlers : Request(h)
  BY <1>1, <1>3, RequestHistory
<1>4. CASE ~\E h \in Handlers : Request(h)
  <2>1. UNCHANGED <<log, req>>
    BY <1>4 DEF Next, vars, Tick, FollowChanges, ProjectProfile, PollStep, PollRead, PollEmpty,
       PollFold, PollWrite, PollWriteFails, PollAbort, PollCommit, commandVars
  <2> QED
    BY <1>2, <2>1
<1> QED
  BY <1>3, <1>4

LEMMA HistoryInit == ProjectionInit => HistoryOK
<1> SUFFICES ASSUME ProjectionInit PROVE HistoryOK
  OBVIOUS
<1>1. log = <<>> /\ DOMAIN log = {} /\ \A h \in Handlers : req[h] = Idle /\ req[h].pc = "idle"
  BY IdleOK DEF ProjectionInit, Init
<1> QED
  BY <1>1 DEF HistoryOK, LogGrounded, RequestGrounded, VersionsApart

LEMMA HistoryHolds == Spec => [](AccountInv /\ HistoryOK)
BY AccountInvInit, AccountInvStep, HistoryInit, HistoryStep, PTL DEF Spec

-----------------------------------------------------------------------------
(* Accounts that cannot be loaded.                                         *)

\* A set of events of distinct versions, the latest of which is e.
LEMMA LatestIs ==
  ASSUME NEW S \in SUBSET EventRecords, IsFiniteSet(S), NEW e \in S,
         \A f, g \in S : f.version = g.version => f = g,
         \A f \in S : f.version <= e.version
  PROVE  Latest(S) = e
<1>1. Latest(S) \in S /\ \A f \in S : f.version <= Latest(S).version
  BY LatestIsLatest
<1>2. Latest(S).version \in Nat /\ e.version \in Nat
  BY <1>1, BoundsAssumption DEF EventRecords
<1>3. e.version <= Latest(S).version /\ Latest(S).version <= e.version
  BY <1>1
<1> QED
  BY <1>1, <1>2, <1>3

\* An account is deactivated only by a deactivation that no reactivation
\* follows.
LEMMA DeletedByDeactivation ==
  ASSUME NEW S \in SUBSET EventRecords, IsFiniteSet(S),
         \A f, g \in S : f.version = g.version => f = g,
         Fold(NoAccount, S).deleted
  PROVE  \E f \in S : /\ f.kind = "Deactivated"
                      /\ \A g \in S : g.kind = "Reactivated" => g.version < f.version
<1> DEFINE Last(s) == \E f \in s : /\ f.kind = "Deactivated"
                                   /\ \A g \in s : g.kind = "Reactivated" => g.version < f.version
           Sizes == {n \in Nat : \A s \in SUBSET S :
                       Cardinality(s) = n /\ Fold(NoAccount, s).deleted => Last(s)}
<1>1. \A s \in SUBSET S : IsFiniteSet(s) /\ Cardinality(s) \in Nat /\ s \in SUBSET EventRecords
  BY FS_Subset, FS_CardinalityType
<1>2. 0 \in Sizes
  <2>1. ASSUME NEW s \in SUBSET S, Cardinality(s) = 0 PROVE ~Fold(NoAccount, s).deleted
    <3>1. s = {}
      BY <1>1, <2>1, FS_EmptySet
    <3>2. Fold(NoAccount, s) = NoAccount
      BY <1>1, <3>1, FoldEquation
    <3> QED
      BY <3>2 DEF NoAccount, AccountState
  <2> QED
    BY <2>1
<1>3. ASSUME NEW n \in Sizes PROVE n + 1 \in Sizes
  <2>1. ASSUME NEW s \in SUBSET S, Cardinality(s) = n + 1, Fold(NoAccount, s).deleted PROVE Last(s)
    <3> DEFINE e == Latest(s)
               rest == s \ {e}
               before == Fold(NoAccount, rest)
    <3>1. s # {} /\ n \in Nat
      <4>1. n \in Nat /\ n + 1 # 0
        OBVIOUS
      <4> QED
        BY <2>1, <4>1, FS_EmptySet
    <3>2. e \in s /\ e \in EventRecords /\ \A f \in s : f.version <= e.version
      BY <1>1, <3>1, LatestIsLatest
    <3>3. Cardinality(rest) \in Nat /\ Cardinality(s) = Cardinality(rest) + 1
      BY <1>1, <3>2, RemoveOne
    <3>4. Cardinality(rest) = n /\ rest \in SUBSET S
      BY <2>1, <3>1, <3>3
    <3>5. before.deleted => Last(rest)
      BY <3>4
    <3>6. Fold(NoAccount, s) = apply(before, e)
      BY <1>1, <3>1, FoldEquation
    <3>7. \A f \in s : f \in EventRecords /\ f.version \in Nat
      BY <1>1, BoundsAssumption DEF EventRecords
    <3>8. \A f \in s : f # e => f.version < e.version
      BY <3>2, <3>7
    <3> HIDE DEF e, before
    <3>9. Applies(before, e) /\ DeletedAfter(before, e.kind)
      BY <2>1, <3>6 DEF apply, Broken, AccountState
    <3>10. CASE e.kind = "Deactivated"
      BY <3>2, <3>8, <3>10
    <3>11. CASE e.kind # "Deactivated"
      <4>1. e.kind # "Reactivated" /\ before.deleted
        <5>1. e.kind \notin {"Created", "Reactivated"}
          BY <3>9, <3>11 DEF DeletedAfter
        <5>2. DeletedAfter(before, e.kind) = before.deleted
          BY <3>11, <5>1 DEF DeletedAfter
        <5> QED
          BY <3>9, <5>1, <5>2
      <4>2. PICK f \in rest : /\ f.kind = "Deactivated"
                              /\ \A g \in rest : g.kind = "Reactivated" => g.version < f.version
        BY <3>5, <4>1
      <4> QED
        BY <4>1, <4>2
    <3> QED
      BY <3>10, <3>11
  <2> HIDE DEF Last
  <2> QED
    BY <2>1
<1>4. Sizes = Nat
  <2>1. Sizes \in SUBSET Nat
    OBVIOUS
  <2> HIDE DEF Sizes
  <2> QED
    BY <1>2, <1>3, <2>1, SetInduction
<1>5. Last(S)
  BY <1>1, <1>4
<1> QED
  BY <1>5

\* Without a fork every event of a stream was saved on what is before it, so
\* that the command of the last one was validated against all the others.
LEMMA UnforkedStream ==
  ASSUME AccountInv, HistoryOK, NEW a \in Accounts, ~Forked(a), Stream(a) # {}
  PROVE  Validated(Fold(NoAccount, Stream(a) \ {Latest(Stream(a))}), Latest(Stream(a)))
<1> DEFINE D == {i \in CommittedSeqs : log[i].acc = a}
           ver(i) == log[i].event.version
           C == {ver(i) : i \in D}
           prev == [v \in C |-> log[CHOOSE i \in D : ver(i) = v].prev]
           S == Stream(a)
           e == Latest(S)
<1>1. /\ CommandsOK /\ log \in Seq(LogRecords)
      /\ \A i \in D : i \in DOMAIN log /\ log[i].state = "committed" /\ log[i].acc = a
  BY DEF AccountInv, CommandsOK, CommittedSeqs
<1>2. \A i \in D : ver(i) \in Nat \ {0}
  BY <1>1, LogTyped, BoundsAssumption DEF EventRecords
<1>3. \A i, j \in D : ver(i) = ver(j) => i = j
  BY <1>1 DEF HistoryOK, VersionsApart
<1>4. S = {log[i].event : i \in D} /\ S \in SUBSET EventRecords /\ IsFiniteSet(S)
  BY <1>1, StreamTyped DEF Stream, EventsOf
<1>5. e \in S /\ \A f \in S : f.version <= e.version
  BY <1>4, LatestIsLatest
<1>6. \A i \in D : ver(i) \in C /\ prev[ver(i)] = log[i].prev
  BY <1>3
<1>7. ASSUME NEW i \in D
      PROVE  \E W \in SUBSET D :
               /\ Ground(log, W, a, log[i].event)
               /\ \/ W = {} /\ log[i].prev = 0
                  \/ \E j \in W : ver(j) = log[i].prev /\ ver(j) < ver(i)
  <2>1. PICK W \in SUBSET DOMAIN log :
          Ground(log, W, a, log[i].event) /\ Folded(log, W).version = log[i].prev
    BY <1>1 DEF HistoryOK, LogGrounded
  <2>2. W \in SUBSET D
    BY <2>1 DEF Ground, Belong, CommittedSeqs
  <2>3. Folded(log, W) # Broken
    BY <2>1 DEF Ground, Validated, Applies, Exists, Broken, AccountState
  <2>4. \/ W = {} /\ Folded(log, W) = NoAccount
        \/ \E j \in W : log[j].event.version = Folded(log, W).version
    BY <1>1, <2>3, FoldedHead
  <2>5. CASE W = {} /\ Folded(log, W) = NoAccount
    <3>1. log[i].prev = 0
      BY <2>1, <2>5 DEF NoAccount, AccountState
    <3> QED
      BY <2>1, <2>2, <2>5, <3>1
  <2>6. CASE \E j \in W : log[j].event.version = Folded(log, W).version
    <3>1. PICK j \in W : log[j].event.version = Folded(log, W).version
      BY <2>6
    <3>2. ver(j) = log[i].prev /\ ver(j) < ver(i)
      BY <2>1, <3>1 DEF Ground
    <3> QED
      BY <2>1, <2>2, <3>2
  <2> QED
    BY <2>4, <2>5, <2>6
<1>8. \A i, j \in D : log[i].prev = log[j].prev => i = j
  BY DEF Forked
<1>9. \A c \in C : \E i \in D : c = ver(i)
  OBVIOUS
<1> HIDE DEF prev, C
<1>10. C \in SUBSET (Nat \ {0})
  BY <1>2, <1>9
<1>11. IsChain(C, prev)
  <2>1. ASSUME NEW c \in C PROVE prev[c] < c /\ prev[c] \in C \cup {0}
    <3>1. PICK i \in D : c = ver(i)
      BY <1>9
    <3>2. prev[c] = log[i].prev /\ c \in Nat \ {0}
      BY <1>2, <1>6, <3>1
    <3>3. PICK W \in SUBSET D : \/ W = {} /\ log[i].prev = 0
                                \/ \E j \in W : ver(j) = log[i].prev /\ ver(j) < ver(i)
      BY <1>7
    <3>4. CASE log[i].prev = 0
      BY <3>2, <3>4
    <3>5. CASE \E j \in W : ver(j) = log[i].prev /\ ver(j) < ver(i)
      BY <1>6, <3>1, <3>2, <3>5
    <3> QED
      BY <3>3, <3>4, <3>5
  <2>2. ASSUME NEW c \in C, NEW d \in C, prev[c] = prev[d] PROVE c = d
    <3>1. PICK i \in D : c = ver(i)
      BY <1>9
    <3>2. PICK j \in D : d = ver(j)
      BY <1>9
    <3>3. log[i].prev = log[j].prev
      BY <1>6, <2>2, <3>1, <3>2
    <3> QED
      BY <1>8, <3>1, <3>2, <3>3
  <2> QED
    BY <2>1, <2>2 DEF IsChain
<1>12. PICK i \in D : log[i].event = e
  BY <1>4, <1>5
<1>13. PICK W \in SUBSET D :
         /\ Ground(log, W, a, e)
         /\ \/ W = {} /\ log[i].prev = 0
            \/ \E j \in W : ver(j) = log[i].prev /\ ver(j) < ver(i)
  BY <1>7, <1>12
<1>14. \A k \in W : ver(k) < ver(i) /\ (log[k].prev = 0 \/ \E j \in W : ver(j) = log[k].prev)
  BY <1>12, <1>13 DEF Ground
<1>15. \A k \in D : k # i => ver(k) < ver(i)
  <2>1. ASSUME NEW k \in D, k # i PROVE ver(k) < ver(i)
    <3>1. log[k].event \in S
      BY <1>4
    <3>2. ver(k) <= ver(i)
      BY <1>5, <1>12, <3>1
    <3>3. ver(k) # ver(i)
      BY <1>3, <2>1
    <3> QED
      BY <1>2, <3>2, <3>3
  <2> QED
    BY <2>1
<1>16. ASSUME NEW k \in D, k # i PROVE k \in W
  <2> DEFINE X == {ver(j) : j \in W}
  <2>1. ver(k) < ver(i)
    BY <1>15, <1>16
  <2>2. ver(k) <= prev[ver(i)]
    <3>1. ver(k) \in C /\ ver(i) \in C
      BY <1>6
    <3> HIDE DEF ver
    <3> QED
      BY <1>10, <1>11, <2>1, <3>1, ChainOrder
  <2>3. log[i].prev # 0 /\ ver(k) <= log[i].prev
    BY <1>2, <1>6, <2>2
  <2>4. PICK j \in W : ver(j) = log[i].prev
    BY <1>13, <2>3
  <2>5. X \in SUBSET C /\ ver(j) \in X
    BY <1>6
  <2>6. ASSUME NEW x \in X PROVE prev[x] \in X \cup {0}
    <3>1. PICK g \in W : x = ver(g)
      OBVIOUS
    <3>2. prev[x] = log[g].prev
      BY <1>6, <3>1
    <3> QED
      BY <1>14, <3>1, <3>2
  <2>7. ver(k) \in X
    <3>1. ver(k) \in C /\ ver(k) <= ver(j)
      BY <1>6, <2>3, <2>4
    <3> HIDE DEF ver, X
    <3> QED
      BY <1>10, <1>11, <2>5, <2>6, <3>1, ChainClosed
  <2>8. PICK g \in W : ver(g) = ver(k)
    BY <2>7
  <2> QED
    BY <1>3, <2>8
<1>17. i \notin W
  <2>1. ~(ver(i) < ver(i))
    BY <1>2
  <2> QED
    BY <1>14, <2>1
<1>18. W = D \ {i}
  BY <1>16, <1>17
<1>19. EventsIn(log, W) = S \ {e}
  <2>1. \A k \in D : k # i => log[k].event # e
    BY <1>3, <1>12
  <2> QED
    BY <1>4, <1>12, <1>18, <2>1 DEF EventsIn
<1>20. Validated(Folded(log, W), e)
  BY <1>13 DEF Ground
<1> QED
  BY <1>19, <1>20 DEF Folded, from_events

\* An account whose stream no longer folds, so that no command can ever load it
\* again, comes from two commands that were saved on the same version or from a
\* second deactivation that was admitted before the first was projected; no
\* interleaving of requests, failures and polls leads there another way.
THEOREM BrickedOnlyByTwoRaces == Spec => []BrickedOnlyByForkOrDoubleDeactivation
<1>1. ASSUME AccountInv, HistoryOK PROVE BrickedOnlyByForkOrDoubleDeactivation
  <2> SUFFICES ASSUME NEW a \in Accounts, load(a).status = "broken", ~Forked(a)
               PROVE  DeactivatedTwice(a)
    BY DEF BrickedOnlyByForkOrDoubleDeactivation
  <2> DEFINE S == Stream(a)
             e == Latest(S)
             before == Fold(NoAccount, S \ {e})
  <2>1. CommandsOK /\ S \in SUBSET EventRecords /\ IsFiniteSet(S)
    BY <1>1, StreamTyped DEF AccountInv
  <2>2. load(a) = IF S = {} THEN NoAccount ELSE apply(before, e)
    BY <2>1, FoldEquation DEF load, from_events
  <2>3. S # {}
    BY <2>2 DEF NoAccount, AccountState
  <2>4. Validated(before, e)
    BY <1>1, <2>3, UnforkedStream
  <2>5. e \in S /\ \A f \in S : f.version <= e.version
    BY <2>1, <2>3, LatestIsLatest
  <2>6. \A f, g \in S : f.version = g.version => f = g
    <3>1. S = {log[i].event : i \in {j \in CommittedSeqs : log[j].acc = a}}
      BY DEF Stream, EventsOf
    <3>2. \A i \in CommittedSeqs : i \in DOMAIN log
      BY DEF CommittedSeqs
    <3> HIDE DEF S
    <3> QED
      BY <1>1, <3>1, <3>2 DEF HistoryOK, VersionsApart
  <2>7. S \ {e} \in SUBSET EventRecords /\ IsFiniteSet(S \ {e})
    BY <2>1, FS_Subset
  <2> HIDE DEF S, e, before
  <2>8. ~Applies(before, e)
    <3> SUFFICES ASSUME Applies(before, e) PROVE FALSE
      OBVIOUS
    <3>1. e.kind \in Kinds
      BY <2>1, <2>5 DEF EventRecords
    <3>2. StatusAfter(before, e.kind) # "broken"
      BY <3>1 DEF Applies, Exists, StatusAfter, Kinds
    <3>3. apply(before, e).status = StatusAfter(before, e.kind)
      BY DEF apply, AccountState
    <3> QED
      BY <2>2, <2>3, <3>2, <3>3
  <2>9. e.kind = "Deactivated" /\ Exists(before)
    BY <2>4, <2>8 DEF Validated
  <2>10. before.deleted
    BY <2>8, <2>9 DEF Applies
  <2>11. PICK f \in S \ {e} : /\ f.kind = "Deactivated"
                              /\ \A g \in S \ {e} : g.kind = "Reactivated" => g.version < f.version
    BY <2>6, <2>7, <2>10, DeletedByDeactivation DEF before
  <2>12. f.version \in Nat /\ e.version \in Nat
    BY <2>1, <2>5, <2>11, BoundsAssumption DEF EventRecords
  <2>13. f.version < e.version
    BY <2>5, <2>6, <2>11, <2>12
  <2>14. \A g \in S : g.kind = "Reactivated" => g.version < f.version \/ g.version > e.version
    BY <2>9, <2>11
  <2> QED
    BY <2>5, <2>9, <2>11, <2>13, <2>14 DEF DeactivatedTwice, S
<1> QED
  BY <1>1, HistoryHolds, PTL

-----------------------------------------------------------------------------
(* The rows of the read model.                                             *)

\* Folding two sets of events one after the other, the first being the older.
LEMMA FoldUnion ==
  ASSUME NEW R \in SUBSET EventRecords, NEW P \in SUBSET EventRecords,
         IsFiniteSet(R), IsFiniteSet(P),
         \A f, g \in R \cup P : f.version = g.version => f = g,
         \A f \in R, g \in P : f.version < g.version
  PROVE  Fold(NoAccount, R \cup P) = Fold(Fold(NoAccount, R), P)
<1> DEFINE acct == Fold(NoAccount, R)
           Sizes == {n \in Nat : \A s \in SUBSET P :
                       Cardinality(s) = n => Fold(NoAccount, R \cup s) = Fold(acct, s)}
<1>1. \A s \in SUBSET P : IsFiniteSet(s) /\ Cardinality(s) \in Nat /\ s \in SUBSET EventRecords
  BY FS_Subset, FS_CardinalityType
<1>2. \A s \in SUBSET P : IsFiniteSet(R \cup s) /\ R \cup s \in SUBSET EventRecords
  BY <1>1, FS_Union
<1>3. 0 \in Sizes
  <2>1. ASSUME NEW s \in SUBSET P, Cardinality(s) = 0
        PROVE  Fold(NoAccount, R \cup s) = Fold(acct, s)
    <3>1. s = {} /\ R \cup s = R
      BY <1>1, <2>1, FS_EmptySet
    <3>2. Fold(acct, s) = acct
      BY <1>1, <3>1, FoldEquation
    <3> QED
      BY <3>1, <3>2
  <2> QED
    BY <2>1
<1>4. ASSUME NEW n \in Sizes PROVE n + 1 \in Sizes
  <2>1. ASSUME NEW s \in SUBSET P, Cardinality(s) = n + 1
        PROVE  Fold(NoAccount, R \cup s) = Fold(acct, s)
    <3> DEFINE e == Latest(s)
               rest == s \ {e}
    <3>1. s # {} /\ n \in Nat
      <4>1. n \in Nat /\ n + 1 # 0
        OBVIOUS
      <4> QED
        BY <2>1, <4>1, FS_EmptySet
    <3>2. e \in s /\ e \in EventRecords /\ \A f \in s : f.version <= e.version
      BY <1>1, <3>1, LatestIsLatest
    <3>3. Cardinality(rest) \in Nat /\ Cardinality(s) = Cardinality(rest) + 1
      BY <1>1, <3>2, RemoveOne
    <3>4. Cardinality(rest) = n /\ rest \in SUBSET P
      BY <2>1, <3>1, <3>3
    <3>5. Fold(NoAccount, R \cup rest) = Fold(acct, rest)
      BY <3>4
    <3>6. Fold(acct, s) = apply(Fold(acct, rest), e)
      BY <1>1, <3>1, FoldEquation
    <3>7. \A f \in R \cup s : f.version \in Nat
      BY <1>2, BoundsAssumption DEF EventRecords
    <3> HIDE DEF e
    <3>8. \A f \in R \cup s : f.version <= e.version
      BY <3>2, <3>7
    <3>9. e \notin R
      <4>1. ~(e.version < e.version)
        BY <3>2, <3>7
      <4> QED
        BY <3>2, <4>1
    <3>10. Latest(R \cup s) = e
      BY <1>2, <3>2, <3>8, LatestIs
    <3>11. (R \cup s) \ {e} = R \cup rest /\ R \cup s # {}
      BY <3>2, <3>9
    <3>12. Fold(NoAccount, R \cup s) = apply(Fold(NoAccount, R \cup rest), e)
      BY <1>2, <3>10, <3>11, FoldEquation
    <3> QED
      BY <3>5, <3>6, <3>12
  <2> HIDE DEF acct
  <2> QED
    BY <2>1
<1>5. Sizes = Nat
  <2>1. Sizes \in SUBSET Nat
    OBVIOUS
  <2> HIDE DEF Sizes
  <2> QED
    BY <1>3, <1>4, <2>1, SetInduction
<1> QED
  BY <1>1, <1>5

\* An account that some committed events of a fold into.
Explained(l, a, acct) == \E V \in SUBSET DOMAIN l : Belong(l, V, a) /\ acct = Folded(l, V)

LEMMA NothingExplained == ASSUME NEW l \in Seq(LogRecords), NEW a PROVE Explained(l, a, NoAccount)
<1>1. {} \in SUBSET DOMAIN l /\ Belong(l, {}, a)
  BY DEF Belong
<1>2. EventsIn(l, {}) = {}
  BY DEF EventsIn
<1>3. {} \in SUBSET EventRecords /\ IsFiniteSet({})
  BY FS_EmptySet
<1>4. Fold(NoAccount, {}) = NoAccount
  BY <1>3, FoldEquation
<1> QED
  BY <1>1, <1>2, <1>4 DEF Explained, Folded, from_events

LEMMA ExplainedKept ==
  ASSUME NEW l, NEW m, NEW a, NEW acct, GrownTo(l, m), Explained(l, a, acct)
  PROVE  Explained(m, a, acct)
<1>1. PICK V \in SUBSET DOMAIN l : Belong(l, V, a) /\ acct = Folded(l, V)
  BY DEF Explained
<1>2. V \in SUBSET DOMAIN m /\ Folded(m, V) = Folded(l, V) /\ Belong(m, V, a)
  BY <1>1, GroundKept
<1> QED
  BY <1>1, <1>2 DEF Explained

\* What a transaction writes is what its own event, once committed, makes of the
\* account it loaded.
LEMMA SavedExplained ==
  ASSUME HistoryOK, CommandsOK, NEW h \in Handlers, req[h].pc = "saved",
         log' = [log EXCEPT ![req[h].seq].state = "committed"]
  PROVE  GrownTo(log, log') /\ Explained(log', req[h].acc, req[h].acct)
<1> DEFINE s == req[h].seq
<1>1. s \in DOMAIN log /\ log[s].state = "open"
  BY DEF CommandsOK, SavedIsOpen
<1>2. /\ DOMAIN log' = DOMAIN log /\ \A i \in DOMAIN log : i # s => log'[i] = log[i]
      /\ log'[s] = [log[s] EXCEPT !.state = "committed"] /\ log' \in Seq(LogRecords)
  BY <1>1, LogMarked
<1>3. log[s] \in LogRecords /\ log[s].event \in EventRecords
  BY <1>1, LogTyped
<1>4. log'[s].state = "committed" /\ log'[s].acc = log[s].acc /\ log'[s].event = log[s].event
      /\ log'[s].prev = log[s].prev
  BY <1>2, <1>3 DEF LogRecords
<1>5. GrownTo(log, log')
  BY <1>1, <1>2, <1>4 DEF GrownTo
<1>6. log[s].acc = req[h].acc /\ log[s].event = req[h].event
  BY DEF HistoryOK, RequestGrounded
<1>7. PICK V \in SUBSET DOMAIN log :
        Ground(log, V, req[h].acc, req[h].event) /\ req[h].acct = apply(Folded(log, V), req[h].event)
  BY DEF HistoryOK, RequestGrounded
<1>8. V \in SUBSET DOMAIN log' /\ Folded(log', V) = Folded(log, V) /\ Ground(log', V, req[h].acc, req[h].event)
  <2>1. PICK m : m = log'
    OBVIOUS
  <2>2. V \in SUBSET DOMAIN m /\ Folded(m, V) = Folded(log, V) /\ Ground(m, V, req[h].acc, req[h].event)
    BY <1>5, <1>7, <2>1, GroundKept
  <2> QED
    BY <2>1, <2>2
<1> DEFINE e == req[h].event
           E == EventsIn(log', V)
           U == V \cup {s}
<1>9. E \in SUBSET EventRecords /\ IsFiniteSet(E) /\ e \in EventRecords
  BY <1>2, <1>3, <1>6, <1>8, EventsInTyped
<1>10. EventsIn(log', U) = E \cup {e}
  BY <1>4, <1>6 DEF EventsIn
<1>11. \A f \in E : f.version < e.version
  BY <1>8 DEF EventsIn, Ground
<1>12. U \in SUBSET DOMAIN log' /\ Belong(log', U, req[h].acc)
  BY <1>1, <1>2, <1>4, <1>6, <1>8 DEF Ground, Belong
<1> HIDE DEF e, E, U
<1>13. \A f \in E : f.version \in Nat /\ e.version \in Nat
  BY <1>9, BoundsAssumption DEF EventRecords
<1>14. e \notin E
  BY <1>11, <1>13
<1>15. E \cup {e} \in SUBSET EventRecords /\ IsFiniteSet(E \cup {e})
  BY <1>9, FS_AddElement
<1>16. \A f \in E \cup {e} : f.version <= e.version
  <2>1. e.version \in Nat
    BY <1>9, BoundsAssumption DEF EventRecords
  <2> QED
    BY <1>11, <1>13, <2>1
<1>17. Latest(E \cup {e}) = e
  <2> DEFINE L == Latest(E \cup {e})
  <2>1. L \in E \cup {e} /\ e.version <= L.version
    BY <1>15, LatestIsLatest
  <2>2. CASE L \in E
    BY <1>11, <1>13, <2>1, <2>2
  <2> QED
    BY <2>1, <2>2
<1>18. Fold(NoAccount, E \cup {e}) = apply(Fold(NoAccount, E), e)
  <2>1. (E \cup {e}) \ {e} = E /\ E \cup {e} # {}
    BY <1>14
  <2> QED
    BY <1>15, <1>17, <2>1, FoldEquation
<1>19. Folded(log', U) = apply(Folded(log', V), e)
  BY <1>10, <1>18 DEF Folded, from_events, E
<1> QED
  BY <1>5, <1>7, <1>8, <1>12, <1>19 DEF Explained, e

\* A request writes the row of a, when its transaction commits.
RowWritten(h, a) ==
  /\ req[h].pc = "saved" /\ req[h].acc = a /\ WritesRow(req[h].op) /\ ReadsBack(req[h])
  /\ log' = [log EXCEPT ![req[h].seq].state = "committed"]
  /\ rows'[a] = req[h].acct /\ ~Exists(poll.writes[a]) /\ poll' = poll

\* How a row changes: it does not, or a poll commits what it has written, or a
\* request does.
RowMoves(a) ==
  \/ rows'[a] = rows[a]
  \/ Exists(poll.writes[a]) /\ rows'[a] = poll.writes[a] /\ poll' = IdlePoll
  \/ \E h \in Handlers : RowWritten(h, a)

\* How the writes of a poll come about.
WriteMoves(a) ==
  Exists(poll'.writes[a]) =>
    \/ poll'.writes[a] = poll.writes[a]
    \/ /\ poll.pc = "folded" /\ a = poll.cur /\ poll'.writes[a] = poll.entity
       /\ Upserts(rows[a], poll.entity) /\ rows' = rows

FoldMoves ==
  poll'.pc = "folded" =>
    \/ poll.pc = "folded" /\ poll'.cur = poll.cur /\ poll'.entity = poll.entity
    \/ poll'.cur \in Accounts /\ poll'.entity = FoldsInto(poll'.cur) /\ log' = log

LEMMA PollSteps ==
  ASSUME AccountInv, PollStep
  PROVE  /\ \A a \in Accounts : WriteMoves(a)
         /\ FoldMoves
<1>1. poll \in PollRecords /\ poll.writes \in [Accounts -> States]
  BY DEF AccountInv, PollOK, PollRecords
<1>2. IdlePoll.pc = "idle" /\ \A a \in Accounts : ~Exists(IdlePoll.writes[a])
  BY DEF IdlePoll, Exists, NoAccount, AccountState
<1>3. CASE PollRead
  <2>1. poll = IdlePoll /\ poll'.pc = "read" /\ poll'.writes = poll.writes
    BY <1>1, <1>3 DEF PollRead, PollRecords
  <2> QED
    BY <2>1 DEF WriteMoves, FoldMoves
<1>4. CASE PollEmpty
  BY <1>4 DEF PollEmpty, vars, WriteMoves, FoldMoves
<1>5. CASE \E a \in Accounts : PollFold(a)
  <2>1. PICK a \in Accounts : PollFold(a)
    BY <1>5
  <2>2. poll'.writes = poll.writes /\ log' = log
    BY <1>1, <2>1 DEF PollFold, PollRecords, commandVars
  <2>3. poll'.pc = "folded" => poll'.cur = a /\ poll'.entity = FoldsInto(a)
    <3>1. CASE Skips(a)
      <4>1. poll' = [poll EXCEPT !.todo = @ \ {a}] /\ poll.pc = "read"
        BY <2>1, <3>1 DEF PollFold
      <4> QED
        BY <1>1, <4>1 DEF PollRecords
    <3>2. CASE ~Skips(a)
      <4>1. poll' = [poll EXCEPT !.pc = "folded", !.cur = a, !.todo = @ \ {a}, !.entity = FoldsInto(a)]
        BY <2>1, <3>2 DEF PollFold
      <4> QED
        BY <1>1, <4>1 DEF PollRecords
    <3> QED
      BY <3>1, <3>2
  <2>4. poll'.pc = "folded" => poll'.cur \in Accounts /\ poll'.entity = FoldsInto(poll'.cur)
    BY <2>3
  <2> QED
    BY <2>2, <2>4 DEF WriteMoves, FoldMoves
<1>6. CASE \E granted \in BOOLEAN : PollWrite(granted)
  <2>1. PICK granted \in BOOLEAN : PollWrite(granted)
    BY <1>6
  <2> DEFINE w == IF Upserts(rows[poll.cur], poll.entity) THEN poll.entity ELSE poll.writes[poll.cur]
             writes == [poll.writes EXCEPT ![poll.cur] = w]
             removes == [poll.removes EXCEPT ![poll.cur] = Cascade]
  <2>2. /\ rows' = rows /\ poll.pc = "folded"
        /\ poll' = [poll EXCEPT !.pc = "read", !.cur = "none", !.entity = NoAccount,
                                !.writes = writes, !.removes = removes]
    BY <1>1, <2>1 DEF PollWrite, Written, PollRecords
  <2> HIDE DEF writes, removes
  <2>3. poll'.pc = "read" /\ poll'.writes = writes
    BY <1>1, <2>2 DEF PollRecords
  <2> HIDE DEF w
  <2>4. poll'.pc = "read" /\ poll'.writes = [poll.writes EXCEPT ![poll.cur] = w]
    BY <2>3 DEF writes
  <2>5. ASSUME NEW a \in Accounts PROVE WriteMoves(a)
    <3>1. CASE a # poll.cur
      BY <1>1, <2>4, <3>1 DEF WriteMoves
    <3>2. CASE a = poll.cur
      <4>1. poll'.writes[a] = w
        BY <1>1, <2>4, <3>2
      <4> QED
        BY <2>2, <3>2, <4>1 DEF WriteMoves, w
    <3> QED
      BY <3>1, <3>2
  <2> QED
    BY <2>4, <2>5 DEF FoldMoves
<1>7. CASE PollWriteFails
  <2>1. poll'.pc = "read" /\ poll'.writes = poll.writes
    BY <1>1, <1>7 DEF PollWriteFails, Written, PollRecords
  <2> QED
    BY <2>1 DEF WriteMoves, FoldMoves
<1>8. CASE PollAbort
  BY <1>2, <1>8 DEF PollAbort, WriteMoves, FoldMoves
<1> QED
  BY <1>3, <1>4, <1>5, <1>6, <1>7, <1>8 DEF PollStep

LEMMA RowsMove ==
  ASSUME AccountInv, [Next]_vars
  PROVE  /\ \A a \in Accounts : RowMoves(a) /\ WriteMoves(a)
         /\ FoldMoves
<1>1. CommandsOK /\ rows \in [Accounts -> States] /\ poll.writes \in [Accounts -> States]
  BY DEF AccountInv, CommandsOK, PollOK, PollRecords
<1>2. CASE poll' = poll /\ rows' = rows
  BY <1>2 DEF RowMoves, WriteMoves, FoldMoves
<1>3. CASE PollStep
  <2>1. rows' = rows
    BY <1>3 DEF PollStep, PollRead, PollEmpty, PollFold, PollWrite, PollWriteFails, PollAbort,
       commandVars, vars
  <2> QED
    BY <1>3, <2>1, PollSteps DEF RowMoves
<1>4. CASE PollCommit
  <2>1. poll' = IdlePoll
        /\ \A a \in Accounts : rows'[a] = IF Exists(poll.writes[a]) THEN poll.writes[a] ELSE rows[a]
    BY <1>4 DEF PollCommit
  <2>2. IdlePoll.pc = "idle" /\ \A a \in Accounts : ~Exists(IdlePoll.writes[a])
    BY DEF IdlePoll, Exists, NoAccount, AccountState
  <2> QED
    BY <2>1, <2>2 DEF RowMoves, WriteMoves, FoldMoves
<1>5. ASSUME NEW h \in Handlers, NEW fields, CommitTx(h, fields), ~RowLocked(h), poll' = poll,
             NEW a \in Accounts
      PROVE  RowMoves(a)
  <2>1. /\ req[h].pc = "saved" /\ ReadsBack(req[h])
        /\ log' = [log EXCEPT ![req[h].seq].state = "committed"]
        /\ rows' = IF WritesRow(req[h].op) THEN [rows EXCEPT ![req[h].acc] = req[h].acct] ELSE rows
    BY <1>5 DEF CommitTx
  <2>2. WritesRow(req[h].op) => ~Exists(poll.writes[req[h].acc])
    BY <1>5 DEF RowLocked
  <2>3. CASE WritesRow(req[h].op) /\ a = req[h].acc
    <3>1. rows'[a] = req[h].acct
      BY <1>1, <2>1, <2>3
    <3>2. RowWritten(h, a)
      BY <1>5, <2>1, <2>2, <2>3, <3>1 DEF RowWritten
    <3> QED
      BY <3>2 DEF RowMoves
  <2>4. CASE ~(WritesRow(req[h].op) /\ a = req[h].acc)
    <3>1. rows'[a] = rows[a]
      BY <1>1, <2>1, <2>4
    <3> QED
      BY <3>1 DEF RowMoves
  <2> QED
    BY <2>3, <2>4
<1>6. ASSUME NEW h \in Handlers, Request(h), ~(poll' = poll /\ rows' = rows), NEW a \in Accounts
      PROVE  poll' = poll /\ RowMoves(a)
  <2>1. poll' = poll
    BY <1>6 DEF Request
  <2>2. PICK fields : CommitTx(h, fields) /\ ~RowLocked(h)
    BY <1>6, <2>1 DEF Request, Arrives, create_account_route, update_account_by_id, deactivate_account_by_id,
       reactivate_account_by_id, suspend_account_by_id, unsuspend_account_by_id,
       ban_account_by_id, unban_account_by_id, Admit, Load, Reject, Save, Conflict, DetailNotFound,
       ChangeRelation, Fail
  <2> QED
    BY <1>5, <2>1, <2>2
<1>7. CASE \E h \in Handlers : Request(h)
  <2>1. CASE ~(poll' = poll /\ rows' = rows)
    <3>1. PICK h \in Handlers : Request(h)
      BY <1>7
    <3>2. poll' = poll /\ \A a \in Accounts : RowMoves(a)
      BY <1>6, <2>1, <3>1 DEF Request
    <3> QED
      BY <3>2 DEF WriteMoves, FoldMoves
  <2> QED
    BY <1>2, <2>1
<1>8. CASE (Tick \/ \E a \in Accounts : FollowChanges(a)) /\ UNCHANGED <<checkpoint, poll>>
  BY <1>2, <1>8 DEF Tick, FollowChanges
<1>9. CASE \E a \in Accounts : ProjectProfile(a)
  BY <1>2, <1>9 DEF ProjectProfile
<1>10. CASE UNCHANGED vars
  BY <1>2, <1>10 DEF vars
<1> QED
  BY <1>3, <1>4, <1>7, <1>8, <1>9, <1>10 DEF Next

\* The log only grows, whatever happens.
LEMMA LogGrows == ASSUME AccountInv, HistoryOK, [Next]_vars PROVE GrownTo(log, log')
<1>1. CommandsOK
  BY DEF AccountInv
<1>2. CASE log' = log
  BY <1>2, LogSame
<1>3. ASSUME NEW h \in Handlers, req[h].pc = "saved", NEW st \in {"committed", "aborted"},
             log' = [log EXCEPT ![req[h].seq].state = st]
      PROVE  GrownTo(log, log')
  <2>1. req[h].seq \in DOMAIN log /\ log[req[h].seq].state = "open" /\ log[req[h].seq] \in LogRecords
    BY <1>1, <1>3, LogTyped DEF CommandsOK, SavedIsOpen
  <2>2. /\ DOMAIN log' = DOMAIN log /\ \A i \in DOMAIN log : i # req[h].seq => log'[i] = log[i]
        /\ log'[req[h].seq] = [log[req[h].seq] EXCEPT !.state = st]
    BY <1>1, <1>3, <2>1, LogMarked
  <2> QED
    BY <2>1, <2>2 DEF GrownTo, LogRecords
<1>4. ASSUME NEW h \in Handlers, Save(h) PROVE GrownTo(log, log')
  <2>1. PICK row : log' = Append(log, row)
    BY <1>4 DEF Save
  <2>2. log \in Seq(LogRecords) /\ Len(log) \in Nat /\ DOMAIN log = 1 .. Len(log)
    BY <1>1, LogTyped DEF CommandsOK
  <2>3. \A i \in DOMAIN log : i \in DOMAIN log' /\ log'[i] = log[i]
    BY <2>1, <2>2
  <2> QED
    BY <2>3 DEF GrownTo
<1>5. CASE \E h \in Handlers : Request(h)
  <2>1. PICK h \in Handlers : Request(h)
    BY <1>5
  <2>2. \/ log' = log \/ Save(h)
        \/ /\ req[h].pc = "saved"
           /\ \E st \in {"committed", "aborted"} : log' = [log EXCEPT ![req[h].seq].state = st]
    BY <2>1 DEF Request, Arrives, create_account_route, update_account_by_id, deactivate_account_by_id,
       reactivate_account_by_id, suspend_account_by_id, unsuspend_account_by_id,
       ban_account_by_id, unban_account_by_id, Admit, Load, Reject, Conflict, DetailNotFound,
       ChangeRelation, Fail, CommitTx
  <2> QED
    BY <1>2, <1>3, <1>4, <2>2
<1>6. CASE ~\E h \in Handlers : Request(h)
  <2>1. log' = log
    BY <1>6 DEF Next, vars, Tick, FollowChanges, ProjectProfile, PollStep, PollRead, PollEmpty,
       PollFold, PollWrite, PollWriteFails, PollAbort, PollCommit, commandVars
  <2> QED
    BY <1>2, <2>1
<1> QED
  BY <1>5, <1>6

-----------------------------------------------------------------------------
(* Rows are folds of committed events.                                     *)

\* No suspension that a row shows has expired.
NoneExpired == \A a \in Accounts : ~Expired(rows[a], now)

RowsOK ==
  /\ \A a \in Accounts : Explained(log, a, rows[a])
  /\ \A a \in Accounts : Exists(poll.writes[a]) => Explained(log, a, poll.writes[a])
  /\ poll.pc = "folded" => Explained(log, poll.cur, poll.entity)

\* The events of an account that the poll has read and the row has not seen.
PendingSeqs(a) == {i \in poll.batch : log[i].acc = a /\ log[i].event.version > Existing(a).version}

LEMMA PendingBelong ==
  ASSUME AccountInv, NEW a \in Accounts
  PROVE  /\ PendingSeqs(a) \in SUBSET DOMAIN log /\ Belong(log, PendingSeqs(a), a)
         /\ EventsIn(log, PendingSeqs(a)) = Pending(a)
<1>1. \A i \in poll.batch : i \in DOMAIN log /\ log[i].state = "committed"
  BY DEF AccountInv, PollOK, CommittedSeqs
<1> QED
  BY <1>1 DEF PendingSeqs, Belong, EventsIn, Pending, Envelopes, EventsOf

LEMMA FoldExplained ==
  ASSUME AccountInv, HistoryOK, NEW a \in Accounts, Explained(log, a, rows[a]),
         ~Expired(rows[a], now)
  PROVE  Explained(log, a, FoldsInto(a))
<1> DEFINE B == PendingSeqs(a)
           old == Existing(a)
<1>1. CommandsOK /\ log \in Seq(LogRecords)
  BY DEF AccountInv, CommandsOK
<1>2. B \in SUBSET DOMAIN log /\ Belong(log, B, a) /\ EventsIn(log, B) = Pending(a)
  BY PendingBelong
<1>3. Explained(log, a, old) /\ old # Broken
  <2>1. CASE Exists(rows[a]) /\ ~rows[a].deleted
    <3>1. old = rows[a]
      BY <2>1 DEF Existing, account_from_row
    <3> QED
      BY <2>1, <3>1 DEF Exists, Broken, AccountState
  <2>2. CASE ~(Exists(rows[a]) /\ ~rows[a].deleted)
    <3>1. old = NoAccount
      BY <2>2 DEF Existing
    <3>2. Explained(log, a, NoAccount)
      BY <1>1, NothingExplained
    <3>3. NoAccount # Broken
      BY DEF NoAccount, Broken, AccountState
    <3> QED
      BY <3>1, <3>2, <3>3
  <2> QED
    BY <2>1, <2>2
<1>4. PICK V \in SUBSET DOMAIN log : Belong(log, V, a) /\ old = Folded(log, V)
  BY <1>3 DEF Explained
<1> DEFINE R == EventsIn(log, V)
           P == Pending(a)
<1>5. R \in SUBSET EventRecords /\ IsFiniteSet(R) /\ P \in SUBSET EventRecords /\ IsFiniteSet(P)
  BY <1>1, <1>2, EventsInTyped
<1>6. old = Fold(NoAccount, R)
  BY <1>4 DEF Folded, from_events
<1>7. \A i \in V : log[i].event.version <= old.version
  BY <1>1, <1>3, <1>4, FoldedHead
<1>8. \A f \in R : f.version <= old.version
  BY <1>7 DEF EventsIn
<1>9. \A g \in P : g.version > old.version
  BY DEF Pending
<1>10. EventsIn(log, V \cup B) = R \cup P
  BY <1>2 DEF EventsIn
<1>11. \A f, g \in R \cup P : f.version = g.version => f = g
  <2>1. \A f \in R \cup P : \E i \in DOMAIN log : f = log[i].event
    BY <1>2, <1>10 DEF EventsIn
  <2> HIDE DEF R, P
  <2> QED
    BY <2>1 DEF HistoryOK, VersionsApart
<1>12. old \in States
  BY <1>1, <1>4, EventsInTyped
<1> HIDE DEF R, P, old, B
<1>13. \A f \in R, g \in P : f.version < g.version
  <2>1. old.version \in Nat
    BY <1>12 DEF States
  <2>2. \A f \in R \cup P : f.version \in Nat
    BY <1>5, BoundsAssumption DEF EventRecords
  <2> QED
    BY <1>8, <1>9, <2>1, <2>2
<1>14. Fold(NoAccount, R \cup P) = Fold(old, P)
  BY <1>5, <1>6, <1>11, <1>13, FoldUnion
<1>15. Folded(log, V \cup B) = FoldsInto(a)
  BY <1>10, <1>14 DEF Folded, from_events, FoldsInto, P, old
<1>16. V \cup B \in SUBSET DOMAIN log /\ Belong(log, V \cup B, a)
  BY <1>2, <1>4 DEF Belong
<1> QED
  BY <1>15, <1>16 DEF Explained

LEMMA RowsInit == ProjectionInit => RowsOK
<1> SUFFICES ASSUME ProjectionInit PROVE RowsOK
  OBVIOUS
<1>1. log \in Seq(LogRecords) /\ poll.pc = "idle" /\ \A a \in Accounts : rows[a] = NoAccount
  BY DEF ProjectionInit, Init, IdlePoll
<1>2. \A a \in Accounts : ~Exists(poll.writes[a])
  BY DEF ProjectionInit, IdlePoll, Exists, NoAccount, AccountState
<1> QED
  BY <1>1, <1>2, NothingExplained DEF RowsOK

LEMMA RowsStep == AccountInv /\ HistoryOK /\ RowsOK /\ NoneExpired /\ [Next]_vars => RowsOK'
<1> SUFFICES ASSUME AccountInv, HistoryOK, RowsOK, NoneExpired, [Next]_vars PROVE RowsOK'
  OBVIOUS
<1>1. GrownTo(log, log') /\ CommandsOK
  BY LogGrows DEF AccountInv
<1>2. PICK m : m = log'
  OBVIOUS
<1>3. \A a, acct : Explained(log, a, acct) => Explained(m, a, acct)
  BY <1>1, <1>2, ExplainedKept
<1>4. ASSUME NEW a \in Accounts PROVE Explained(m, a, rows'[a])
  <2>1. RowMoves(a)
    BY RowsMove
  <2>2. CASE rows'[a] = rows[a]
    BY <1>3, <2>2 DEF RowsOK
  <2>3. CASE Exists(poll.writes[a]) /\ rows'[a] = poll.writes[a]
    BY <1>3, <2>3 DEF RowsOK
  <2>4. CASE \E h \in Handlers : RowWritten(h, a)
    <3>1. PICK h \in Handlers : RowWritten(h, a)
      BY <2>4
    <3>2. /\ req[h].pc = "saved" /\ log' = [log EXCEPT ![req[h].seq].state = "committed"]
          /\ req[h].acc = a /\ rows'[a] = req[h].acct
      BY <3>1 DEF RowWritten
    <3>3. Explained(log', req[h].acc, req[h].acct)
      BY <1>1, <3>2, SavedExplained
    <3> QED
      BY <1>2, <3>2, <3>3
  <2> QED
    BY <2>1, <2>2, <2>3, <2>4 DEF RowMoves
<1>5. ASSUME NEW a \in Accounts, Exists(poll'.writes[a]) PROVE Explained(m, a, poll'.writes[a])
  <2>1. WriteMoves(a)
    BY RowsMove
  <2>2. CASE poll'.writes[a] = poll.writes[a]
    BY <1>3, <1>5, <2>2 DEF RowsOK
  <2>3. CASE poll.pc = "folded" /\ a = poll.cur /\ poll'.writes[a] = poll.entity
    BY <1>3, <2>3 DEF RowsOK
  <2> QED
    BY <1>5, <2>1, <2>2, <2>3 DEF WriteMoves
<1>6. ASSUME poll'.pc = "folded" PROVE Explained(m, poll'.cur, poll'.entity)
  <2>1. FoldMoves
    BY RowsMove
  <2>2. CASE poll.pc = "folded" /\ poll'.cur = poll.cur /\ poll'.entity = poll.entity
    BY <1>3, <2>2 DEF RowsOK
  <2>3. CASE poll'.cur \in Accounts /\ poll'.entity = FoldsInto(poll'.cur)
    <3>1. PICK a \in Accounts : a = poll'.cur
      BY <2>3
    <3>2. Explained(log, a, FoldsInto(a))
      BY FoldExplained DEF RowsOK, NoneExpired
    <3> QED
      BY <1>3, <2>3, <3>1, <3>2
  <2> QED
    BY <1>6, <2>1, <2>2, <2>3 DEF FoldMoves
<1> QED
  BY <1>2, <1>4, <1>5, <1>6 DEF RowsOK

\* As long as no suspension expires while a row shows it, each row of the read
\* model is what some of the committed events of its account fold into, for any
\* number of overlapping requests, whatever the window leaves out and whichever
\* statements fail.  An expired suspension is read back as an active account,
\* which no event says.
THEOREM RowsAreExplained == Spec /\ []NoneExpired => []RowExplained
<1>1. RowsOK => RowExplained
  <2> SUFFICES ASSUME RowsOK, NEW a \in Accounts
               PROVE  \E S \in SUBSET Stream(a) : from_events(S) = rows[a]
    BY DEF RowExplained
  <2>1. PICK V \in SUBSET DOMAIN log : Belong(log, V, a) /\ rows[a] = Folded(log, V)
    BY DEF RowsOK, Explained
  <2>2. EventsIn(log, V) \in SUBSET Stream(a)
    BY <2>1 DEF EventsIn, Belong, Stream, EventsOf, CommittedSeqs
  <2> QED
    BY <2>1, <2>2 DEF Folded
<1> QED
  BY <1>1, HistoryHolds, RowsInit, RowsStep, PTL DEF Spec

-----------------------------------------------------------------------------
(* Rows move forward.                                                      *)

\* The request has loaded the stream, and its event has not been committed.
InHand(r) == r.pc \in {"loaded", "saved"}

\* Requests on the same account do not overlap between load and commit.
Apart ==
  \A h, k \in Handlers : InHand(req[h]) /\ InHand(req[k]) /\ req[h].acc = req[k].acc => h = k

\* The version of a row: none, or that of a committed event.
VersionKnown(l, a, v) ==
  \/ v = 0
  \/ \E i \in DOMAIN l : l[i].state = "committed" /\ l[i].acc = a /\ l[i].event.version = v

\* The event of a request is later than what is committed of its account.
Newest(l, r) ==
  \A i \in DOMAIN l :
    l[i].state = "committed" /\ l[i].acc = r.acc => l[i].event.version < r.event.version

ForwardOK ==
  /\ \A a \in Accounts : rows[a] = NoAccount \/ Exists(rows[a])
  /\ \A a \in Accounts : VersionKnown(log, a, rows[a].version)
  /\ \A a \in Accounts : Exists(poll.writes[a]) =>
       /\ VersionKnown(log, a, poll.writes[a].version)
       /\ rows[a].version <= poll.writes[a].version
  /\ poll.pc = "folded" => VersionKnown(log, poll.cur, poll.entity.version)
  /\ \A h \in Handlers : InHand(req[h]) => Newest(log, req[h])

\* An event comes into hand when the stream is loaded, with a version above all
\* others, and stays the same until it is committed.
HandMoves(k) ==
  InHand(req'[k]) =>
    \/ InHand(req[k]) /\ req'[k].acc = req[k].acc /\ req'[k].event = req[k].event
    \/ log' = log /\ \A i \in DOMAIN log : log[i].event.version < req'[k].event.version

\* What is committed now was before, or its request has just let go of it.
CommitMoves(i) ==
  \/ i \in DOMAIN log /\ log'[i] = log[i]
  \/ \E h \in Handlers :
       InHand(req[h]) /\ log'[i].acc = req[h].acc /\ ~InHand(req'[h])

Moves ==
  /\ \A k \in Handlers : HandMoves(k)
  /\ \A i \in DOMAIN log' : log'[i].state = "committed" => CommitMoves(i)

LEMMA MovesElsewhere ==
  ASSUME CommandsOK, NEW h \in Handlers, NEW next, ~InHand(next),
         req' = [req EXCEPT ![h] = next], log' = log
  PROVE  Moves
<1>1. \A k \in Handlers : InHand(req'[k]) => req'[k] = req[k]
  BY DEF CommandsOK
<1> QED
  BY <1>1 DEF Moves, HandMoves, CommitMoves

LEMMA MovesAtEnd ==
  ASSUME CommandsOK, HistoryOK, NEW h \in Handlers, req[h].pc = "saved", NEW next, ~InHand(next),
         req' = [req EXCEPT ![h] = next], NEW st \in {"committed", "aborted"},
         log' = [log EXCEPT ![req[h].seq].state = st]
  PROVE  Moves
<1>1. req'[h] = next /\ \A k \in Handlers : InHand(req'[k]) => req'[k] = req[k]
  BY DEF CommandsOK
<1>2. /\ req[h].seq \in DOMAIN log /\ log[req[h].seq].state = "open" /\ log[req[h].seq] \in LogRecords
      /\ log[req[h].seq].acc = req[h].acc
  BY LogTyped DEF CommandsOK, SavedIsOpen, HistoryOK, RequestGrounded
<1>3. /\ DOMAIN log' = DOMAIN log /\ \A i \in DOMAIN log : i # req[h].seq => log'[i] = log[i]
      /\ log'[req[h].seq] = [log[req[h].seq] EXCEPT !.state = st]
  BY <1>2, LogMarked
<1>4. log'[req[h].seq].acc = req[h].acc
  BY <1>2, <1>3 DEF LogRecords
<1>5. InHand(req[h]) /\ ~InHand(req'[h])
  BY <1>1 DEF InHand
<1>6. \A i \in DOMAIN log' : CommitMoves(i)
  BY <1>3, <1>4, <1>5 DEF CommitMoves
<1> QED
  BY <1>1, <1>6 DEF Moves, HandMoves

LEMMA LoadMoves == ASSUME CommandsOK, NEW h \in Handlers, Load(h) PROVE Moves
<1> DEFINE r == req[h]
           event == [r.event EXCEPT !.version = generate_id]
           next == [r EXCEPT !.pc = "loaded", !.event = event, !.acct = load(r.acc)]
<1>1. req' = [req EXCEPT ![h] = next] /\ log' = log
  BY DEF Load
<1>2. r \in RequestRecords /\ r.event \in RequestEvents
  BY DEF CommandsOK, RequestRecords
<1>3. event.version = generate_id
  BY <1>2 DEF RequestEvents
<1> HIDE DEF event
<1>4. next.event = event
  BY <1>2 DEF RequestRecords
<1> HIDE DEF next
<1>5. \A i \in DOMAIN log : log[i].event.version < generate_id
  BY GeneratedIsNew DEF UsedVersions
<1>6. req'[h] = next /\ \A k \in Handlers : k # h => req'[k] = req[k]
  BY <1>1 DEF CommandsOK
<1>7. \A i \in DOMAIN log : log[i].event.version < req'[h].event.version
  BY <1>3, <1>4, <1>5, <1>6
<1>8. \A k \in Handlers : HandMoves(k)
  BY <1>1, <1>6, <1>7 DEF HandMoves
<1> QED
  BY <1>1, <1>8 DEF Moves, CommitMoves

LEMMA SaveMoves == ASSUME CommandsOK, NEW h \in Handlers, Save(h) PROVE Moves
<1> DEFINE r == req[h]
           state == IF r.op = "update" THEN "committed" ELSE "open"
           row == [acc |-> r.acc, event |-> r.event, prev |-> r.acct.version, state |-> state]
           saved == [r EXCEPT !.pc = "saved", !.seq = Len(log) + 1, !.acct = apply(r.acct, r.event)]
           next == IF r.op = "update" THEN Idle ELSE saved
           n == Len(log) + 1
<1>1. log' = Append(log, row) /\ req' = [req EXCEPT ![h] = next] /\ r.pc = "loaded"
  BY DEF Save
<1>2. r \in RequestRecords /\ log \in Seq(LogRecords)
  BY DEF CommandsOK
<1>3. Len(log) \in Nat /\ DOMAIN log = 1 .. Len(log)
  BY LogTyped
<1>4. row.acc = r.acc /\ row.state = state
  OBVIOUS
<1>5. saved.acc = r.acc /\ saved.event = r.event
  BY <1>2 DEF RequestRecords
<1>6. /\ r.op = "update" => next.pc = "idle"
      /\ r.op # "update" => next = saved
  BY IdleOK
<1>7. req'[h] = next /\ \A k \in Handlers : k # h => req'[k] = req[k]
  BY <1>1 DEF CommandsOK
<1>8. InHand(req[h])
  BY <1>1 DEF InHand
<1>9. r.op # "update" => state = "open"
  OBVIOUS
<1> HIDE DEF row, saved, next, state
<1>10. \A i \in DOMAIN log' : (i \in DOMAIN log /\ log'[i] = log[i]) \/ log'[i] = row
  BY <1>1, <1>2, <1>3
<1>11. \A k \in Handlers : HandMoves(k)
  BY <1>5, <1>6, <1>7, <1>8 DEF HandMoves, InHand
<1>12. ASSUME NEW i \in DOMAIN log', log'[i].state = "committed" PROVE CommitMoves(i)
  <2>1. CASE i \in DOMAIN log /\ log'[i] = log[i]
    BY <2>1 DEF CommitMoves
  <2>2. CASE log'[i] = row
    <3>1. ~InHand(req'[h])
      BY <1>4, <1>6, <1>7, <1>9, <1>12, <2>2 DEF InHand
    <3> QED
      BY <1>4, <1>8, <2>2, <3>1 DEF CommitMoves
  <2> QED
    BY <1>10, <2>1, <2>2
<1> QED
  BY <1>11, <1>12 DEF Moves

LEMMA RequestsMove ==
  ASSUME HistoryOK, CommandsOK, NEW h \in Handlers, Request(h)
  PROVE  Moves
<1>1. Idle.pc = "idle" /\ ~InHand(Idle)
  BY IdleOK DEF InHand
<1>2. CASE \E a \in Accounts : Arrives(h, a)
  <2>1. PICK op, a, until : Admit(h, op, a, until)
    BY <1>2 DEF Arrives, create_account_route, update_account_by_id, deactivate_account_by_id,
       reactivate_account_by_id, suspend_account_by_id, unsuspend_account_by_id,
       ban_account_by_id, unban_account_by_id
  <2> DEFINE next == [Idle EXCEPT !.pc = "admitted", !.op = op, !.acc = a,
                                  !.event = Event(Case(op, a, NoAccount).kind, 0, until)]
  <2>2. req' = [req EXCEPT ![h] = next] /\ log' = log
    BY <2>1 DEF Admit
  <2>3. next.pc = "admitted"
    BY DEF Idle
  <2> HIDE DEF next
  <2> QED
    BY <2>2, <2>3, MovesElsewhere DEF InHand
<1>3. CASE Reject(h) \/ Conflict(h)
  <2>1. req' = [req EXCEPT ![h] = Idle] /\ log' = log
    BY <1>3 DEF Reject, Conflict
  <2> QED
    BY <1>1, <2>1, MovesElsewhere
<1>4. CASE ChangeRelation(h)
  <2> DEFINE next == IF Tail(req[h].calls) = <<>> THEN Idle
                     ELSE [req[h] EXCEPT !.calls = Tail(@)]
  <2>1. req' = [req EXCEPT ![h] = next] /\ log' = log /\ req[h].pc = "relations"
    BY <1>4 DEF ChangeRelation
  <2>2. next.pc \in {"idle", "relations"}
    BY <1>1, <2>1 DEF CommandsOK, RequestRecords
  <2> HIDE DEF next
  <2> QED
    BY <2>1, <2>2, MovesElsewhere DEF InHand
<1>5. CASE \E fields \in SUBSET {"metadata"} : CommitTx(h, fields)
  <2> DEFINE calls == Case(req[h].op, req[h].acc, req[h].acct).calls
             next == IF calls = <<>> THEN Idle
                     ELSE [Idle EXCEPT !.pc = "relations", !.op = req[h].op, !.acc = req[h].acc,
                                       !.calls = calls]
  <2>1. /\ req[h].pc = "saved" /\ log' = [log EXCEPT ![req[h].seq].state = "committed"]
        /\ req' = [req EXCEPT ![h] = next]
    BY <1>5 DEF CommitTx
  <2> HIDE DEF calls
  <2>2. next.pc \in {"idle", "relations"}
    BY <1>1 DEF Idle
  <2> HIDE DEF next
  <2>3. ~InHand(next)
    BY <2>2 DEF InHand
  <2> QED
    BY <2>1, <2>3, MovesAtEnd
<1>6. CASE DetailNotFound(h) \/ Fail(h)
  <2>1. req' = [req EXCEPT ![h] = Idle]
    BY <1>6 DEF DetailNotFound, Fail
  <2>2. CASE req[h].pc = "saved"
    <3>1. log' = [log EXCEPT ![req[h].seq].state = "aborted"]
      BY <1>6, <2>2 DEF DetailNotFound, Fail
    <3> QED
      BY <1>1, <2>1, <2>2, <3>1, MovesAtEnd
  <2>3. CASE req[h].pc # "saved"
    <3>1. log' = log
      BY <1>6, <2>3 DEF DetailNotFound, Fail
    <3> QED
      BY <1>1, <2>1, <3>1, MovesElsewhere
  <2> QED
    BY <2>2, <2>3
<1> QED
  BY <1>2, <1>3, <1>4, <1>5, <1>6, LoadMoves, SaveMoves DEF Request

LEMMA AllMove == ASSUME HistoryOK, CommandsOK, [Next]_vars PROVE Moves
<1>1. CASE \E h \in Handlers : Request(h)
  BY <1>1, RequestsMove
<1>2. CASE ~\E h \in Handlers : Request(h)
  <2>1. log' = log /\ req' = req
    BY <1>2 DEF Next, vars, Tick, FollowChanges, ProjectProfile, PollStep, PollRead, PollEmpty,
       PollFold, PollWrite, PollWriteFails, PollAbort, PollCommit, commandVars
  <2> QED
    BY <2>1 DEF Moves, HandMoves, CommitMoves
<1> QED
  BY <1>1, <1>2

LEMMA KnownKept ==
  ASSUME NEW l, NEW m, NEW a, NEW v, GrownTo(l, m), VersionKnown(l, a, v)
  PROVE  VersionKnown(m, a, v)
  BY DEF GrownTo, VersionKnown

\* The row that a request writes exists, and has the version of its event.
LEMMA WrittenRow ==
  ASSUME HistoryOK, CommandsOK, NEW h \in Handlers, NEW a \in Accounts, RowWritten(h, a)
  PROVE  /\ Exists(rows'[a]) /\ rows'[a].version = req[h].event.version
         /\ VersionKnown(log', a, rows'[a].version)
<1> DEFINE s == req[h].seq
           e == req[h].event
<1>1. /\ req[h].pc = "saved" /\ req[h].acc = a /\ req[h].op \in {"create", "detail"}
      /\ log' = [log EXCEPT ![s].state = "committed"] /\ rows'[a] = req[h].acct
  BY DEF RowWritten, WritesRow
<1>2. /\ s \in DOMAIN log /\ log[s].state = "open" /\ log[s] \in LogRecords
      /\ log[s].acc = a /\ log[s].event = e /\ log \in Seq(LogRecords)
  BY <1>1, LogTyped DEF CommandsOK, SavedIsOpen, HistoryOK, RequestGrounded
<1>3. PICK V \in SUBSET DOMAIN log : Ground(log, V, a, e) /\ req[h].acct = apply(Folded(log, V), e)
  BY <1>1 DEF HistoryOK, RequestGrounded
<1>4. e \in EventRecords
  BY <1>2, LogTyped
<1>5. e.kind = KindOf(req[h].op)
  BY <1>1 DEF CommandsOK, RequestOK
<1>6. e.kind \in {"Created", "Updated"}
  BY <1>1, <1>5 DEF KindOf
<1>7. Folded(log, V) \in States
  BY <1>2, <1>3, EventsInTyped DEF Ground
<1> DEFINE old == Folded(log, V)
<1> HIDE DEF old, e, s
<1>8. Applies(old, e)
  BY <1>3, <1>6 DEF Ground, Validated, old
<1>9. apply(old, e).status # "broken"
  <2>1. apply(old, e).status = StatusAfter(old, e.kind)
    BY <1>8 DEF apply, AccountState
  <2>2. e.kind = "Updated" => Exists(old)
    BY <1>8 DEF Applies
  <2> QED
    BY <1>6, <2>1, <2>2 DEF StatusAfter, Exists
<1>10. Broken.status = "broken"
  BY DEF Broken, AccountState
<1>11. Exists(apply(old, e)) /\ apply(old, e).version = e.version
  BY <1>4, <1>7, <1>9, <1>10, ApplyTyped DEF old
<1>12. /\ s \in DOMAIN log' /\ log'[s] = [log[s] EXCEPT !.state = "committed"]
  BY <1>1, <1>2, LogMarked
<1>13. log'[s].state = "committed" /\ log'[s].acc = a /\ log'[s].event = e
  BY <1>2, <1>12 DEF LogRecords
<1>14. VersionKnown(log', a, e.version)
  BY <1>12, <1>13 DEF VersionKnown
<1> QED
  BY <1>1, <1>3, <1>11, <1>14 DEF old, e

\* The fold of a poll has the version of the row, or of an event of the batch.
LEMMA FoldKnown ==
  ASSUME AccountInv, NEW a \in Accounts, VersionKnown(log, a, rows[a].version)
  PROVE  VersionKnown(log, a, FoldsInto(a).version)
<1>1. CommandsOK /\ rows[a] \in States
  BY DEF AccountInv, CommandsOK
<1>2. Existing(a) \in States
  BY <1>1, ExistingTyped
<1>3. Pending(a) \in SUBSET EventRecords /\ IsFiniteSet(Pending(a))
  BY PendingTyped
<1>4. NoAccount.version = 0 /\ Broken.version = 0
  BY DEF NoAccount, Broken, AccountState
<1>5. CASE Pending(a) = {}
  <2>1. FoldsInto(a) = Existing(a)
    BY <1>2, <1>3, <1>5, FoldEquation DEF FoldsInto
  <2>2. account_from_row(rows[a], now).version = rows[a].version
    BY <1>1 DEF account_from_row, States
  <2>3. Existing(a).version \in {rows[a].version, 0}
    BY <1>4, <2>2 DEF Existing
  <2> QED
    BY <2>1, <2>3 DEF VersionKnown
<1>6. CASE Pending(a) # {}
  <2>1. FoldsInto(a) = Broken \/ FoldsInto(a).version = Latest(Pending(a)).version
    BY <1>2, <1>3, <1>6, FoldOfSome DEF FoldsInto
  <2>2. Latest(Pending(a)) \in Pending(a)
    BY <1>3, <1>6, LatestIsLatest
  <2>3. PICK i \in PendingSeqs(a) : log[i].event = Latest(Pending(a))
    BY <2>2, PendingBelong DEF EventsIn
  <2>4. i \in DOMAIN log /\ log[i].state = "committed" /\ log[i].acc = a
    BY <2>3, PendingBelong DEF Belong
  <2> QED
    BY <1>4, <2>1, <2>3, <2>4 DEF VersionKnown
<1> QED
  BY <1>5, <1>6

\* What a step may do to the row of a, when the requests in hand are apart.
LEMMA RowForward ==
  ASSUME AccountInv, HistoryOK, ForwardOK, [Next]_vars, NEW a \in Accounts
  PROVE  /\ rows'[a] = NoAccount \/ Exists(rows'[a])
         /\ rows'[a].version >= rows[a].version
         /\ VersionKnown(log', a, rows'[a].version)
<1>1. CommandsOK /\ rows[a] \in States /\ RowMoves(a)
  BY RowsMove DEF AccountInv, CommandsOK
<1>2. rows[a].version \in Nat
  BY <1>1, BoundsAssumption DEF States
<1>3. GrownTo(log, log')
  BY LogGrows
<1>4. PICK m : m = log'
  OBVIOUS
<1>5. \A v : VersionKnown(log, a, v) => VersionKnown(m, a, v)
  BY <1>3, <1>4, KnownKept
<1>6. VersionKnown(log, a, rows[a].version) /\ (rows[a] = NoAccount \/ Exists(rows[a]))
  BY DEF ForwardOK
<1>7. CASE rows'[a] = rows[a]
  BY <1>2, <1>4, <1>5, <1>6, <1>7
<1>8. CASE Exists(poll.writes[a]) /\ rows'[a] = poll.writes[a]
  <2>1. VersionKnown(log, a, poll.writes[a].version) /\ rows[a].version <= poll.writes[a].version
    BY <1>8 DEF ForwardOK
  <2>2. poll.writes[a] \in States
    BY DEF AccountInv, PollOK, PollRecords
  <2>3. poll.writes[a].version \in Nat
    BY <2>2, BoundsAssumption DEF States
  <2> QED
    BY <1>2, <1>4, <1>5, <1>8, <2>1, <2>3
<1>9. CASE \E h \in Handlers : RowWritten(h, a)
  <2>1. PICK h \in Handlers : RowWritten(h, a)
    BY <1>9
  <2>2. /\ Exists(rows'[a]) /\ rows'[a].version = req[h].event.version
        /\ VersionKnown(log', a, rows'[a].version)
    BY <1>1, <2>1, WrittenRow
  <2>3. req[h].acc = a /\ InHand(req[h])
    BY <2>1 DEF RowWritten, InHand
  <2>4. Newest(log, req[h])
    BY <2>3 DEF ForwardOK
  <2>5. req[h].event.version \in Nat
    BY <1>1, BoundsAssumption DEF CommandsOK, RequestRecords, RequestEvents
  <2>6. rows[a].version = 0 \/ rows[a].version < req[h].event.version
    BY <1>6, <2>3, <2>4 DEF VersionKnown, Newest
  <2> QED
    BY <1>2, <2>2, <2>5, <2>6
<1> QED
  BY <1>1, <1>7, <1>8, <1>9 DEF RowMoves

LEMMA ForwardInit == ProjectionInit => ForwardOK
<1> SUFFICES ASSUME ProjectionInit PROVE ForwardOK
  OBVIOUS
<1>1. poll.pc = "idle" /\ \A a \in Accounts : rows[a] = NoAccount
  BY DEF ProjectionInit, Init, IdlePoll
<1>2. \A a \in Accounts : ~Exists(poll.writes[a])
  BY DEF ProjectionInit, IdlePoll, Exists, NoAccount, AccountState
<1>3. \A h \in Handlers : ~InHand(req[h])
  BY IdleOK DEF ProjectionInit, Init, InHand
<1>4. NoAccount.version = 0
  BY DEF NoAccount, AccountState
<1> QED
  BY <1>1, <1>2, <1>3, <1>4 DEF ForwardOK, VersionKnown

LEMMA ForwardStep == AccountInv /\ HistoryOK /\ ForwardOK /\ Apart /\ [Next]_vars => ForwardOK'
<1> SUFFICES ASSUME AccountInv, HistoryOK, ForwardOK, Apart, [Next]_vars PROVE ForwardOK'
  OBVIOUS
<1>1. GrownTo(log, log') /\ CommandsOK /\ Moves
  BY LogGrows, AllMove DEF AccountInv
<1>2. PICK m : m = log'
  OBVIOUS
<1>3. \A a, v : VersionKnown(log, a, v) => VersionKnown(m, a, v)
  BY <1>1, <1>2, KnownKept
<1>4. ASSUME NEW a \in Accounts PROVE (rows'[a] = NoAccount \/ Exists(rows'[a])) /\ VersionKnown(m, a, rows'[a].version)
  BY <1>2, RowForward
<1>5. ASSUME NEW a \in Accounts, Exists(poll'.writes[a])
      PROVE  VersionKnown(m, a, poll'.writes[a].version) /\ rows'[a].version <= poll'.writes[a].version
  <2>1. WriteMoves(a) /\ RowMoves(a)
    BY RowsMove
  <2>2. CASE poll'.writes[a] = poll.writes[a]
    <3>1. VersionKnown(log, a, poll.writes[a].version) /\ rows[a].version <= poll.writes[a].version
      BY <1>5, <2>2 DEF ForwardOK
    <3>2. ~Exists(IdlePoll.writes[a])
      BY DEF IdlePoll, Exists, NoAccount, AccountState
    <3>3. rows'[a] = rows[a]
      BY <1>5, <2>1, <2>2, <3>2 DEF RowMoves, RowWritten
    <3> QED
      BY <1>3, <2>2, <3>1, <3>3
  <2>3. CASE /\ poll.pc = "folded" /\ a = poll.cur /\ poll'.writes[a] = poll.entity
             /\ Upserts(rows[a], poll.entity) /\ rows' = rows
    <3>1. VersionKnown(log, a, poll.entity.version)
      BY <2>3 DEF ForwardOK
    <3>2. poll.entity \in States /\ rows[a] \in States
      BY DEF AccountInv, PollOK, PollRecords, CommandsOK
    <3>3. poll.entity.version \in Nat /\ rows[a].version \in Nat
      BY <3>2, BoundsAssumption DEF States
    <3>4. NoAccount.version = 0
      BY DEF NoAccount, AccountState
    <3>5. rows[a].version = 0 \/ rows[a].version < poll.entity.version
      BY <2>3, <3>4 DEF Upserts, ForwardOK
    <3> QED
      BY <1>3, <2>3, <3>1, <3>3, <3>5
  <2> QED
    BY <1>5, <2>1, <2>2, <2>3 DEF WriteMoves
<1>6. ASSUME poll'.pc = "folded" PROVE VersionKnown(m, poll'.cur, poll'.entity.version)
  <2>1. FoldMoves
    BY RowsMove
  <2>2. CASE poll.pc = "folded" /\ poll'.cur = poll.cur /\ poll'.entity = poll.entity
    BY <1>3, <2>2 DEF ForwardOK
  <2>3. CASE poll'.cur \in Accounts /\ poll'.entity = FoldsInto(poll'.cur)
    <3>1. PICK a \in Accounts : a = poll'.cur
      BY <2>3
    <3>2. VersionKnown(log, a, FoldsInto(a).version)
      BY FoldKnown DEF ForwardOK
    <3> QED
      BY <1>3, <2>3, <3>1, <3>2
  <2> QED
    BY <1>6, <2>1, <2>2, <2>3 DEF FoldMoves
<1>7. ASSUME NEW k \in Handlers, InHand(req'[k]) PROVE Newest(log', req'[k])
  <2> SUFFICES ASSUME NEW i \in DOMAIN log', log'[i].state = "committed", log'[i].acc = req'[k].acc
               PROVE  log'[i].event.version < req'[k].event.version
    BY DEF Newest
  <2>1. HandMoves(k) /\ CommitMoves(i)
    BY <1>1 DEF Moves
  <2>2. CASE log' = log /\ \A j \in DOMAIN log : log[j].event.version < req'[k].event.version
    BY <2>2
  <2>3. CASE InHand(req[k]) /\ req'[k].acc = req[k].acc /\ req'[k].event = req[k].event
    <3>1. ASSUME NEW h \in Handlers, InHand(req[h]), log'[i].acc = req[h].acc, ~InHand(req'[h])
          PROVE  FALSE
      BY <1>7, <2>3, <3>1 DEF Apart
    <3>2. i \in DOMAIN log /\ log'[i] = log[i]
      BY <2>1, <3>1 DEF CommitMoves
    <3>3. Newest(log, req[k])
      BY <2>3 DEF ForwardOK
    <3> QED
      BY <2>3, <3>2, <3>3 DEF Newest
  <2> QED
    BY <1>7, <2>1, <2>2, <2>3 DEF HandMoves
<1> QED
  BY <1>2, <1>4, <1>5, <1>6, <1>7 DEF ForwardOK

\* A row only moves forward, whatever the polls read, fail to write or write
\* late, as long as no two requests on one account overlap between their load
\* and their commit: no other request separates the row that
\* update_account_detail writes from the stream it loaded.
THEOREM RowsMoveForward == Spec /\ []Apart => OlderVersionNeverOverwrites
<1>1. AccountInv /\ HistoryOK /\ ForwardOK /\ [Next]_vars
        => [\A a \in Accounts : rows'[a].version >= rows[a].version]_vars
  BY RowForward
<1> QED
  BY <1>1, HistoryHolds, ForwardInit, ForwardStep, PTL DEF Spec, OlderVersionNeverOverwrites

-----------------------------------------------------------------------------
(* The account projector implements log tailing.                           *)

LEMMA TailingInitMaps == TailingInit => T!Init
<1> SUFFICES ASSUME TailingInit PROVE T!Init
  OBVIOUS
<1>1. log = <<>> /\ Len(log) = 0 /\ DOMAIN log = {}
  BY DEF TailingInit, ProjectionInit, Init
<1>2. OpenSeqs = {} /\ CommittedSeqs = {}
  BY <1>1 DEF OpenSeqs, CommittedSeqs
<1>3. poll.batch = {} /\ poll.top = 0
  BY DEF TailingInit, ProjectionInit, IdlePoll
<1> QED
  BY <1>1, <1>2, <1>3 DEF TailingInit, ProjectionInit, T!Init

\* Steps that touch neither the log nor what a poll has read.
LEMMA TailingStutters ==
  ASSUME UNCHANGED <<log, checkpoint, consumed>>, poll'.batch = poll.batch, poll'.top = poll.top,
         timely' = timely \cup {s \in CommittedSeqs' \ CommittedSeqs : T!AheadOfPolls(s)}
  PROVE  UNCHANGED T!vars
<1>1. CommittedSeqs' = CommittedSeqs /\ OpenSeqs' = OpenSeqs
  BY DEF CommittedSeqs, OpenSeqs
<1>2. timely' = timely
  BY <1>1
<1> QED
  BY <1>1, <1>2 DEF T!vars

LEMMA SaveMaps ==
  ASSUME AccountInv, NEW h \in Handlers, Save(h), UNCHANGED <<checkpoint, poll, consumed>>,
         timely' = timely \cup {s \in CommittedSeqs' \ CommittedSeqs : T!AheadOfPolls(s)}
  PROVE  T!Next
<1> DEFINE r == req[h]
           state == IF r.op = "update" THEN "committed" ELSE "open"
           row == [acc |-> r.acc, event |-> r.event, prev |-> r.acct.version, state |-> state]
           n == Len(log) + 1
<1>1. log' = Append(log, row) /\ Len(log) < MaxSeq
  BY DEF Save
<1>2. Len(log) \in Nat /\ DOMAIN log = 1 .. Len(log) /\ log \in Seq(LogRecords)
  BY LogTyped DEF AccountInv, CommandsOK
<1>3. row.state = state /\ state \in {"committed", "open"}
  OBVIOUS
<1> HIDE DEF row, state
<1>4. /\ Len(log') = Len(log) + 1 /\ DOMAIN log' = 1 .. n /\ log'[n] = row
      /\ \A i \in DOMAIN log : log'[i] = log[i]
  BY <1>1, <1>2
<1>5. n <= MaxSeq /\ n \notin DOMAIN log /\ DOMAIN log' = DOMAIN log \cup {n}
  BY <1>1, <1>2, <1>4, BoundsAssumption
<1> HIDE DEF n
<1>6. Len(log) + 1 = n /\ Len(log') + 1 = n + 1
  BY <1>4 DEF n
<1>7. CASE state = "open"
  <2>1. OpenSeqs' = OpenSeqs \cup {n} /\ CommittedSeqs' = CommittedSeqs
    BY <1>3, <1>4, <1>5, <1>7 DEF OpenSeqs, CommittedSeqs
  <2>2. timely' = timely
    BY <2>1
  <2>3. T!Insert
    BY <1>5, <1>6, <2>1, <2>2 DEF T!Insert, T!pollVars
  <2> QED
    BY <2>3 DEF T!Next
<1>8. CASE state = "committed"
  <2>1. CommittedSeqs' = CommittedSeqs \cup {n} /\ OpenSeqs' = OpenSeqs /\ n \notin CommittedSeqs
    BY <1>3, <1>4, <1>5, <1>8 DEF OpenSeqs, CommittedSeqs
  <2>2. timely' = IF T!AheadOfPolls(n) THEN timely \cup {n} ELSE timely
    BY <2>1
  <2>3. T!AppendCommitted
    BY <1>5, <1>6, <2>1, <2>2 DEF T!AppendCommitted, T!pollVars
  <2> QED
    BY <2>3 DEF T!Next
<1> QED
  BY <1>3, <1>7, <1>8

LEMMA EndMaps ==
  ASSUME AccountInv, NEW h \in Handlers, req[h].pc = "saved",
         NEW st \in {"committed", "aborted"}, log' = [log EXCEPT ![req[h].seq].state = st],
         UNCHANGED <<checkpoint, poll, consumed>>,
         timely' = timely \cup {s \in CommittedSeqs' \ CommittedSeqs : T!AheadOfPolls(s)}
  PROVE  T!Next
<1> DEFINE n == req[h].seq
<1>1. CommandsOK /\ n \in DOMAIN log /\ log[n].state = "open"
  BY DEF AccountInv, CommandsOK, SavedIsOpen
<1>2. /\ Len(log') = Len(log) /\ DOMAIN log' = DOMAIN log
      /\ \A i \in DOMAIN log : i # n => log'[i] = log[i]
      /\ log'[n] = [log[n] EXCEPT !.state = st]
  BY <1>1, LogMarked
<1>3. log'[n].state = st
  <2>1. log[n] \in LogRecords
    BY <1>1, LogTyped
  <2> QED
    BY <1>2, <2>1 DEF LogRecords
<1> HIDE DEF n
<1>4. n \in OpenSeqs /\ n \notin CommittedSeqs /\ OpenSeqs' = OpenSeqs \ {n}
  BY <1>1, <1>2, <1>3 DEF OpenSeqs, CommittedSeqs
<1>5. CASE st = "committed"
  <2>1. CommittedSeqs' = CommittedSeqs \cup {n}
    BY <1>1, <1>2, <1>3, <1>5 DEF CommittedSeqs
  <2>2. timely' = IF T!AheadOfPolls(n) THEN timely \cup {n} ELSE timely
    BY <1>4, <2>1
  <2>3. T!Commit(n)
    BY <1>2, <1>4, <2>1, <2>2 DEF T!Commit, T!pollVars
  <2> QED
    BY <1>4, <2>3 DEF T!Next
<1>6. CASE st = "aborted"
  <2>1. CommittedSeqs' = CommittedSeqs
    BY <1>1, <1>2, <1>3, <1>6 DEF CommittedSeqs
  <2>2. timely' = timely
    BY <2>1
  <2>3. T!Rollback(n)
    BY <1>2, <1>4, <2>1, <2>2 DEF T!Rollback, T!pollVars
  <2> QED
    BY <1>4, <2>3 DEF T!Next
<1> QED
  BY <1>5, <1>6

LEMMA WindowMaps ==
  T!find_by_seq_window(checkpoint - Window, BatchLimit)
    = find_by_seq_window(checkpoint - Window, BatchLimit)
<1>1. ASSUME NEW S PROVE T!Cardinality(S) = Cardinality(S)
  BY DEF T!Cardinality, Cardinality
<1> QED
  BY <1>1 DEF T!find_by_seq_window, T!Lowest, find_by_seq_window, Lowest

LEMMA PollReadMaps ==
  ASSUME AccountInv, PollRead, UNCHANGED consumed,
         timely' = timely \cup {s \in CommittedSeqs' \ CommittedSeqs : T!AheadOfPolls(s)}
  PROVE  T!Next
<1> DEFINE events == find_by_seq_window(checkpoint - Window, BatchLimit)
<1>1. log' = log /\ checkpoint' = checkpoint
  BY DEF PollRead, commandVars
<1>2. CommittedSeqs' = CommittedSeqs /\ OpenSeqs' = OpenSeqs
  BY <1>1 DEF CommittedSeqs, OpenSeqs
<1>3. timely' = timely
  BY <1>2
<1>4. PICK max_seq \in events :
        /\ \A s \in events : s <= max_seq
        /\ poll' = [poll EXCEPT !.pc = "read", !.batch = events, !.top = max_seq,
                                !.todo = {log[s].acc : s \in events}]
  BY DEF PollRead
<1>5. poll \in PollRecords /\ poll.batch = {}
  BY IdlePollFields DEF PollRead, AccountInv, PollOK
<1> HIDE DEF events
<1>6. poll'.batch = events /\ poll'.top = max_seq
  BY <1>4, <1>5 DEF PollRecords
<1>7. T!PollRead(Worker)
  <2>1. events = T!find_by_seq_window(checkpoint - Window, BatchLimit)
    BY WindowMaps DEF events
  <2> QED
    BY <1>1, <1>2, <1>3, <1>4, <1>5, <1>6, <2>1 DEF T!PollRead, T!Polling, T!eventVars
<1> QED
  BY <1>7 DEF T!Next

LEMMA PollAbortMaps ==
  ASSUME AccountInv, PollAbort, UNCHANGED consumed,
         timely' = timely \cup {s \in CommittedSeqs' \ CommittedSeqs : T!AheadOfPolls(s)}
  PROVE  T!Next
<1>1. log' = log /\ checkpoint' = checkpoint
  BY DEF PollAbort, commandVars
<1>2. CommittedSeqs' = CommittedSeqs /\ OpenSeqs' = OpenSeqs
  BY <1>1 DEF CommittedSeqs, OpenSeqs
<1>3. timely' = timely
  BY <1>2
<1>4. poll.batch # {} /\ poll'.batch = {} /\ poll'.top = 0
  BY IdlePollFields DEF PollAbort, AccountInv, PollOK
<1>5. T!PollAbort(Worker)
  BY <1>1, <1>2, <1>3, <1>4 DEF T!PollAbort, T!Polling, T!eventVars
<1> QED
  BY <1>5 DEF T!Next

LEMMA PollCommitMaps ==
  ASSUME AccountInv, PollCommit, consumed' = consumed \cup poll.batch, UNCHANGED timely
  PROVE  T!Next
<1>1. log' = log /\ checkpoint' = Greatest(checkpoint, poll.top)
  BY DEF PollCommit
<1>2. CommittedSeqs' = CommittedSeqs /\ OpenSeqs' = OpenSeqs
  BY <1>1 DEF CommittedSeqs, OpenSeqs
<1>3. poll.batch # {} /\ poll'.batch = {} /\ poll'.top = 0
  BY IdlePollFields DEF PollCommit, AccountInv, PollOK
<1>4. T!PollCommit(Worker)
  BY <1>1, <1>2, <1>3 DEF T!PollCommit, T!Polling, T!eventVars, T!Greatest, Greatest
<1> QED
  BY <1>4 DEF T!Next

\* The steps of a poll between its read and its end.
LEMMA PollWorkMaps ==
  ASSUME AccountInv, UNCHANGED consumed,
         \/ PollEmpty
         \/ \E a \in Accounts : PollFold(a)
         \/ \E granted \in BOOLEAN : PollWrite(granted)
         \/ PollWriteFails,
         timely' = timely \cup {s \in CommittedSeqs' \ CommittedSeqs : T!AheadOfPolls(s)}
  PROVE  UNCHANGED T!vars
<1> DEFINE kept == log' = log /\ checkpoint' = checkpoint
                   /\ poll'.batch = poll.batch /\ poll'.top = poll.top
<1>1. poll \in PollRecords
  BY DEF AccountInv, PollOK
<1>2. ASSUME PollEmpty PROVE kept
  BY <1>2 DEF PollEmpty, vars
<1>3. ASSUME NEW a \in Accounts, PollFold(a) PROVE kept
  <2>1. log' = log /\ checkpoint' = checkpoint
    BY <1>3 DEF PollFold, commandVars
  <2>2. CASE Skips(a)
    BY <1>1, <1>3, <2>1, <2>2 DEF PollFold, PollRecords
  <2>3. CASE ~Skips(a)
    BY <1>1, <1>3, <2>1, <2>3 DEF PollFold, PollRecords
  <2> QED
    BY <2>2, <2>3
<1>4. ASSUME NEW granted \in BOOLEAN, PollWrite(granted) PROVE kept
  BY <1>1, <1>4 DEF PollWrite, Written, PollRecords
<1>5. ASSUME PollWriteFails PROVE kept
  BY <1>1, <1>5 DEF PollWriteFails, Written, PollRecords, commandVars
<1>6. kept
  BY <1>2, <1>3, <1>4, <1>5
<1> QED
  BY <1>6, TailingStutters

LEMMA RequestMaps ==
  ASSUME AccountInv, NEW h \in Handlers, Request(h), UNCHANGED consumed,
         timely' = timely \cup {s \in CommittedSeqs' \ CommittedSeqs : T!AheadOfPolls(s)}
  PROVE  T!Next \/ UNCHANGED T!vars
<1>1. checkpoint' = checkpoint /\ poll' = poll
  BY DEF Request
<1>2. ASSUME log' = log PROVE UNCHANGED T!vars
  BY <1>1, <1>2, TailingStutters
<1>3. ASSUME NEW a \in Accounts, Arrives(h, a) PROVE UNCHANGED T!vars
  <2>1. log' = log
    BY <1>3 DEF Arrives, create_account_route, update_account_by_id, deactivate_account_by_id,
      reactivate_account_by_id, suspend_account_by_id, unsuspend_account_by_id,
      ban_account_by_id, unban_account_by_id, Admit
  <2> QED
    BY <1>2, <2>1
<1>4. ASSUME Load(h) \/ Reject(h) \/ Conflict(h) \/ ChangeRelation(h) PROVE UNCHANGED T!vars
  <2>1. log' = log
    BY <1>4 DEF Load, Reject, Conflict, ChangeRelation
  <2> QED
    BY <1>2, <2>1
<1>5. ASSUME Save(h) PROVE T!Next
  BY <1>1, <1>5, SaveMaps
<1>6. ASSUME NEW fields, CommitTx(h, fields) PROVE T!Next
  <2>1. req[h].pc = "saved" /\ log' = [log EXCEPT ![req[h].seq].state = "committed"]
    BY <1>6 DEF CommitTx
  <2> QED
    BY <1>1, <2>1, EndMaps
<1>7. ASSUME DetailNotFound(h) PROVE T!Next
  <2>1. req[h].pc = "saved" /\ log' = [log EXCEPT ![req[h].seq].state = "aborted"]
    BY <1>7 DEF DetailNotFound
  <2> QED
    BY <1>1, <2>1, EndMaps
<1>8. ASSUME Fail(h) PROVE T!Next \/ UNCHANGED T!vars
  <2>1. CASE req[h].pc = "saved"
    <3>1. log' = [log EXCEPT ![req[h].seq].state = "aborted"]
      BY <1>8, <2>1 DEF Fail
    <3> QED
      BY <1>1, <2>1, <3>1, EndMaps
  <2>2. CASE req[h].pc # "saved"
    <3>1. log' = log
      BY <1>8, <2>2 DEF Fail
    <3> QED
      BY <1>2, <3>1
  <2> QED
    BY <2>1, <2>2
<1> QED
  BY <1>3, <1>4, <1>5, <1>6, <1>7, <1>8 DEF Request

LEMMA TailingStepMaps ==
  AccountInv /\ [TailingNext]_tailingVars => [T!Next]_T!vars
<1> SUFFICES ASSUME AccountInv, [TailingNext]_tailingVars PROVE [T!Next]_T!vars
  OBVIOUS
<1>1. CASE UNCHANGED tailingVars
  <2>1. UNCHANGED <<log, checkpoint, poll, consumed, timely>>
    BY <1>1 DEF tailingVars, vars
  <2>2. CommittedSeqs' = CommittedSeqs /\ OpenSeqs' = OpenSeqs
    BY <2>1 DEF CommittedSeqs, OpenSeqs
  <2> QED
    BY <2>1, <2>2 DEF T!vars
<1>2. CASE PollCommit /\ consumed' = consumed \cup poll.batch /\ UNCHANGED timely
  BY <1>2, PollCommitMaps
<1>3. CASE /\ OtherStep
           /\ timely' = timely \cup
                {s \in CommittedSeqs' \ CommittedSeqs : T!AheadOfPolls(s)}
           /\ UNCHANGED consumed
  <2>1. CASE \E h \in Handlers : Request(h)
    BY <1>3, <2>1, RequestMaps
  <2>2. CASE (Tick \/ \E a \in Accounts : FollowChanges(a)) /\ UNCHANGED <<checkpoint, poll>>
    <3>1. log' = log
      BY <2>2 DEF Tick, FollowChanges
    <3> QED
      BY <1>3, <2>2, <3>1, TailingStutters
  <2>3. CASE \E a \in Accounts : ProjectProfile(a)
    <3>1. UNCHANGED <<log, checkpoint, poll>>
      BY <2>3 DEF ProjectProfile
    <3> QED
      BY <1>3, <3>1, TailingStutters
  <2>4. CASE PollRead
    BY <1>3, <2>4, PollReadMaps
  <2>5. CASE PollAbort
    BY <1>3, <2>5, PollAbortMaps
  <2>6. CASE \/ PollEmpty
             \/ \E a \in Accounts : PollFold(a)
             \/ \E granted \in BOOLEAN : PollWrite(granted)
             \/ PollWriteFails
    BY <1>3, <2>6, PollWorkMaps
  <2> QED
    BY <1>3, <2>1, <2>2, <2>3, <2>4, <2>5, <2>6 DEF OtherStep, PollStep
<1> QED
  BY <1>1, <1>2, <1>3 DEF TailingNext

(* The refinement: every behaviour of the account projector, under the use *)
(* cases that write its log, is a behaviour of Tailing, so its no-loss     *)
(* theorems hold of project_batch for every number of accounts, handlers   *)
(* and rows.  Save is Insert (or AppendCommitted for update_account), the  *)
(* end of a transaction is Commit or Rollback, and what a poll does between*)
(* its read and its end is a stutter.                                      *)
THEOREM ProjectorImplementsTailing == TailingSpec => ImplementsTailing
<1>1. TailingInit => T!Init /\ AccountInv
  BY TailingInitMaps, AccountInvInit DEF TailingInit
<1>2. AccountInv /\ [TailingNext]_tailingVars => AccountInv'
  <2> SUFFICES ASSUME AccountInv, [TailingNext]_tailingVars PROVE AccountInv'
    OBVIOUS
  <2>1. [Next]_vars
    BY DEF TailingNext, OtherStep, Next, tailingVars
  <2> QED
    BY <2>1, AccountInvStep
<1>3. AccountInv /\ [TailingNext]_tailingVars => [T!Next]_T!vars
  BY TailingStepMaps
<1> QED
  BY <1>1, <1>2, <1>3, PTL DEF TailingSpec, ImplementsTailing, T!Spec
=============================================================================
