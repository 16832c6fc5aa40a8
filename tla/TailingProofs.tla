---------------------------- MODULE TailingProofs ----------------------------
(***************************************************************************)
(* Proofs about log tailing, for every number of workers, every Window,    *)
(* every BatchLimit and a table of any size.                               *)
(***************************************************************************)
EXTENDS Tailing, FiniteSetTheorems, TLAPS

-----------------------------------------------------------------------------
(* What ORDER BY seq LIMIT n returns of a finite set of integers.          *)

\* A limited read returns a part of what is visible, and leaves out no row
\* below one it returns: the poll has no holes under its highest seq.
LEMMA LowestIsPrefix ==
  ASSUME NEW S \in SUBSET Int, IsFiniteSet(S), NEW n \in Nat
  PROVE  /\ Lowest(S, n) \subseteq S
         /\ \A s \in Lowest(S, n), t \in S : t < s => t \in Lowest(S, n)
<1>1. Lowest(S, n) \subseteq S
  BY DEF Lowest
<1>2. ASSUME NEW s \in Lowest(S, n), NEW t \in S, t < s
      PROVE  t \in Lowest(S, n)
  <2> DEFINE Below(x) == {u \in S : u < x}
  <2>1. s \in S /\ Cardinality(Below(s)) < n
    BY DEF Lowest
  <2>2. Below(t) \subseteq Below(s)
    <3>1. s \in Int /\ t \in Int /\ \A u \in S : u \in Int
      BY <2>1
    <3>2. \A u \in S : u < t => u < s
      BY <1>2, <3>1
    <3> QED
      BY <3>2
  <2>3. IsFiniteSet(Below(s)) /\ Below(s) \subseteq S
    BY FS_Subset
  <2>4. /\ Cardinality(Below(t)) <= Cardinality(Below(s))
        /\ Cardinality(Below(t)) \in Nat
        /\ Cardinality(Below(s)) \in Nat
    BY <2>2, <2>3, FS_Subset, FS_CardinalityType
  <2>5. Cardinality(Below(t)) < n
    BY <2>1, <2>4
  <2> QED
    BY <2>5 DEF Lowest
<1> QED
  BY <1>1, <1>2

\* The table is finite: seqs are numbered from 1.
LEMMA CommittedFinite ==
  ASSUME TypeOK
  PROVE  /\ committed \subseteq Nat
         /\ IsFiniteSet(committed)
         /\ \A m \in Int : LET V == {s \in committed : s > m}
                           IN  V \subseteq Int /\ IsFiniteSet(V)
<1>1. nextSeq - 1 \in Int /\ 1 \in Int
  BY DEF TypeOK
<1>2. IsFiniteSet(1 .. (nextSeq - 1))
  BY <1>1, FS_Interval
<1>3. committed \subseteq Nat /\ committed \subseteq 1 .. (nextSeq - 1)
  BY DEF TypeOK
<1>4. IsFiniteSet(committed)
  BY <1>2, <1>3, FS_Subset
<1>5. ASSUME NEW m \in Int
      PROVE  LET V == {s \in committed : s > m} IN V \subseteq Int /\ IsFiniteSet(V)
  <2> DEFINE V == {s \in committed : s > m}
  <2>1. V \subseteq committed
    OBVIOUS
  <2>2. IsFiniteSet(V)
    BY <1>4, <2>1, FS_Subset
  <2>3. V \subseteq Int
    <3>1. Nat \subseteq Int
      OBVIOUS
    <3> HIDE DEF V
    <3> QED
      BY <1>3, <2>1, <3>1
  <2> QED
    BY <2>2, <2>3
<1> QED
  BY <1>3, <1>4, <1>5

\* The batch of a poll: visible rows of the window, none skipped below its top.
LEMMA WindowRead ==
  ASSUME TypeOK
  PROVE  LET events == find_by_seq_window(checkpoint - Window, BatchLimit)
         IN  /\ events \subseteq committed
             /\ \A s \in events : s > checkpoint - Window
             /\ \A s \in events, t \in committed :
                  (t > checkpoint - Window /\ t < s) => t \in events
<1> DEFINE V == {s \in committed : s > checkpoint - Window}
<1> DEFINE events == find_by_seq_window(checkpoint - Window, BatchLimit)
<1>1. checkpoint - Window \in Int /\ BatchLimit \in Nat
  BY WindowAssumption, BatchLimitAssumption DEF TypeOK
<1>2. V \in SUBSET Int /\ IsFiniteSet(V)
  BY <1>1, CommittedFinite
<1>3. events = Lowest(V, BatchLimit)
  BY DEF find_by_seq_window
<1> HIDE DEF V
<1>4. /\ Lowest(V, BatchLimit) \subseteq V
      /\ \A s \in Lowest(V, BatchLimit), t \in V : t < s => t \in Lowest(V, BatchLimit)
  BY <1>1, <1>2, LowestIsPrefix
<1> QED
  BY <1>3, <1>4 DEF V

-----------------------------------------------------------------------------
(* Type correctness.                                                       *)

\* The initial states are well typed.
LEMMA TypeInit == Init => TypeOK
BY DEF Init, TypeOK

\* Every action keeps the types.
LEMMA TypeStep == TypeOK /\ [Next]_vars => TypeOK'
<1> SUFFICES ASSUME TypeOK, [Next]_vars PROVE TypeOK'
  OBVIOUS
<1>1. CASE Insert
  BY <1>1 DEF Insert, TypeOK, pollVars
<1>2. CASE AppendCommitted
  BY <1>2 DEF AppendCommitted, TypeOK, pollVars
<1>3. ASSUME NEW s \in open, Commit(s) PROVE TypeOK'
  BY <1>3 DEF Commit, TypeOK, pollVars
<1>4. ASSUME NEW s \in open, Rollback(s) PROVE TypeOK'
  BY <1>4 DEF Rollback, TypeOK, pollVars
<1>5. ASSUME NEW w \in Workers, PollRead(w) PROVE TypeOK'
  <2> DEFINE events == find_by_seq_window(checkpoint - Window, BatchLimit)
  <2>1. events \subseteq committed /\ committed \subseteq Nat
    BY WindowRead, CommittedFinite
  <2>2. PICK m \in events : batch' = [batch EXCEPT ![w] = events]
                            /\ top' = [top EXCEPT ![w] = m]
    BY <1>5 DEF PollRead
  <2>3. /\ UNCHANGED <<nextSeq, open, committed, timely, checkpoint, consumed>>
    BY <1>5 DEF PollRead, eventVars
  <2> HIDE DEF events
  <2>4. m \in Nat
    BY <2>1
  <2> QED
    BY <2>1, <2>2, <2>3, <2>4 DEF TypeOK
<1>6. ASSUME NEW w \in Workers, PollCommit(w) PROVE TypeOK'
  BY <1>6 DEF PollCommit, Greatest, TypeOK, eventVars
<1>7. ASSUME NEW w \in Workers, PollAbort(w) PROVE TypeOK'
  BY <1>7 DEF PollAbort, TypeOK, eventVars
<1>8. CASE UNCHANGED vars
  BY <1>8 DEF vars, TypeOK
<1>9. ASSUME NEW w \in Workers, PollEmpty(w) PROVE TypeOK'
  BY <1>8, <1>9 DEF PollEmpty
<1> QED
  BY <1>1, <1>2, <1>3, <1>4, <1>5, <1>6, <1>7, <1>8, <1>9 DEF Next

\* Every behaviour is well typed; in particular a poll only ever fetches,
\* and the history only ever counts, committed rows.
THEOREM TypeCorrect == Spec => []TypeOK
BY TypeInit, TypeStep, PTL DEF Spec

-----------------------------------------------------------------------------
(* The guarantee of the window.  NoTimelyRowLost alone is not inductive: a *)
(* poll in progress is about to move the checkpoint, so NoPollSkips says   *)
(* of every poll that what it leaves out it also leaves inside the window. *)

\* The log is empty at first.
LEMMA WindowInit == Init => IInv
BY TypeInit DEF Init, IInv, NoTimelyRowLost, NoPollSkips

\* Every action keeps the invariant; PollRead and PollCommit carry the argument.
LEMMA WindowStep == IInv /\ [Next]_vars => IInv'
<1> SUFFICES ASSUME IInv, [Next]_vars PROVE IInv'
  OBVIOUS
<1>0. TypeOK /\ NoTimelyRowLost /\ NoPollSkips /\ TypeOK'
  BY TypeStep DEF IInv
<1> USE <1>0, WindowAssumption
<1>1. CASE Insert
  BY <1>1 DEF Insert, pollVars, IInv, NoTimelyRowLost, NoPollSkips, Polling
<1>2. CASE AppendCommitted
  BY <1>2 DEF AppendCommitted, AheadOfPolls, pollVars, IInv, NoTimelyRowLost,
              NoPollSkips, Polling
<1>3. ASSUME NEW s \in open, Commit(s) PROVE IInv'
  BY <1>3 DEF Commit, AheadOfPolls, pollVars, IInv, NoTimelyRowLost,
              NoPollSkips, Polling
<1>4. ASSUME NEW s \in open, Rollback(s) PROVE IInv'
  BY <1>4 DEF Rollback, pollVars, IInv, NoTimelyRowLost, NoPollSkips, Polling
<1>5. ASSUME NEW w \in Workers, PollRead(w) PROVE IInv'
  <2> DEFINE events == find_by_seq_window(checkpoint - Window, BatchLimit)
  <2>1. /\ events \subseteq committed
        /\ \A s \in events, t \in committed :
             (t > checkpoint - Window /\ t < s) => t \in events
    BY WindowRead
  <2>2. PICK m \in events : /\ \A s \in events : s <= m
                            /\ batch' = [batch EXCEPT ![w] = events]
                            /\ top' = [top EXCEPT ![w] = m]
    BY <1>5 DEF PollRead
  <2>3. UNCHANGED <<nextSeq, open, committed, timely, checkpoint, consumed>>
    BY <1>5 DEF PollRead, eventVars
  <2> HIDE DEF events
  <2>4. NoTimelyRowLost'
    BY <2>3 DEF NoTimelyRowLost
  <2>5. ASSUME NEW s \in timely, s \notin consumed
        PROVE  s \in events \/ s > m - Window
    <3>1. s \in committed /\ s > checkpoint - Window /\ s \in Nat /\ m \in Nat
      BY <2>1, <2>5, CommittedFinite DEF TypeOK, NoTimelyRowLost
    <3>2. CASE s <= m
      BY <2>1, <3>1, <3>2
    <3>3. CASE s > m
      BY <3>1, <3>3
    <3> QED
      BY <3>1, <3>2, <3>3
  <2>6. NoPollSkips'
    <3> SUFFICES ASSUME NEW s \in timely, NEW v \in Workers,
                        s \notin consumed, batch'[v] # {}
                 PROVE  s \in batch'[v] \/ s > top'[v] - Window
      BY <2>3 DEF NoPollSkips, Polling
    <3>1. CASE v = w
      BY <2>2, <2>5, <3>1 DEF TypeOK
    <3>2. CASE v # w
      BY <2>2, <3>2 DEF TypeOK, NoPollSkips, Polling
    <3> QED
      BY <3>1, <3>2
  <2> QED
    BY <2>4, <2>6 DEF IInv
<1>6. ASSUME NEW w \in Workers, PollCommit(w) PROVE IInv'
  <2>1. /\ Polling(w)
        /\ checkpoint' = IF checkpoint > top[w] THEN checkpoint ELSE top[w]
        /\ consumed' = consumed \cup batch[w]
        /\ timely' = timely
        /\ batch' = [batch EXCEPT ![w] = {}]
        /\ top' = [top EXCEPT ![w] = 0]
    BY <1>6 DEF PollCommit, Greatest, eventVars
  <2>2. NoTimelyRowLost'
    BY <2>1 DEF NoTimelyRowLost, NoPollSkips
  <2>3. NoPollSkips'
    BY <2>1 DEF NoPollSkips, Polling, TypeOK
  <2> QED
    BY <2>2, <2>3 DEF IInv
<1>7. ASSUME NEW w \in Workers, PollAbort(w) PROVE IInv'
  BY <1>7 DEF PollAbort, eventVars, IInv, NoTimelyRowLost, NoPollSkips,
              Polling, TypeOK
<1>8. CASE UNCHANGED vars
  BY <1>8 DEF vars, IInv, NoTimelyRowLost, NoPollSkips, Polling
<1>9. ASSUME NEW w \in Workers, PollEmpty(w) PROVE IInv'
  BY <1>8, <1>9 DEF PollEmpty
<1> QED
  BY <1>1, <1>2, <1>3, <1>4, <1>5, <1>6, <1>7, <1>8, <1>9 DEF Next

\* A row that became visible before the polls were Window seqs past it is
\* consumed or still in the window of the next poll, in every behaviour.
THEOREM WindowLosesNoTimelyRow == Spec => []NoTimelyRowLost
<1>1. IInv => NoTimelyRowLost
  BY DEF IInv
<1> QED
  BY <1>1, WindowInit, WindowStep, PTL DEF Spec

\* The polls in progress never skip a timely row either.
THEOREM PollsSkipNoTimelyRow == Spec => []NoPollSkips
<1>1. IInv => NoPollSkips
  BY DEF IInv
<1> QED
  BY <1>1, WindowInit, WindowStep, PTL DEF Spec

-----------------------------------------------------------------------------
(* Action properties.                                                      *)

\* Whatever the order in which the polls of several processes commit, the
\* stored checkpoint (GREATEST in ProjectionCheckpointStore::set) only grows.
THEOREM CheckpointMonotone == Spec => CheckpointNeverRegresses
<1>1. TypeOK /\ [Next]_vars => [checkpoint' >= checkpoint]_vars
  <2> SUFFICES ASSUME TypeOK, [Next]_vars PROVE checkpoint' >= checkpoint
    OBVIOUS
  <2>1. checkpoint \in Nat /\ \A w \in Workers : top[w] \in Nat
    BY DEF TypeOK
  <2>2. ASSUME NEW w \in Workers, PollCommit(w) PROVE checkpoint' >= checkpoint
    BY <2>1, <2>2 DEF PollCommit, Greatest
  <2>3. CASE checkpoint' = checkpoint
    BY <2>1, <2>3
  <2> QED
    BY <2>2, <2>3 DEF Next, vars, Insert, AppendCommitted, Commit, Rollback,
       PollEmpty, PollRead, PollAbort, pollVars, eventVars
<1> QED
  BY <1>1, TypeCorrect, PTL DEF Spec, CheckpointNeverRegresses

\* A set of integers above b and not above m has at most m - b members.
LEMMA SpanBoundsCardinality ==
  ASSUME NEW b \in Int, NEW m \in Int, NEW S \in SUBSET Int, S # {},
         \A s \in S : s > b /\ s <= m
  PROVE  Cardinality(S) \in Nat /\ Cardinality(S) <= m - b
<1>0. PICK s0 \in S : s0 \in Int /\ s0 > b /\ s0 <= m
  OBVIOUS
<1>1. b + 1 \in Int /\ m > b
  BY <1>0
<1>2. /\ IsFiniteSet((b + 1) .. m)
      /\ Cardinality((b + 1) .. m) = IF b + 1 > m THEN 0 ELSE m - (b + 1) + 1
  BY <1>1, FS_Interval
<1>3. S \subseteq (b + 1) .. m
  OBVIOUS
<1>4. IsFiniteSet(S) /\ Cardinality(S) <= Cardinality((b + 1) .. m)
  BY <1>2, <1>3, FS_Subset
<1>5. Cardinality(S) \in Nat
  BY <1>4, FS_CardinalityType
<1> QED
  BY <1>1, <1>2, <1>4, <1>5

\* The claim of the comment on BATCH_LIMIT: a poll that fetched a full batch
\* ends at least BatchLimit - Window past the checkpoint it started from.
THEOREM FullPollsAdvance == Spec => FullPollAdvances
<1> DEFINE Advances ==
      \A w \in Workers :
        (~Polling(w) /\ Cardinality(batch'[w]) >= BatchLimit)
          => top'[w] - checkpoint >= BatchLimit - Window
<1>1. TypeOK /\ [Next]_vars => [Advances]_vars
  <2> SUFFICES ASSUME TypeOK, Next, NEW w \in Workers, ~Polling(w),
                      Cardinality(batch'[w]) >= BatchLimit
               PROVE  top'[w] - checkpoint >= BatchLimit - Window
    BY DEF vars
  <2>1. batch[w] = {} /\ batch'[w] # {}
    BY FS_EmptySet, BatchLimitAssumption DEF Polling
  <2>2. PollRead(w)
    BY <2>1 DEF Next, Insert, AppendCommitted, Commit, Rollback, PollEmpty,
       PollRead, PollCommit, PollAbort, pollVars, eventVars, TypeOK, vars
  <2> DEFINE events == find_by_seq_window(checkpoint - Window, BatchLimit)
  <2>3. /\ events \subseteq committed
        /\ \A s \in events : s > checkpoint - Window
    BY WindowRead
  <2>4. PICK m \in events : /\ \A s \in events : s <= m
                            /\ batch' = [batch EXCEPT ![w] = events]
                            /\ top' = [top EXCEPT ![w] = m]
    BY <2>2 DEF PollRead
  <2>5. batch'[w] = events /\ top'[w] = m
    BY <2>4 DEF TypeOK
  <2>6. committed \subseteq Nat /\ checkpoint - Window \in Int
        /\ checkpoint \in Nat /\ Window \in Nat /\ BatchLimit \in Nat
    BY CommittedFinite, WindowAssumption, BatchLimitAssumption DEF TypeOK
  <2> HIDE DEF events
  <2>7. events \in SUBSET Int /\ m \in Int /\ events # {}
    <3>1. Nat \subseteq Int
      OBVIOUS
    <3> QED
      BY <2>3, <2>4, <2>6, <3>1
  <2>8. /\ Cardinality(events) \in Nat
        /\ Cardinality(events) <= m - (checkpoint - Window)
    BY <2>3, <2>4, <2>6, <2>7, SpanBoundsCardinality
  <2> QED
    BY <2>5, <2>6, <2>7, <2>8
<1> QED
  BY <1>1, TypeCorrect, PTL DEF Spec, FullPollAdvances
=============================================================================
