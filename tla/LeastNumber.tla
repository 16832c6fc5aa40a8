----------------------------- MODULE LeastNumber -----------------------------
(***************************************************************************)
(* Induction over the natural numbers, stated about sets of them.          *)
(***************************************************************************)
EXTENDS Integers, FiniteSetTheorems, WellFoundedInduction, TLAPS

\* A set of naturals that is not empty has a least element.
LEMMA LeastNatural ==
  ASSUME NEW T \in SUBSET Nat, T # {}
  PROVE  \E x \in T : \A y \in T : x <= y
<1> DEFINE R == OpToRel(<, Nat)
<1>1. \A x, y \in Nat : x < y => <<x, y>> \in R
  BY DEF OpToRel
<1>2. IsWellFoundedOn(R, Nat)
  BY NatLessThanWellFounded
<1> HIDE DEF R
<1>3. PICK x \in T : \A y \in T : <<y, x>> \notin R
  BY <1>2, WFMin
<1>4. ASSUME NEW y \in T PROVE x <= y
  <2>1. x \in Nat /\ y \in Nat /\ <<y, x>> \notin R
    BY <1>3
  <2>2. ~(y < x)
    BY <1>1, <2>1
  <2> QED
    BY <2>1, <2>2
<1> QED
  BY <1>4

\* And, if it is bounded, a greatest one.
LEMMA GreatestNatural ==
  ASSUME NEW N \in Nat, NEW T \in SUBSET (0 .. N), T # {}
  PROVE  \E x \in T : \A y \in T : y <= x
<1> DEFINE U == {N - y : y \in T}
<1>1. U \in SUBSET Nat /\ U # {}
  <2>1. \A y \in T : N - y \in Nat
    OBVIOUS
  <2> QED
    BY <2>1
<1>2. PICK u \in U : \A v \in U : u <= v
  <2> HIDE DEF U
  <2> QED
    BY <1>1, LeastNatural
<1>3. PICK x \in T : u = N - x
  OBVIOUS
<1>4. ASSUME NEW y \in T PROVE y <= x
  <2>1. N - y \in U
    OBVIOUS
  <2>2. N - x <= N - y /\ x \in 0 .. N /\ y \in 0 .. N
    BY <1>2, <1>3, <2>1
  <2> QED
    BY <2>2
<1> QED
  BY <1>4

\* A set of naturals that has 0 and with each number the next one has them all.
LEMMA SetInduction ==
  ASSUME NEW T \in SUBSET Nat, 0 \in T, \A n \in T : n + 1 \in T
  PROVE  T = Nat
<1> DEFINE U == Nat \ T
<1>1. SUFFICES ASSUME U # {} PROVE FALSE
  OBVIOUS
<1>2. PICK n \in U : \A m \in U : n <= m
  <2>1. U \in SUBSET Nat
    OBVIOUS
  <2> HIDE DEF U
  <2> QED
    BY <1>1, <2>1, LeastNatural
<1>3. n \in Nat /\ n # 0
  OBVIOUS
<1>4. n - 1 \in Nat /\ ~(n <= n - 1)
  BY <1>3
<1>5. n - 1 \in T
  BY <1>2, <1>4
<1>6. (n - 1) + 1 \in T /\ (n - 1) + 1 = n
  BY <1>3, <1>5
<1> QED
  BY <1>6

\* A finite set of naturals is bounded.
LEMMA FiniteIsBounded ==
  ASSUME NEW S \in SUBSET Nat, IsFiniteSet(S)
  PROVE  \E b \in Nat : \A x \in S : x <= b
<1> DEFINE Bounded(A) == \E b \in Nat : \A x \in A : x <= b
           T == {n \in Nat : \A A \in SUBSET Nat :
                               IsFiniteSet(A) /\ Cardinality(A) = n => Bounded(A)}
<1>1. 0 \in T
  <2>1. ASSUME NEW A \in SUBSET Nat, IsFiniteSet(A), Cardinality(A) = 0 PROVE Bounded(A)
    <3>1. A = {}
      BY <2>1, FS_EmptySet
    <3> QED
      BY <3>1
  <2> HIDE DEF Bounded
  <2> QED
    BY <2>1
<1>2. ASSUME NEW n \in T PROVE n + 1 \in T
  <2>1. ASSUME NEW A \in SUBSET Nat, IsFiniteSet(A), Cardinality(A) = n + 1 PROVE Bounded(A)
    <3>1. n \in Nat /\ A # {}
      BY <2>1, FS_EmptySet
    <3>2. PICK y \in A : TRUE
      BY <3>1
    <3>3. IsFiniteSet(A \ {y}) /\ Cardinality(A \ {y}) = n /\ A \ {y} \in SUBSET Nat
      <4>1. IsFiniteSet(A \ {y}) /\ Cardinality(A \ {y}) = Cardinality(A) - 1
        BY <2>1, <3>2, FS_RemoveElement
      <4> QED
        BY <2>1, <3>1, <4>1
    <3>4. Bounded(A \ {y})
      <4> HIDE DEF Bounded
      <4> QED
        BY <3>3
    <3>5. PICK b \in Nat : \A x \in A \ {y} : x <= b
      BY <3>4
    <3>6. b + y \in Nat /\ \A x \in A : x <= b + y
      BY <3>5
    <3> QED
      BY <3>6
  <2> HIDE DEF Bounded
  <2> QED
    BY <2>1
<1>3. Cardinality(S) \in Nat
  BY FS_CardinalityType
<1>4. Cardinality(S) \in T
  <2>1. T \in SUBSET Nat
    OBVIOUS
  <2> HIDE DEF T
  <2> QED
    BY <1>1, <1>2, <1>3, <2>1, SetInduction
<1> QED
  BY <1>4

-----------------------------------------------------------------------------
(* Version chains.  The members of C are versions, prev[c] is the version  *)
(* that c was written on, 0 when it is the first.  In a chain no two were  *)
(* written on the same one.                                                *)

IsChain(C, prev) ==
  /\ \A c \in C : prev[c] < c /\ prev[c] \in C \cup {0}
  /\ \A c, d \in C : prev[c] = prev[d] => c = d

LEMMA ChainTyped ==
  ASSUME NEW C \in SUBSET (Nat \ {0}), NEW prev, NEW c \in C, IsChain(C, prev)
  PROVE  c \in Nat /\ c # 0 /\ prev[c] \in Nat /\ prev[c] < c /\ prev[c] \in C \cup {0}
<1>1. prev[c] < c /\ prev[c] \in C \cup {0}
  BY DEF IsChain
<1>2. \A x \in C : x \in Nat /\ x # 0
  OBVIOUS
<1>3. prev[c] \in Nat
  <2>1. CASE prev[c] \in C
    BY <1>2, <2>1
  <2>2. CASE prev[c] = 0
    BY <2>2
  <2> QED
    BY <1>1, <2>1, <2>2
<1> QED
  BY <1>1, <1>2, <1>3

\* Each version of a chain was written on the one right before it.
LEMMA ChainOrder ==
  ASSUME NEW C \in SUBSET (Nat \ {0}), NEW prev, NEW n \in C, NEW m \in C,
         IsChain(C, prev), m < n
  PROVE  m <= prev[n]
<1> DEFINE Bad == {d \in C : \E c \in C : c < d /\ ~(c <= prev[d])}
<1>1. \A c \in C : c \in Nat /\ c # 0 /\ prev[c] \in Nat /\ prev[c] < c /\ prev[c] \in C \cup {0}
  BY ChainTyped
<1>2. SUFFICES ASSUME Bad # {} PROVE FALSE
  BY <1>1
<1>3. PICK d \in Bad : \A x \in Bad : d <= x
  <2>1. Bad \in SUBSET Nat
    BY <1>1
  <2> HIDE DEF Bad
  <2> QED
    BY <1>2, <2>1, LeastNatural
<1> DEFINE w == prev[d]
           X == {c \in C : w < c /\ c < d}
<1>4. d \in C /\ d \in Nat /\ w \in Nat /\ w \in C \cup {0}
  BY <1>1
<1>5. X \in SUBSET Nat /\ X # {}
  <2>1. PICK c \in C : c < d /\ ~(c <= prev[d])
    BY <1>3
  <2>2. c \in X
    BY <1>1, <1>4, <2>1
  <2> QED
    BY <1>1, <2>2
<1>6. PICK s \in X : \A x \in X : s <= x
  <2> HIDE DEF X
  <2> QED
    BY <1>5, LeastNatural
<1>7. s \in C /\ s \in Nat /\ w < s /\ s < d
  BY <1>1
<1> HIDE DEF w
<1>8. \A c \in C : c < s => c <= prev[s]
  <2>1. ~(d <= s)
    BY <1>4, <1>7
  <2>2. s \notin Bad
    BY <1>3, <2>1
  <2> QED
    BY <1>7, <2>2
<1>9. prev[s] \in Nat /\ prev[s] < s /\ prev[s] \in C \cup {0}
  BY <1>1, <1>7
<1>10. w <= prev[s]
  <2>1. CASE w = 0
    BY <1>9, <2>1
  <2>2. CASE w \in C
    BY <1>7, <1>8, <2>2
  <2> QED
    BY <1>4, <2>1, <2>2
<1>11. prev[s] <= w
  <2>1. SUFFICES ASSUME w < prev[s] PROVE FALSE
    BY <1>4, <1>9
  <2>2. prev[s] \in C /\ prev[s] < d /\ prev[s] # 0
    BY <1>4, <1>7, <1>9, <2>1
  <2>3. prev[s] \in X
    BY <2>1, <2>2
  <2>4. s <= prev[s]
    BY <1>6, <2>3
  <2> QED
    BY <1>7, <1>9, <2>4
<1>12. prev[s] = prev[d] /\ s # d
  BY <1>4, <1>7, <1>9, <1>10, <1>11 DEF w
<1> QED
  BY <1>4, <1>7, <1>12 DEF IsChain

\* A part of it that has with each version the one before it has all up to its
\* last.
LEMMA ChainClosed ==
  ASSUME NEW C \in SUBSET (Nat \ {0}), NEW prev, NEW V \in SUBSET C, NEW p \in V, NEW m \in C,
         IsChain(C, prev), \A v \in V : prev[v] \in V \cup {0}, m <= p
  PROVE  m \in V
<1> DEFINE Missing == {c \in C : c <= p /\ c \notin V}
<1>1. \A c \in C : c \in Nat /\ c # 0 /\ prev[c] \in Nat /\ prev[c] < c /\ prev[c] \in C \cup {0}
  BY ChainTyped
<1>2. SUFFICES ASSUME Missing # {} PROVE FALSE
  OBVIOUS
<1>3. p \in Nat /\ p \in C
  BY <1>1
<1>4. PICK c \in Missing : \A x \in Missing : x <= c
  <2>1. ASSUME NEW x \in Missing PROVE x \in 0 .. p
    <3>1. x \in Nat /\ x <= p
      BY <1>1
    <3> QED
      BY <1>3, <3>1
  <2> HIDE DEF Missing
  <2> QED
    BY <1>2, <1>3, <2>1, GreatestNatural
<1>5. c \in C /\ c \in Nat /\ c <= p /\ c \notin V /\ c # 0
  BY <1>1
<1> DEFINE Y == {y \in C : c < y /\ y <= p}
<1>6. Y \in SUBSET Nat /\ Y # {}
  <2>1. p \in Y
    BY <1>3, <1>5
  <2> QED
    BY <1>1, <2>1
<1>7. PICK s \in Y : \A y \in Y : s <= y
  <2> HIDE DEF Y
  <2> QED
    BY <1>6, LeastNatural
<1>8. s \in C /\ s \in Nat /\ c < s /\ s <= p
  BY <1>1
<1>9. s \in V
  <2>1. ~(s <= c)
    BY <1>5, <1>8
  <2>2. s \notin Missing
    BY <1>4, <2>1
  <2> QED
    BY <1>8, <2>2
<1>10. prev[s] \in Nat /\ prev[s] < s /\ c <= prev[s] /\ prev[s] \in V \cup {0}
  BY <1>1, <1>5, <1>8, <1>9, ChainOrder
<1>11. prev[s] \in V /\ prev[s] \in C /\ prev[s] # c
  BY <1>5, <1>10
<1>12. prev[s] \in Y
  BY <1>3, <1>5, <1>8, <1>10, <1>11
<1>13. s <= prev[s]
  BY <1>7, <1>12
<1> QED
  BY <1>8, <1>10, <1>13
=============================================================================
