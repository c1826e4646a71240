---------------------------- MODULE FoldTheorems ----------------------------
(***************************************************************************)
(* What the proofs about loops rest on: induction over numbers, functions  *)
(* defined step by step, least and greatest elements, the function that    *)
(* FoldLeft chooses, and sequences end to end.                             *)
(*                                                                         *)
(* Induction is stated with a set in the place of a predicate: the numbers *)
(* that have a property.  It follows from the pigeonhole principle.        *)
(*                                                                         *)
(* Then what the two loops of stream_reconstruct.go compute, line by line: *)
(* the chunks of a longer capture, and the response collected of them.     *)
(***************************************************************************)
EXTENDS Integers, StreamReconstruct, SequenceTheorems, FiniteSetTheorems, TLAPS

-----------------------------------------------------------------------------
(* Induction *)

\* A set with 0, and with the successor of each of its numbers, has them all:
\* otherwise adding 1 would map its members up to m without m to those but 0.
LEMMA SetInduction ==
  ASSUME NEW S, 0 \in S, \A n \in Nat : n \in S => n + 1 \in S
  PROVE  Nat \subseteq S
<1> SUFFICES ASSUME NEW m \in Nat, m \notin S
             PROVE  FALSE
  OBVIOUS
<1> DEFINE T == {k \in 0..m : k \in S}
           f == [k \in T |-> k + 1]
<1>1. T \subseteq Nat /\ \A k \in T : k <= m
  OBVIOUS
<1>2. IsFiniteSet(T)
  BY <1>1, FS_BoundedSetOfNaturals
<1>3. 0 \in T
  OBVIOUS
<1>4. \A k \in T : k + 1 \in T \ {0}
  OBVIOUS
<1>5. f \in [T -> T \ {0}]
  BY <1>4
<1>6. /\ IsFiniteSet(T \ {0}) /\ Cardinality(T) \in Nat
      /\ Cardinality(T \ {0}) = Cardinality(T) - 1
  BY <1>2, <1>3, FS_RemoveElement, FS_CardinalityType
<1>7. Cardinality(T \ {0}) < Cardinality(T)
  BY <1>6
<1> HIDE DEF f
<1>8. \E x, y \in T : x # y /\ f[x] = f[y]
  BY <1>2, <1>5, <1>6, <1>7, FS_PigeonHole
<1>9. QED
  BY <1>8, <1>1 DEF f

\* The same up to a bound: 0 and each next number, hence all.
LEMMA ScanInduction ==
  ASSUME NEW n \in Nat, NEW S, 0 \in S, \A i \in 1..n : i - 1 \in S => i \in S
  PROVE  \A i \in 0..n : i \in S
<1> DEFINE T == {k \in Nat : k <= n => k \in S}
<1>1. 0 \in T
  OBVIOUS
<1>2. ASSUME NEW k \in Nat, k \in T PROVE k + 1 \in T
  <2>1. CASE k + 1 <= n
    <3>1. k + 1 \in 1..n /\ (k + 1) - 1 = k /\ k \in S
      BY <1>2, <2>1
    <3>2. QED
      BY <3>1
  <2>2. QED
    BY <2>1
<1>3. Nat \subseteq T
  <2> HIDE DEF T
  <2> QED
    BY <1>1, <1>2, SetInduction
<1>4. QED
  BY <1>3

\* The values of f come from base, one step for each number.
Scans(f, n, base, step) ==
  /\ f[0] = base
  /\ \A i \in 1..n : f[i] = step[<<f[i - 1], i>>]

\* A function on 0..n can be defined by its first value and a step.
LEMMA Recursion ==
  ASSUME NEW n \in Nat, NEW V, NEW base \in V, NEW step \in [V \X (1..n) -> V]
  PROVE  \E f \in [0..n -> V] : Scans(f, n, base, step)
<1> DEFINE Good(k, f) == /\ f \in [0..k -> V]
                         /\ f[0] = base
                         /\ \A i \in 1..k : f[i] = step[<<f[i - 1], i>>]
           S == {k \in Nat : k <= n => \E f : Good(k, f)}
<1>1. 0 \in S
  <2>1. Good(0, [i \in 0..0 |-> base])
    OBVIOUS
  <2>2. QED
    BY <2>1
<1>2. ASSUME NEW k \in Nat, k \in S
      PROVE  k + 1 \in S
  <2> SUFFICES ASSUME k + 1 <= n PROVE \E f : Good(k + 1, f)
    OBVIOUS
  <2>1. PICK f : Good(k, f)
    BY <1>2
  <2> DEFINE g == [i \in 0..(k + 1) |-> IF i <= k THEN f[i] ELSE step[<<f[k], k + 1>>]]
  <2>2. step[<<f[k], k + 1>>] \in V
    BY <2>1
  <2>3. Good(k + 1, g)
    <3>1. g \in [0..(k + 1) -> V]
      BY <2>1, <2>2
    <3>2. g[0] = base
      BY <2>1
    <3>3. ASSUME NEW i \in 1..(k + 1) PROVE g[i] = step[<<g[i - 1], i>>]
      <4>1. CASE i <= k
        <5>1. i \in 1..k /\ i - 1 <= k /\ i - 1 \in 0..(k + 1)
          BY <4>1
        <5>2. g[i] = f[i] /\ g[i - 1] = f[i - 1]
          BY <5>1
        <5>3. f[i] = step[<<f[i - 1], i>>]
          BY <2>1, <5>1
        <5>4. QED
          BY <5>2, <5>3
      <4>2. CASE i = k + 1
        <5>1. g[i] = step[<<f[k], k + 1>>] /\ g[i - 1] = f[k]
          BY <4>2
        <5>2. QED
          BY <4>2, <5>1
      <4>3. QED
        BY <4>1, <4>2
    <3>4. QED
      BY <3>1, <3>2, <3>3
  <2>4. QED
    BY <2>3
<1>3. n \in S
  <2> HIDE DEF S
  <2>1. QED
    BY <1>1, <1>2, SetInduction
<1>4. QED
  BY <1>3 DEF Scans

-----------------------------------------------------------------------------
(* Least and greatest elements *)

\* Of a set of numbers that is not empty, Min is one and no other is less.
LEMMA LeastElement ==
  ASSUME NEW s \in SUBSET Nat, s # {}
  PROVE  Min(s) \in s /\ \A y \in s : Min(s) <= y
<1> DEFINE Least(t) == \E x \in t : \A y \in t : x <= y
           S == {k \in Nat : \A t \in SUBSET Nat : (\E x \in t : x <= k) => Least(t)}
<1>1. 0 \in S
  OBVIOUS
<1>2. ASSUME NEW k \in Nat, k \in S PROVE k + 1 \in S
  <2> SUFFICES ASSUME NEW t \in SUBSET Nat, NEW x \in t, x <= k + 1 PROVE Least(t)
    OBVIOUS
  <2>1. CASE \E y \in t : y <= k
    BY <1>2, <2>1
  <2>2. CASE \A y \in t : ~(y <= k)
    <3>1. \A y \in t : x <= y
      BY <2>2
    <3>2. QED
      BY <3>1
  <2>3. QED
    BY <2>1, <2>2
<1>3. Nat \subseteq S
  <2> HIDE DEF S
  <2> QED
    BY <1>1, <1>2, SetInduction
<1>4. PICK k \in Nat : \E x \in s : x <= k
  <2>1. PICK x \in s : TRUE
    OBVIOUS
  <2>2. x \in Nat /\ x <= x
    BY <2>1
  <2>3. QED
    BY <2>1, <2>2
<1>5. \E x \in s : \A y \in s : x <= y
  BY <1>3, <1>4
<1>6. QED
  BY <1>5 DEF Min

\* Of a part of 1..n that is not empty, Max is one and no other is greater.
LEMMA GreatestElement ==
  ASSUME NEW n \in Nat, NEW s \in SUBSET (1..n), s # {}
  PROVE  Max(s) \in s /\ \A y \in s : Max(s) >= y
<1> DEFINE S == {k \in Nat : \A t \in SUBSET (1..k) : t # {} => \E x \in t : \A y \in t : x >= y}
<1>1. 0 \in S
  <2>1. \A t \in SUBSET (1..0) : t = {}
    <3>1. 1..0 = {}
      OBVIOUS
    <3>2. QED
      BY <3>1
  <2>2. QED
    BY <2>1
<1>2. ASSUME NEW k \in Nat, k \in S PROVE k + 1 \in S
  <2> SUFFICES ASSUME NEW t \in SUBSET (1..(k + 1)), t # {}
               PROVE  \E x \in t : \A y \in t : x >= y
    OBVIOUS
  <2>1. CASE k + 1 \in t
    BY <2>1
  <2>2. CASE k + 1 \notin t
    <3>1. t \in SUBSET (1..k)
      BY <2>2
    <3>2. QED
      BY <1>2, <3>1
  <2>3. QED
    BY <2>1, <2>2
<1>3. Nat \subseteq S
  <2> HIDE DEF S
  <2> QED
    BY <1>1, <1>2, SetInduction
<1>4. \E x \in s : \A y \in s : x >= y
  BY <1>3
<1>5. QED
  BY <1>4 DEF Max

\* The greatest number of an interval from 1, and what is left without it.
LEMMA IntervalMax ==
  ASSUME NEW n \in Nat, NEW i \in 1..n
  PROVE  Max(1..i) = i /\ (1..i) \ {Max(1..i)} = 1..(i - 1)
<1>1. Max(1..i) \in 1..i /\ \A y \in 1..i : Max(1..i) >= y
  <2>1. i \in Nat /\ (1..i) # {} /\ (1..i) \in SUBSET (1..i)
    OBVIOUS
  <2>2. QED
    BY <2>1, GreatestElement
<1>2. Max(1..i) = i
  BY <1>1
<1>3. QED
  BY <1>2

-----------------------------------------------------------------------------
(* Folds *)

\* What FoldLeft chooses for a sequence of length n: the fold over each set of
\* its positions, the greatest last.
IsFold(h, n, base, step) ==
  h = [s \in SUBSET (1..n) |->
         IF s = {} THEN base ELSE step[<<h[s \ {Max(s)}], Max(s)>>]]

\* There is such a function: position by position, the folds over all sets.
LEMMA FoldExists ==
  ASSUME NEW n \in Nat, NEW V, NEW base \in V, NEW step \in [V \X (1..n) -> V]
  PROVE  \E h \in [SUBSET (1..n) -> V] : IsFold(h, n, base, step)
<1> DEFINE P == SUBSET (1..n)
           W == [P -> V]
           start == [s \in P |-> base]
           next == [p \in W \X (1..n) |->
                      [s \in P |-> IF p[2] \in s THEN step[<<p[1][s], p[2]>>] ELSE p[1][s]]]
<1>1. start \in W
  OBVIOUS
<1>2. next \in [W \X (1..n) -> W]
  <2>1. ASSUME NEW g \in W, NEW i \in 1..n, NEW s \in P
        PROVE  (IF i \in s THEN step[<<g[s], i>>] ELSE g[s]) \in V
    OBVIOUS
  <2>2. ASSUME NEW p \in W \X (1..n)
        PROVE  [s \in P |-> IF p[2] \in s THEN step[<<p[1][s], p[2]>>] ELSE p[1][s]] \in W
    <3> DEFINE g == p[1]
               i == p[2]
    <3>1. g \in W /\ i \in 1..n
      OBVIOUS
    <3> HIDE DEF g, i, P
    <3>2. \A s \in P : (IF i \in s THEN step[<<g[s], i>>] ELSE g[s]) \in V
      BY <2>1, <3>1
    <3>3. [s \in P |-> IF i \in s THEN step[<<g[s], i>>] ELSE g[s]] \in W
      BY <3>2
    <3>4. QED
      BY <3>3 DEF g, i
  <2>3. QED
    BY <2>2
<1> HIDE DEF W, start, next
<1>3. PICK g \in [0..n -> W] : Scans(g, n, start, next)
  BY <1>1, <1>2, Recursion, Zenon
<1> USE DEF W, start, next, Scans
<1>4. ASSUME NEW i \in 1..n, NEW s \in P
      PROVE  g[i][s] = IF i \in s THEN step[<<g[i - 1][s], i>>] ELSE g[i - 1][s]
  <2>1. i - 1 \in 0..n /\ g[i - 1] \in W
    BY <1>3
  <2>2. <<g[i - 1], i>> \in W \X (1..n)
    BY <2>1
  <2>3. g[i] = next[<<g[i - 1], i>>]
    BY <1>3
  <2>4. next[<<g[i - 1], i>>]
          = [t \in P |-> IF i \in t THEN step[<<g[i - 1][t], i>>] ELSE g[i - 1][t]]
    BY <2>2
  <2>5. QED
    BY <2>3, <2>4
<1>5. ASSUME NEW m \in 0..n, NEW s \in P, \A x \in s : x <= m
      PROVE  g[n][s] = g[m][s]
  <2> DEFINE S == {i \in 0..n : i >= m => g[i][s] = g[m][s]}
  <2>1. 0 \in S
    OBVIOUS
  <2>2. ASSUME NEW i \in 1..n, i - 1 \in S PROVE i \in S
    <3>1. CASE i > m
      <4>1. i \notin s /\ i - 1 >= m
        BY <1>5, <3>1
      <4>2. g[i][s] = g[i - 1][s]
        BY <1>4, <4>1
      <4>3. QED
        BY <2>2, <4>1, <4>2
    <3>2. QED
      BY <3>1
  <2>3. n \in S
    <3> HIDE DEF S
    <3>1. \A i \in 0..n : i \in S
      BY <2>1, <2>2, ScanInduction, Zenon
    <3>2. QED
      BY <3>1
  <2>4. QED
    BY <2>3
<1>6. ASSUME NEW m \in 1..n, NEW s \in P
      PROVE  g[m - 1][s] = g[m - 1][s \ {m}]
  <2> DEFINE S == {i \in 0..n : i < m => g[i][s] = g[i][s \ {m}]}
  <2>1. 0 \in S
    <3>1. s \ {m} \in P
      OBVIOUS
    <3>2. g[0][s] = base /\ g[0][s \ {m}] = base
      BY <1>3, <3>1
    <3>3. QED
      BY <3>2
  <2>2. ASSUME NEW i \in 1..n, i - 1 \in S PROVE i \in S
    <3>1. CASE i < m
      <4>1. (i \in s <=> i \in s \ {m}) /\ s \ {m} \in P
        BY <3>1
      <4>2. g[i - 1][s] = g[i - 1][s \ {m}]
        BY <2>2, <3>1
      <4>3. /\ g[i][s] = IF i \in s THEN step[<<g[i - 1][s], i>>] ELSE g[i - 1][s]
            /\ g[i][s \ {m}] = IF i \in s \ {m} THEN step[<<g[i - 1][s \ {m}], i>>]
                                                ELSE g[i - 1][s \ {m}]
        BY <1>4, <4>1
      <4>4. g[i][s] = g[i][s \ {m}]
        BY <4>1, <4>2, <4>3
      <4>5. QED
        BY <4>4
    <3>2. QED
      BY <3>1
  <2>3. m - 1 \in S
    <3> HIDE DEF S
    <3>1. \A i \in 0..n : i \in S
      BY <2>1, <2>2, ScanInduction, Zenon
    <3>2. QED
      BY <3>1
  <2>4. QED
    BY <2>3
<1>7. g[n] \in [SUBSET (1..n) -> V]
  BY <1>3
<1>8. ASSUME NEW s \in P
      PROVE  g[n][s] = IF s = {} THEN base ELSE step[<<g[n][s \ {Max(s)}], Max(s)>>]
  <2>1. CASE s = {}
    <3>1. g[n][s] = g[0][s]
      BY <1>5, <2>1
    <3>2. QED
      BY <1>3, <2>1, <3>1
  <2>2. CASE s # {}
    <3>1. Max(s) \in s /\ \A y \in s : Max(s) >= y
      BY <2>2, GreatestElement
    <3> DEFINE m == Max(s)
    <3> HIDE DEF m
    <3>2. m \in 1..n /\ m \in s /\ \A y \in s : y <= m
      BY <3>1 DEF m
    <3>3. g[n][s] = g[m][s]
      BY <1>5, <3>2
    <3>4. g[m][s] = step[<<g[m - 1][s], m>>]
      BY <1>4, <3>2
    <3>5. g[m - 1][s] = g[m - 1][s \ {m}]
      BY <1>6, <3>2
    <3>6. m - 1 \in 0..n /\ s \ {m} \in P /\ \A y \in s \ {m} : y <= m - 1
      BY <3>2
    <3>7. g[n][s \ {m}] = g[m - 1][s \ {m}]
      BY <1>5, <3>6
    <3>8. g[n][s] = step[<<g[n][s \ {m}], m>>]
      BY <3>3, <3>4, <3>5, <3>7
    <3>9. QED
      BY <2>2, <3>8 DEF m
  <2>3. QED
    BY <2>1, <2>2
<1>9. IsFold(g[n], n, base, step)
  BY <1>7, <1>8 DEF IsFold
<1>10. QED
  BY <1>7, <1>9

-----------------------------------------------------------------------------
(* A fold as a function of what it folds, element by element *)

\* The values of the fold of step over s, one for each number of elements.
Course(step, base, s) ==
  CHOOSE f : f = [i \in 0..Len(s) |-> IF i = 0 THEN base ELSE step[<<f[i - 1], s[i]>>]]

Folded(step, base, s) == Course(step, base, s)[Len(s)]

Follows(f, V, base, step, s) ==
  /\ f \in [0..Len(s) -> V] /\ f[0] = base
  /\ \A i \in 1..Len(s) : f[i] = step[<<f[i - 1], s[i]>>]

\* A course begins with base and goes on by step.
LEMMA CourseSteps ==
  ASSUME NEW V, NEW E, NEW base \in V, NEW step \in [V \X E -> V], NEW s \in Seq(E)
  PROVE  Follows(Course(step, base, s), V, base, step, s)
<1> DEFINE n == Len(s)
           at == [x \in V \X (1..n) |-> step[<<x[1], s[x[2]]>>]]
           Eq(f) == f = [i \in 0..n |-> IF i = 0 THEN base ELSE step[<<f[i - 1], s[i]>>]]
           c == CHOOSE f : Eq(f)
<1>1. n \in Nat /\ \A i \in 1..n : s[i] \in E
  OBVIOUS
<1>2. at \in [V \X (1..n) -> V]
  <2> HIDE DEF n
  <2>1. ASSUME NEW x \in V \X (1..n) PROVE step[<<x[1], s[x[2]]>>] \in V
    BY <1>1
  <2>2. QED
    BY <2>1
<1>3. PICK h \in [0..n -> V] : Scans(h, n, base, at)
  <2> HIDE DEF n, at
  <2> QED
    BY <1>1, <1>2, Recursion, Zenon
<1> HIDE DEF n
<1>4. \A i \in 1..n : h[i - 1] \in V /\ at[<<h[i - 1], i>>] = step[<<h[i - 1], s[i]>>]
  <2> SUFFICES ASSUME NEW i \in 1..n
               PROVE  h[i - 1] \in V /\ at[<<h[i - 1], i>>] = step[<<h[i - 1], s[i]>>]
    OBVIOUS
  <2>1. i - 1 \in 0..n
    BY <1>1
  <2>2. h[i - 1] \in V
    BY <2>1
  <2>3. <<h[i - 1], i>> \in V \X (1..n)
    BY <2>2
  <2>4. QED
    BY <2>2, <2>3
<1> HIDE DEF at
<1>5. Eq(h)
  <2>1. ASSUME NEW i \in 0..n
        PROVE  h[i] = IF i = 0 THEN base ELSE step[<<h[i - 1], s[i]>>]
    <3>1. CASE i = 0
      BY <1>3, <3>1 DEF Scans
    <3>2. CASE i # 0
      <4>1. i \in 1..n
        BY <1>1, <3>2
      <4>2. h[i] = at[<<h[i - 1], i>>]
        BY <1>3, <4>1 DEF Scans
      <4>3. QED
        BY <1>4, <3>2, <4>1, <4>2
    <3>3. QED
      BY <3>1, <3>2
  <2>2. QED
    BY <2>1
<1>6. Eq(c)
  <2> HIDE DEF Eq
  <2> QED
    BY <1>5
<1>7. c[0] = base /\ \A i \in 1..n : c[i] = step[<<c[i - 1], s[i]>>]
  <2> HIDE DEF c
  <2> QED
    BY <1>1, <1>6
<1>8. \A i \in 0..n : c[i] = h[i]
  <2> DEFINE S == {i \in 0..n : c[i] = h[i]}
  <2> HIDE DEF c
  <2>1. 0 \in S
    BY <1>1, <1>3, <1>7 DEF Scans
  <2>2. ASSUME NEW i \in 1..n, i - 1 \in S PROVE i \in S
    <3>1. i \in 0..n /\ c[i - 1] = h[i - 1]
      BY <1>1, <2>2
    <3>2. h[i] = at[<<h[i - 1], i>>]
      BY <1>3 DEF Scans
    <3>3. QED
      BY <1>4, <1>7, <3>1, <3>2
  <2>3. \A i \in 0..n : i \in S
    <3> HIDE DEF S
    <3> QED
      BY <1>1, <2>1, <2>2, ScanInduction, Zenon
  <2>4. QED
    BY <2>3
<1>9. c \in [0..n -> V]
  <2> HIDE DEF c
  <2>1. c = [i \in 0..n |-> c[i]]
    BY <1>6
  <2>2. QED
    BY <1>8, <2>1
<1>10. c = Course(step, base, s)
  BY DEF Course, n
<1>11. QED
  <2> HIDE DEF c
  <2> QED
    BY <1>7, <1>9, <1>10 DEF n, Follows

\* What a fold needs: values V that step keeps, elements E.
Foldable(V, E, base, step, s) ==
  base \in V /\ step \in [V \X E -> V] /\ s \in Seq(E)

\* The fold of nothing, and of a further element.
LEMMA FoldedAppend ==
  ASSUME NEW V, NEW E, NEW base, NEW step, NEW s, Foldable(V, E, base, step, s)
  PROVE  /\ Folded(step, base, s) \in V
         /\ Folded(step, base, << >>) = base
         /\ \A x \in E : Folded(step, base, Append(s, x)) = step[<<Folded(step, base, s), x>>]
<1>0. base \in V /\ step \in [V \X E -> V] /\ s \in Seq(E)
  BY DEF Foldable
<1> USE <1>0
<1> DEFINE n == Len(s)
           c == Course(step, base, s)
<1>1. n \in Nat
  OBVIOUS
<1>2. /\ c \in [0..n -> V] /\ c[0] = base
      /\ \A i \in 1..n : c[i] = step[<<c[i - 1], s[i]>>]
  <2>1. Follows(Course(step, base, s), V, base, step, s)
    BY CourseSteps
  <2>2. QED
    BY <2>1 DEF Follows
<1> HIDE DEF n, c
<1>3. Folded(step, base, s) = c[n] /\ c[n] \in V
  BY <1>1, <1>2 DEF Folded, n, c
<1>4. Folded(step, base, << >>) = base
  <2>1. << >> \in Seq(E) /\ Len(<< >>) = 0
    OBVIOUS
  <2>2. Course(step, base, << >>)[0] = base
    <3>1. Follows(Course(step, base, << >>), V, base, step, << >>)
      BY <2>1, CourseSteps
    <3>2. QED
      BY <3>1 DEF Follows
  <2>3. QED
    BY <2>1, <2>2 DEF Folded
<1>5. ASSUME NEW x \in E
      PROVE  Folded(step, base, Append(s, x)) = step[<<Folded(step, base, s), x>>]
  <2> DEFINE t == Append(s, x)
             d == Course(step, base, t)
  <2>1. t \in Seq(E) /\ Len(t) = n + 1 /\ t[n + 1] = x /\ \A i \in 1..n : t[i] = s[i]
    BY DEF n
  <2> HIDE DEF t
  <2>2. d[0] = base /\ \A i \in 1..Len(t) : d[i] = step[<<d[i - 1], t[i]>>]
    <3>1. Follows(Course(step, base, t), V, base, step, t)
      BY <2>1, CourseSteps
    <3>2. QED
      BY <3>1 DEF Follows
  <2> HIDE DEF d
  <2>3. \A i \in 0..n : d[i] = c[i]
    <3> DEFINE S == {i \in 0..n : d[i] = c[i]}
    <3>1. 0 \in S
      BY <1>1, <1>2, <2>2
    <3>2. ASSUME NEW i \in 1..n, i - 1 \in S PROVE i \in S
      <4>1. i \in 1..Len(t) /\ i \in 0..n /\ d[i - 1] = c[i - 1] /\ t[i] = s[i]
        BY <1>1, <2>1, <3>2
      <4>2. d[i] = c[i]
        BY <1>2, <2>2, <4>1
      <4>3. QED
        BY <4>1, <4>2
    <3>3. \A i \in 0..n : i \in S
      <4> HIDE DEF S
      <4> QED
        BY <1>1, <3>1, <3>2, ScanInduction, Zenon
    <3>4. QED
      BY <3>3
  <2>4. d[n] = c[n] /\ d[n + 1] = step[<<d[n], t[n + 1]>>]
    <3>1. n + 1 \in 1..Len(t) /\ (n + 1) - 1 = n /\ n \in 0..n
      BY <1>1, <2>1
    <3>2. QED
      BY <2>2, <2>3, <3>1
  <2>5. Folded(step, base, t) = d[n + 1]
    BY <2>1 DEF Folded, d
  <2>6. QED
    BY <1>3, <2>1, <2>4, <2>5 DEF t
<1>6. QED
  BY <1>3, <1>4, <1>5

\* What FoldLeft chooses is a function on the sets of positions of s.
Chosen(h, base, step, s) ==
  /\ h[{}] = base
  /\ \A t \in SUBSET (1..Len(s)) : t # {} =>
       Max(t) \in 1..Len(s) /\ h[t] = step[<<h[t \ {Max(t)}], s[Max(t)]>>]

\* Such a function as far as its values are known to be in V.
ChosenIn(h, V, base, step, s) ==
  /\ h[{}] = base
  /\ \A t \in SUBSET (1..Len(s)) : t # {} /\ h[t \ {Max(t)}] \in V =>
       h[t] = step[<<h[t \ {Max(t)}], s[Max(t)]>>]

\* There is one.
LEMMA FoldChoice ==
  ASSUME NEW V, NEW E, NEW base, NEW step, NEW s, Foldable(V, E, base, step, s)
  PROVE  \E h \in [SUBSET (1..Len(s)) -> V] : Chosen(h, base, step, s)
<1>0. base \in V /\ step \in [V \X E -> V] /\ s \in Seq(E)
  BY DEF Foldable
<1> USE <1>0
<1> DEFINE n == Len(s)
           at == [x \in V \X (1..n) |-> step[<<x[1], s[x[2]]>>]]
<1>1. n \in Nat /\ \A i \in 1..n : s[i] \in E
  OBVIOUS
<1>2. at \in [V \X (1..n) -> V]
  <2> HIDE DEF n
  <2>1. ASSUME NEW x \in V \X (1..n) PROVE step[<<x[1], s[x[2]]>>] \in V
    BY <1>1
  <2>2. QED
    BY <2>1
<1>3. PICK h \in [SUBSET (1..n) -> V] : IsFold(h, n, base, at)
  <2> HIDE DEF n, at
  <2> QED
    BY <1>1, <1>2, FoldExists, Zenon
<1> HIDE DEF n
<1>4. ASSUME NEW t \in SUBSET (1..n), t # {}
      PROVE  /\ Max(t) \in 1..n
             /\ at[<<h[t \ {Max(t)}], Max(t)>>] = step[<<h[t \ {Max(t)}], s[Max(t)]>>]
  <2>1. Max(t) \in 1..n
    BY <1>1, <1>4, GreatestElement
  <2>2. h[t \ {Max(t)}] \in V
    OBVIOUS
  <2>3. QED
    BY <2>1, <2>2
<1> HIDE DEF at
<1>5. ASSUME NEW t \in SUBSET (1..n)
      PROVE  h[t] = IF t = {} THEN base ELSE at[<<h[t \ {Max(t)}], Max(t)>>]
  BY <1>3 DEF IsFold
<1>6. h[{}] = base
  BY <1>5
<1>7. QED
  BY <1>4, <1>5, <1>6 DEF n, Chosen

\* What FoldLeft computes with such a function is the fold.
LEMMA FoldIsFolded ==
  ASSUME NEW V, NEW E, NEW base, NEW step, NEW s, NEW h,
         Foldable(V, E, base, step, s),
         ChosenIn(h, V, base, step, s)
  PROVE  h[1..Len(s)] = Folded(step, base, s)
<1>0. base \in V /\ step \in [V \X E -> V] /\ s \in Seq(E)
  BY DEF Foldable
<1> USE <1>0
<1> DEFINE n == Len(s)
           c == Course(step, base, s)
           S == {i \in 0..n : h[1..i] = c[i]}
<1>1. n \in Nat
  OBVIOUS
<1>2. /\ c \in [0..n -> V] /\ c[0] = base
      /\ \A i \in 1..n : c[i] = step[<<c[i - 1], s[i]>>]
  <2>1. Follows(Course(step, base, s), V, base, step, s)
    BY CourseSteps
  <2>2. QED
    BY <2>1 DEF Follows
<1>3. /\ h[{}] = base
      /\ \A t \in SUBSET (1..n) :
           t # {} /\ h[t \ {Max(t)}] \in V => h[t] = step[<<h[t \ {Max(t)}], s[Max(t)]>>]
  BY DEF ChosenIn
<1> HIDE DEF n, c
<1>4. 0 \in S
  <2>1. 1..0 = {}
    OBVIOUS
  <2>2. QED
    BY <1>1, <1>2, <1>3, <2>1
<1>5. ASSUME NEW i \in 1..n, i - 1 \in S PROVE i \in S
  <2>1. i \in 0..n /\ i - 1 \in 0..n /\ i \in 1..i /\ 1..i \in SUBSET (1..n)
    BY <1>1
  <2>2. Max(1..i) = i /\ (1..i) \ {Max(1..i)} = 1..(i - 1)
    BY <1>1, IntervalMax
  <2>3. h[1..(i - 1)] = c[i - 1] /\ c[i - 1] \in V
    BY <1>2, <1>5, <2>1
  <2>4. h[1..i] = step[<<h[1..(i - 1)], s[i]>>]
    BY <1>3, <2>1, <2>2, <2>3
  <2>5. QED
    BY <1>2, <2>1, <2>3, <2>4
<1>6. n \in S
  <2>1. \A i \in 0..n : i \in S
    <3> HIDE DEF S
    <3> QED
      BY <1>1, <1>4, <1>5, ScanInduction, Zenon
  <2>2. QED
    BY <1>1, <2>1
<1>7. QED
  BY <1>6 DEF n, c, Folded

-----------------------------------------------------------------------------
(* A sequence of sequences end to end, as a fold *)

\* A beginning of a sequence, with one element more.
LEMMA PrefixStep ==
  ASSUME NEW X, NEW s \in Seq(X), NEW i \in 1..Len(s)
  PROVE  /\ SubSeq(s, 1, i - 1) \in Seq(X) /\ s[i] \in X
         /\ SubSeq(s, 1, i) = Append(SubSeq(s, 1, i - 1), s[i])
<1>1. i - 1 \in Int /\ \A k \in 1..(i - 1) : s[k] \in X
  OBVIOUS
<1>2. SubSeq(s, 1, i - 1) \in Seq(X) /\ s[i] \in X
  BY <1>1, SubSeqProperties
<1>3. SubSeq(s, 1, i) = SubSeq(s, 1, i - 1) \o <<s[i]>>
  <2>1. 1 \in 1..Len(s) /\ i \in 1..Len(s)
    OBVIOUS
  <2>2. QED
    BY <2>1, SubSeqRecursiveSecond
<1>4. QED
  BY <1>2, <1>3, AppendIsConcat

FlatStep(X) == [x \in Seq(X) \X Seq(X) |-> x[1] \o x[2]]

LEMMA FlatTyped ==
  ASSUME NEW X
  PROVE  /\ FlatStep(X) \in [Seq(X) \X Seq(X) -> Seq(X)]
         /\ \A r, s \in Seq(X) : FlatStep(X)[<<r, s>>] = r \o s
<1>1. \A r, s \in Seq(X) : r \o s \in Seq(X)
  BY ConcatProperties
<1> DEFINE Q == Seq(X)
<1> HIDE DEF Q
<1>2. \A x \in Q \X Q : x[1] \o x[2] \in Q
  BY <1>1 DEF Q
<1>3. FlatStep(X) = [x \in Q \X Q |-> x[1] \o x[2]]
  BY DEF FlatStep, Q
<1>4. QED
  BY <1>2, <1>3 DEF Q

LEMMA FlattenFolded ==
  ASSUME NEW X, NEW ss \in Seq(Seq(X))
  PROVE  FlattenSeq(ss) = Folded(FlatStep(X), << >>, ss)
<1> DEFINE n == Len(ss)
           Q == Seq(X)
           step == FlatStep(X)
           none == << >>
           c == Course(step, none, ss)
           Eq(g) == g = [i \in 1..n |-> IF i = 1 THEN ss[i] ELSE g[i - 1] \o ss[i]]
           it == CHOOSE g : Eq(g)
<1>1. none \in Q /\ none \in Seq(Q)
  OBVIOUS
<1>2. step \in [Q \X Q -> Q] /\ \A r, s \in Q : step[<<r, s>>] = r \o s
  BY FlatTyped
<1>3. FlattenSeq(ss) = IF Len(ss) = 0 THEN ss ELSE it[n]
  BY Zenon DEF FlattenSeq
<1>4. ss \in Seq(Q)
  OBVIOUS
<1>5. \A r \in Q : none \o r = r
  OBVIOUS
<1> HIDE DEF Q, step
<1>6. n \in Nat /\ \A i \in 1..n : ss[i] \in Q
  BY <1>4
<1>7. Foldable(Q, Q, none, step, ss)
  BY <1>1, <1>2, <1>4 DEF Foldable
<1> HIDE DEF none
<1>8. Follows(c, Q, none, step, ss)
  BY <1>1, <1>2, <1>4, CourseSteps
<1> HIDE DEF n, c
<1>9. /\ c \in [0..n -> Q] /\ c[0] = none
      /\ \A i \in 1..n : c[i] = step[<<c[i - 1], ss[i]>>]
  BY <1>8 DEF Follows, n
<1>10. ASSUME NEW i \in 1..n
       PROVE  c[i] = IF i = 1 THEN ss[i] ELSE c[i - 1] \o ss[i]
  <2>1. i - 1 \in 0..n /\ (i = 1 => i - 1 = 0)
    BY <1>6
  <2>2. c[i - 1] \in Q /\ ss[i] \in Q
    BY <1>6, <1>9, <2>1
  <2>3. c[i] = c[i - 1] \o ss[i]
    BY <1>2, <1>9, <2>2
  <2>4. QED
    BY <1>5, <1>9, <2>1, <2>2, <2>3
<1>11. Eq([i \in 1..n |-> c[i]])
  <2> DEFINE h == [i \in 1..n |-> c[i]]
  <2>1. ASSUME NEW i \in 1..n
        PROVE  h[i] = IF i = 1 THEN ss[i] ELSE h[i - 1] \o ss[i]
    <3>1. i # 1 => i - 1 \in 1..n
      BY <1>6
    <3>2. i # 1 => h[i - 1] = c[i - 1]
      BY <3>1
    <3>3. QED
      BY <1>10, <3>2
  <2>2. DOMAIN h = 1..n /\ h = [i \in 1..n |-> h[i]]
    OBVIOUS
  <2> HIDE DEF h
  <2>3. Eq(h)
    BY <2>1, <2>2
  <2>4. QED
    BY <2>3 DEF h
<1>12. Eq(it)
  <2> HIDE DEF Eq
  <2> QED
    BY <1>11
<1> HIDE DEF it
<1>13. \A i \in 1..n : it[i] = IF i = 1 THEN ss[i] ELSE it[i - 1] \o ss[i]
  BY <1>12
<1>14. \A i \in 0..n : i # 0 => it[i] = c[i]
  <2> DEFINE S == {i \in 0..n : i # 0 => it[i] = c[i]}
  <2>1. 0 \in S
    BY <1>6
  <2>2. ASSUME NEW i \in 1..n, i - 1 \in S PROVE i \in S
    <3>1. i \in 0..n /\ (i # 1 => i - 1 # 0)
      BY <1>6
    <3>2. i # 1 => it[i - 1] = c[i - 1]
      BY <2>2, <3>1
    <3>3. QED
      BY <1>10, <1>13, <3>1, <3>2
  <2>3. \A i \in 0..n : i \in S
    <3> HIDE DEF S
    <3> QED
      BY <1>6, <2>1, <2>2, ScanInduction, Zenon
  <2>4. QED
    BY <2>3
<1>15. Folded(step, none, ss) = c[n]
  BY DEF Folded, c, n
<1>16. CASE n = 0
  <2>1. ss = none
    BY <1>4, <1>16 DEF n, none
  <2>2. FlattenSeq(ss) = none
    BY <1>3, <1>16, <2>1 DEF n
  <2>3. QED
    BY <1>9, <1>15, <1>16, <2>2 DEF none, step
<1>17. CASE n # 0
  <2>1. n \in 0..n
    BY <1>6
  <2>2. FlattenSeq(ss) = it[n]
    BY <1>3, <1>17 DEF n
  <2>3. it[n] = c[n]
    BY <1>14, <1>17, <2>1
  <2>4. QED
    BY <1>15, <2>2, <2>3 DEF none, step
<1>18. QED
  BY <1>16, <1>17

\* Nothing, and one more sequence at the end.
LEMMA FlattenAppend ==
  ASSUME NEW X, NEW ss \in Seq(Seq(X))
  PROVE  /\ FlattenSeq(ss) \in Seq(X)
         /\ FlattenSeq(<< >>) = << >>
         /\ \A s \in Seq(X) : FlattenSeq(Append(ss, s)) = FlattenSeq(ss) \o s
<1> DEFINE Q == Seq(X)
           step == FlatStep(X)
           none == << >>
<1>1. step \in [Q \X Q -> Q] /\ \A r, s \in Q : step[<<r, s>>] = r \o s
  BY FlatTyped
<1>2. \A t \in Seq(Q) : FlattenSeq(t) = Folded(step, none, t)
  BY FlattenFolded
<1>3. none \in Q /\ none \in Seq(Q) /\ ss \in Seq(Q)
  OBVIOUS
<1> HIDE DEF Q, step, none
<1>4. Foldable(Q, Q, none, step, ss)
  BY <1>1, <1>3 DEF Foldable
<1>5. /\ Folded(step, none, ss) \in Q
      /\ Folded(step, none, << >>) = none
      /\ \A s \in Q : Folded(step, none, Append(ss, s)) = step[<<Folded(step, none, ss), s>>]
  BY <1>4, FoldedAppend
<1>6. FlattenSeq(ss) \in Q /\ FlattenSeq(none) = none
  BY <1>2, <1>3, <1>5 DEF none
<1>7. ASSUME NEW s \in Q PROVE FlattenSeq(Append(ss, s)) = FlattenSeq(ss) \o s
  <2>1. Append(ss, s) \in Seq(Q)
    BY <1>3, AppendProperties
  <2>2. QED
    BY <1>1, <1>2, <1>3, <1>5, <1>6, <2>1
<1>8. QED
  BY <1>6, <1>7 DEF none, Q

\* If no sequence is empty, the first element is that of the first one.
LEMMA FlattenHead ==
  ASSUME NEW X, NEW ss \in Seq(Seq(X)), ss # << >>,
         \A i \in 1..Len(ss) : ss[i] # << >>
  PROVE  FlattenSeq(ss) # << >> /\ FlattenSeq(ss)[1] = ss[1][1]
<1> DEFINE n == Len(ss)
           Q == Seq(X)
           Upto(i) == SubSeq(ss, 1, i)
           P(i) == FlattenSeq(Upto(i)) # << >> /\ FlattenSeq(Upto(i))[1] = ss[1][1]
           S == {i \in 0..n : i # 0 => P(i)}
<1>1. n \in Nat \ {0} /\ ss \in Seq(Q) /\ \A i \in 1..n : ss[i] \in Q
  BY EmptySeq
<1>2. ASSUME NEW i \in 1..n, i - 1 \in S PROVE i \in S
  <2> DEFINE u == Upto(i - 1)
             f == FlattenSeq(u)
  <2>1. u \in Seq(Q)
    <3>1. \A k \in 1..(i - 1) : ss[k] \in Q
      BY <1>1
    <3> HIDE DEF Q
    <3>2. QED
      BY <1>1, <3>1, SubSeqProperties
  <2>2. Upto(i) = Append(u, ss[i])
    <3>1. 1 \in 1..Len(ss) /\ i \in 1..Len(ss) /\ ss[i] \in Q
      BY <1>1
    <3> HIDE DEF Q
    <3>2. Upto(i) = u \o <<ss[i]>>
      BY <1>1, <3>1, SubSeqRecursiveSecond
    <3>3. QED
      BY <2>1, <3>1, <3>2, AppendIsConcat
  <2>3. ss[i] \in Q /\ ss[i] # << >> /\ i \in 0..n
    BY <1>1
  <2> HIDE DEF Upto
  <2>4. FlattenSeq(Upto(i)) = f \o ss[i] /\ f \in Seq(X)
    BY <2>1, <2>2, <2>3, FlattenAppend
  <2>5. /\ f \o ss[i] # << >>
        /\ (f \o ss[i])[1] = IF f = << >> THEN ss[i][1] ELSE f[1]
    <3>1. /\ Len(f) \in Nat /\ Len(ss[i]) \in Nat /\ Len(ss[i]) # 0
          /\ f = << >> <=> Len(f) = 0
      BY <2>3, <2>4, EmptySeq
    <3>2. /\ Len(f \o ss[i]) = Len(f) + Len(ss[i])
          /\ \A k \in 1 .. Len(f) + Len(ss[i]) : (f \o ss[i])[k] =
                IF k <= Len(f) THEN f[k] ELSE ss[i][k - Len(f)]
      BY <2>3, <2>4, ConcatProperties
    <3> HIDE DEF f
    <3>3. 1 \in 1 .. Len(f) + Len(ss[i]) /\ Len(f \o ss[i]) # 0
      BY <3>1, <3>2
    <3>4. f \o ss[i] # << >>
      BY <3>3
    <3>5. CASE f = << >>
      BY <3>1, <3>2, <3>3, <3>4, <3>5
    <3>6. CASE f # << >>
      BY <3>1, <3>2, <3>3, <3>4, <3>6
    <3>7. QED
      BY <3>5, <3>6
  <2>6. CASE i = 1
    <3>1. u = << >>
      BY <2>6, SubSeqEmpty DEF Upto
    <3>2. f = << >>
      BY <2>1, <3>1, FlattenAppend
    <3> HIDE DEF f
    <3>3. P(i)
      BY <2>4, <2>5, <2>6, <3>2
    <3>4. QED
      BY <2>3, <3>3
  <2>7. CASE i # 1
    <3>1. i - 1 # 0
      BY <2>7
    <3>2. f # << >> /\ f[1] = ss[1][1]
      BY <1>2, <3>1
    <3> HIDE DEF f
    <3>3. P(i)
      BY <2>4, <2>5, <3>2
    <3>4. QED
      BY <2>3, <3>3
  <2>8. QED
    BY <2>6, <2>7
<1>3. 0 \in S
  BY <1>1
<1>4. n \in S
  <2>1. \A i \in 0..n : i \in S
    <3> HIDE DEF S, n
    <3> QED
      BY <1>1, <1>2, <1>3, ScanInduction, Zenon
  <2>2. QED
    BY <1>1, <2>1
<1>5. Upto(n) = ss
  BY SubSeqFull
<1> HIDE DEF Upto, n
<1>6. QED
  BY <1>1, <1>4, <1>5

-----------------------------------------------------------------------------
(* The two loops of stream_reconstruct.go.  The pieces P of the texts, the *)
(* calls C, the finish reasons F and the strings S of the other fields are *)
(* whatever a stream has.                                                  *)

Events(P, C, S, F) ==
  [data : BOOLEAN, id : S, choices : S, role : S, content : Seq(P),
   text : Seq(P), calls : Seq(C), finish : F, usage : BOOLEAN]

Responses(P, C, S, F) ==
  [json : BOOLEAN, lines : Seq(Events(P, C, S, F)), choices : BOOLEAN, id : S,
   role : S, content : Seq(P), calls : Seq(C), finish : F, usage : BOOLEAN]

-----------------------------------------------------------------------------
(* parseSSEChunks *)

ParseStep(E) == [x \in Seq(E) \X E |-> Parse(x[1], x[2])]

\* A line adds at most itself to the chunks.
LEMMA ParseTyped ==
  ASSUME NEW E
  PROVE  ParseStep(E) \in [Seq(E) \X E -> Seq(E)]
<1>1. ASSUME NEW x \in Seq(E) \X E PROVE Parse(x[1], x[2]) \in Seq(E)
  <2>1. x[1] \in Seq(E) /\ x[2] \in E
    OBVIOUS
  <2>2. Append(x[1], x[2]) \in Seq(E)
    BY <2>1, AppendProperties
  <2>3. QED
    BY <2>1, <2>2 DEF Parse
<1>2. QED
  BY <1>1 DEF ParseStep

\* The loop over the lines is the fold of its body.
LEMMA ChunksFolded ==
  ASSUME NEW E, NEW lines \in Seq(E)
  PROVE  Chunks(lines) = Folded(ParseStep(E), << >>, lines)
<1> DEFINE n == Len(lines)
           step == ParseStep(E)
           Eq(g) == g = [t \in SUBSET DOMAIN lines |->
                           IF t = {} THEN << >> ELSE Parse(g[t \ {Max(t)}], lines[Max(t)])]
           it == CHOOSE g : Eq(g)
<1>1. n \in Nat /\ DOMAIN lines = 1..n /\ \A i \in 1..n : lines[i] \in E
  BY LenProperties
<1>2. Chunks(lines) = it[DOMAIN lines]
  BY Zenon DEF Chunks, FoldLeft, MapThenFoldSet
<1>3. step \in [Seq(E) \X E -> Seq(E)]
  BY ParseTyped
<1>4. << >> \in Seq(E)
  OBVIOUS
<1>5. \A v \in Seq(E), x \in E : step[<<v, x>>] = Parse(v, x)
  BY DEF ParseStep
<1> HIDE DEF step
<1>6. Foldable(Seq(E), E, << >>, step, lines)
  BY <1>3, <1>4 DEF Foldable
<1> PICK h \in [SUBSET (1..n) -> Seq(E)] : Chosen(h, << >>, step, lines)
  BY <1>6, FoldChoice, Zenon
<1> HIDE DEF n
<1>7. ASSUME NEW t \in SUBSET (1..n), t # {}
      PROVE  /\ Max(t) \in 1..n /\ lines[Max(t)] \in E
             /\ h[t] = Parse(h[t \ {Max(t)}], lines[Max(t)])
  <2>1. Max(t) \in 1..n /\ h[t] = step[<<h[t \ {Max(t)}], lines[Max(t)]>>]
    BY <1>7 DEF Chosen, n
  <2>2. h[t \ {Max(t)}] \in Seq(E)
    OBVIOUS
  <2>3. QED
    BY <1>1, <1>5, <2>1, <2>2
<1>8. Eq(h)
  <2>1. h[{}] = << >>
    BY DEF Chosen
  <2>2. QED
    BY <1>1, <1>7, <2>1
<1>9. Eq(it)
  <2> HIDE DEF Eq
  <2> QED
    BY <1>8
<1> HIDE DEF it
<1>10. it[{}] = << >>
  BY <1>1, <1>9
<1>11. ASSUME NEW t \in SUBSET (1..n), t # {}, it[t \ {Max(t)}] \in Seq(E)
       PROVE  it[t] = step[<<it[t \ {Max(t)}], lines[Max(t)]>>]
  <2>1. it[t] = Parse(it[t \ {Max(t)}], lines[Max(t)])
    BY <1>1, <1>9, <1>11
  <2>2. QED
    BY <1>5, <1>7, <1>11, <2>1
<1>12. ChosenIn(it, Seq(E), << >>, step, lines)
  BY <1>10, <1>11 DEF ChosenIn, n
<1>13. it[1..Len(lines)] = Folded(step, << >>, lines)
  <2> DEFINE none == << >>
             V == Seq(E)
  <2>1. Foldable(V, E, none, step, lines) /\ ChosenIn(it, V, none, step, lines)
    BY <1>6, <1>12
  <2> HIDE DEF none, V
  <2>2. it[1..Len(lines)] = Folded(step, none, lines)
    BY <2>1, FoldIsFolded
  <2>3. QED
    BY <2>2 DEF none
<1>14. QED
  BY <1>1, <1>2, <1>13 DEF step, n

\* The chunks of no lines, and of one line more.
LEMMA ChunksAppend ==
  ASSUME NEW E, NEW lines \in Seq(E)
  PROVE  /\ Chunks(lines) \in Seq(E)
         /\ Chunks(<< >>) = << >>
         /\ \A x \in E : Chunks(Append(lines, x)) = Parse(Chunks(lines), x)
<1>1. ParseStep(E) \in [Seq(E) \X E -> Seq(E)]
  BY ParseTyped
<1>2. << >> \in Seq(E)
  OBVIOUS
<1>3. /\ Folded(ParseStep(E), << >>, lines) \in Seq(E)
      /\ Folded(ParseStep(E), << >>, << >>) = << >>
      /\ \A x \in E : Folded(ParseStep(E), << >>, Append(lines, x))
                        = ParseStep(E)[<<Folded(ParseStep(E), << >>, lines), x>>]
  <2>1. Foldable(Seq(E), E, << >>, ParseStep(E), lines)
    BY <1>1, <1>2 DEF Foldable
  <2> DEFINE none == << >>
             V == Seq(E)
  <2> HIDE DEF none, V
  <2>2. Foldable(V, E, none, ParseStep(E), lines)
    BY <2>1 DEF none, V
  <2>3. /\ Folded(ParseStep(E), none, lines) \in V
        /\ Folded(ParseStep(E), none, << >>) = none
        /\ \A x \in E : Folded(ParseStep(E), none, Append(lines, x))
                          = ParseStep(E)[<<Folded(ParseStep(E), none, lines), x>>]
    BY <2>2, FoldedAppend
  <2>4. QED
    BY <2>3 DEF none, V
<1>4. Chunks(lines) = Folded(ParseStep(E), << >>, lines)
  BY ChunksFolded
<1>5. Chunks(<< >>) = << >>
  BY <1>2, <1>3, ChunksFolded
<1>6. ASSUME NEW x \in E PROVE Chunks(Append(lines, x)) = Parse(Chunks(lines), x)
  <2>1. Append(lines, x) \in Seq(E)
    BY AppendProperties
  <2>2. Chunks(Append(lines, x)) = ParseStep(E)[<<Chunks(lines), x>>]
    BY <1>3, <1>4, <2>1, ChunksFolded
  <2>3. QED
    BY <1>3, <1>4, <2>2 DEF ParseStep
<1>7. QED
  BY <1>3, <1>4, <1>5, <1>6

-----------------------------------------------------------------------------
(* The loop of reconstructOpenAIStream over the chunks *)

Collected(base, chunks) == FoldLeft(Collect, base, chunks)

CollectStep(P, C, S, F) ==
  [x \in Responses(P, C, S, F) \X Events(P, C, S, F) |-> Collect(x[1], x[2])]

\* A response stays one.
LEMMA CollectTyped ==
  ASSUME NEW P, NEW C, NEW S, NEW F,
         NEW r \in Responses(P, C, S, F), NEW chunk \in Events(P, C, S, F)
  PROVE  Collect(r, chunk) \in Responses(P, C, S, F)
<1> DEFINE role == LastNonEmpty(r.role, chunk.role)
           content == r.content \o chunk.content
           calls == r.calls \o chunk.calls
           finish == LastNonEmpty(r.finish, chunk.finish)
           usage == r.usage \/ chunk.usage
<1>1. /\ r.role \in S /\ chunk.role \in S
      /\ r.finish \in F /\ chunk.finish \in F
      /\ r.content \in Seq(P) /\ chunk.content \in Seq(P)
      /\ r.calls \in Seq(C) /\ chunk.calls \in Seq(C)
  BY DEF Responses, Events
<1>2. role \in S /\ finish \in F /\ usage \in BOOLEAN
  BY <1>1 DEF LastNonEmpty
<1>3. content \in Seq(P) /\ calls \in Seq(C)
  BY <1>1, ConcatProperties
<1>4. Collect(r, chunk) =
        IF chunk.choices # "delta" THEN r
        ELSE [r EXCEPT !.role = role, !.content = content, !.calls = calls,
                       !.finish = finish, !.usage = usage]
  BY DEF Collect
<1> HIDE DEF role, content, calls, finish, usage
<1>5. [r EXCEPT !.role = role, !.content = content, !.calls = calls,
                !.finish = finish, !.usage = usage] \in Responses(P, C, S, F)
  BY <1>2, <1>3 DEF Responses
<1>6. QED
  BY <1>4, <1>5

LEMMA CollectStepTyped ==
  ASSUME NEW P, NEW C, NEW S, NEW F
  PROVE  CollectStep(P, C, S, F)
           \in [Responses(P, C, S, F) \X Events(P, C, S, F) -> Responses(P, C, S, F)]
<1> DEFINE R == Responses(P, C, S, F)
           E == Events(P, C, S, F)
<1>1. \A r \in R, chunk \in E : Collect(r, chunk) \in R
  BY CollectTyped
<1>2. CollectStep(P, C, S, F) = [x \in R \X E |-> Collect(x[1], x[2])]
  BY DEF CollectStep
<1> HIDE DEF R, E
<1>3. [x \in R \X E |-> Collect(x[1], x[2])] \in [R \X E -> R]
  BY <1>1
<1>4. QED
  BY <1>2, <1>3 DEF R, E

\* The loop over the chunks is the fold of its body.
LEMMA CollectedFolded ==
  ASSUME NEW P, NEW C, NEW S, NEW F,
         NEW base \in Responses(P, C, S, F), NEW chunks \in Seq(Events(P, C, S, F))
  PROVE  Collected(base, chunks) = Folded(CollectStep(P, C, S, F), base, chunks)
<1> DEFINE n == Len(chunks)
           R == Responses(P, C, S, F)
           E == Events(P, C, S, F)
           step == CollectStep(P, C, S, F)
           Eq(g) == g = [t \in SUBSET DOMAIN chunks |->
                           IF t = {} THEN base ELSE Collect(g[t \ {Max(t)}], chunks[Max(t)])]
           it == CHOOSE g : Eq(g)
<1>1. Collected(base, chunks) = it[DOMAIN chunks]
  BY Zenon DEF Collected, FoldLeft, MapThenFoldSet
<1>2. step \in [R \X E -> R]
  BY CollectStepTyped
<1>3. \A v \in R, x \in E : step[<<v, x>>] = Collect(v, x)
  BY DEF CollectStep
<1>4. base \in R /\ chunks \in Seq(E)
  OBVIOUS
<1> HIDE DEF step, R, E
<1>5. n \in Nat /\ DOMAIN chunks = 1..n /\ \A i \in 1..n : chunks[i] \in E
  BY <1>4, LenProperties
<1>6. Foldable(R, E, base, step, chunks)
  BY <1>2, <1>4 DEF Foldable
<1> PICK h \in [SUBSET (1..n) -> R] : Chosen(h, base, step, chunks)
  BY <1>6, FoldChoice, Zenon
<1> HIDE DEF n
<1>7. ASSUME NEW t \in SUBSET (1..n), t # {}
      PROVE  /\ Max(t) \in 1..n /\ chunks[Max(t)] \in E
             /\ h[t] = Collect(h[t \ {Max(t)}], chunks[Max(t)])
  <2>1. Max(t) \in 1..n /\ h[t] = step[<<h[t \ {Max(t)}], chunks[Max(t)]>>]
    BY <1>7 DEF Chosen, n
  <2>2. h[t \ {Max(t)}] \in R
    OBVIOUS
  <2>3. QED
    BY <1>3, <1>5, <2>1, <2>2
<1>8. Eq(h)
  <2>1. h[{}] = base
    BY DEF Chosen
  <2>2. QED
    BY <1>5, <1>7, <2>1
<1>9. Eq(it)
  <2> HIDE DEF Eq
  <2> QED
    BY <1>8
<1> HIDE DEF it
<1>10. it[{}] = base
  BY <1>5, <1>9
<1>11. ASSUME NEW t \in SUBSET (1..n), t # {}, it[t \ {Max(t)}] \in R
       PROVE  it[t] = step[<<it[t \ {Max(t)}], chunks[Max(t)]>>]
  <2>1. it[t] = Collect(it[t \ {Max(t)}], chunks[Max(t)])
    BY <1>5, <1>9, <1>11
  <2>2. QED
    BY <1>3, <1>7, <1>11, <2>1
<1>12. ChosenIn(it, R, base, step, chunks)
  BY <1>10, <1>11 DEF ChosenIn, n
<1>13. it[1..Len(chunks)] = Folded(step, base, chunks)
  BY <1>6, <1>12, FoldIsFolded
<1>14. QED
  BY <1>1, <1>5, <1>13 DEF step, n

\* The response of no chunks, and of one chunk more.
LEMMA CollectedAppend ==
  ASSUME NEW P, NEW C, NEW S, NEW F,
         NEW base \in Responses(P, C, S, F), NEW chunks \in Seq(Events(P, C, S, F))
  PROVE  /\ Collected(base, chunks) \in Responses(P, C, S, F)
         /\ Collected(base, << >>) = base
         /\ \A x \in Events(P, C, S, F) :
              Collected(base, Append(chunks, x)) = Collect(Collected(base, chunks), x)
<1> DEFINE R == Responses(P, C, S, F)
           E == Events(P, C, S, F)
           step == CollectStep(P, C, S, F)
           none == << >>
<1>1. \A s \in Seq(E) : Collected(base, s) = Folded(step, base, s)
  BY CollectedFolded
<1>2. step \in [R \X E -> R]
  BY CollectStepTyped
<1>3. \A v \in R, x \in E : step[<<v, x>>] = Collect(v, x)
  BY DEF CollectStep
<1>4. base \in R /\ chunks \in Seq(E)
  OBVIOUS
<1> HIDE DEF step, R, E
<1>5. none \in Seq(E)
  OBVIOUS
<1>6. Foldable(R, E, base, step, chunks)
  BY <1>2, <1>4 DEF Foldable
<1>7. /\ Folded(step, base, chunks) \in R
      /\ Folded(step, base, none) = base
      /\ \A x \in E : Folded(step, base, Append(chunks, x))
                        = step[<<Folded(step, base, chunks), x>>]
  BY <1>6, FoldedAppend
<1> HIDE DEF none
<1>8. Collected(base, chunks) \in R /\ Collected(base, none) = base
  BY <1>1, <1>4, <1>5, <1>7
<1>9. ASSUME NEW x \in E
      PROVE  Collected(base, Append(chunks, x)) = Collect(Collected(base, chunks), x)
  <2>1. Append(chunks, x) \in Seq(E)
    BY <1>4, AppendProperties
  <2>2. QED
    BY <1>1, <1>3, <1>4, <1>7, <1>8, <2>1
<1>10. QED
  BY <1>8, <1>9 DEF R, E, none

-----------------------------------------------------------------------------
(* A capture that grows by a line *)

Blank == [NotJSON(<< >>) EXCEPT !.json = TRUE, !.choices = TRUE]

\* What is collected of the lines; without a chunk as if there were an empty one.
Gathered(lines) ==
  IF Chunks(lines) = << >> THEN Blank
  ELSE Collected(Template(Chunks(lines)), Chunks(lines))

Counts(line) == line.data /\ line.choices = "delta"

\* What of the response a step may tell apart: the template only has the rest.
SameBody(r, s) ==
  /\ r.json = s.json /\ r.choices = s.choices
  /\ r.content = s.content /\ r.calls = s.calls /\ r.finish = s.finish

LEMMA BlankTyped ==
  ASSUME NEW P, NEW C, NEW S, NEW F, "none" \in S, "none" \in F
  PROVE  Blank \in Responses(P, C, S, F)
<1> DEFINE E == Events(P, C, S, F)
           none == << >>
<1> HIDE DEF E
<1>1. none \in Seq(E) /\ none \in Seq(P) /\ none \in Seq(C)
  OBVIOUS
<1> HIDE DEF none
<1>2. Blank = [NotJSON(none) EXCEPT !.json = TRUE, !.choices = TRUE]
  BY DEF Blank, none
<1>3. NotJSON(none) =
        [json |-> FALSE, lines |-> none, choices |-> FALSE, id |-> "none", role |-> "none",
         content |-> none, calls |-> none, finish |-> "none", usage |-> FALSE]
  BY DEF NotJSON, none
<1>4. NotJSON(none) \in Responses(P, C, S, F)
  BY <1>1, <1>3 DEF Responses, E
<1>5. QED
  BY <1>2, <1>4 DEF Responses

\* A template is a blank response with an identifier.
LEMMA TemplateTyped ==
  ASSUME NEW P, NEW C, NEW S, NEW F, "none" \in S, "none" \in F,
         NEW chunks \in Seq(Events(P, C, S, F)), chunks # << >>
  PROVE  /\ Template(chunks) \in Responses(P, C, S, F)
         /\ SameBody(Template(chunks), Blank)
<1>1. chunks[1].id \in S
  <2> DEFINE E == Events(P, C, S, F)
  <2>1. \A e \in E : e.id \in S
    BY DEF Events
  <2>2. chunks \in Seq(E)
    OBVIOUS
  <2> HIDE DEF E
  <2>3. QED
    BY <2>1, <2>2
<1>2. Template(chunks) = [Blank EXCEPT !.id = chunks[1].id]
  BY DEF Template, Blank, NotJSON
<1>3. QED
  BY <1>1, <1>2, BlankTyped DEF Responses, SameBody

\* Collecting a chunk does not tell responses with the same body apart.
LEMMA CollectBody ==
  ASSUME NEW P, NEW C, NEW S, NEW F,
         NEW r \in Responses(P, C, S, F), NEW s \in Responses(P, C, S, F),
         SameBody(r, s), NEW chunk \in Events(P, C, S, F)
  PROVE  SameBody(Collect(r, chunk), Collect(s, chunk))
BY DEF SameBody, Collect, Responses, Events

\* A line that counts adds its text, its calls and its finish reason to the
\* body; any other line leaves the body as it is.
LEMMA GatheredAppend ==
  ASSUME NEW P, NEW C, NEW S, NEW F, "none" \in S, "none" \in F,
         NEW lines \in Seq(Events(P, C, S, F)), NEW x \in Events(P, C, S, F)
  PROVE  /\ Gathered(lines) \in Responses(P, C, S, F)
         /\ Gathered(<< >>) = Blank
         /\ SameBody(Gathered(Append(lines, x)),
                     IF Counts(x) THEN Collect(Gathered(lines), x) ELSE Gathered(lines))
<1> DEFINE R == Responses(P, C, S, F)
           E == Events(P, C, S, F)
           c == Chunks(lines)
           g == Gathered(lines)
<1>1. /\ c \in Seq(E) /\ Chunks(<< >>) = << >>
      /\ Chunks(Append(lines, x)) = Parse(c, x)
  BY ChunksAppend
<1>2. Blank \in R
  BY BlankTyped
<1>3. ASSUME NEW s \in Seq(E), s # << >>
      PROVE  /\ Template(s) \in R /\ SameBody(Template(s), Blank)
             /\ Collected(Template(s), s) \in R
             /\ Collected(Template(s), << >>) = Template(s)
             /\ \A t \in Seq(E) : Collected(Template(s), Append(t, x))
                                    = Collect(Collected(Template(s), t), x)
  BY <1>3, TemplateTyped, CollectedAppend
<1>4. g \in R
  BY <1>1, <1>2, <1>3 DEF Gathered
<1>5. Gathered(<< >>) = Blank
  BY <1>1 DEF Gathered
<1>6. Collect(g, x) \in R
  BY <1>4, CollectTyped
<1>7. CASE ~x.data
  <2>1. Gathered(Append(lines, x)) = g
    BY <1>1, <1>7 DEF Parse, Gathered
  <2>2. QED
    BY <1>4, <1>5, <1>7, <2>1 DEF Counts, SameBody
<1>8. CASE x.data
  <2>1. Chunks(Append(lines, x)) = Append(c, x) /\ Append(c, x) \in Seq(E) /\ Append(c, x) # << >>
    BY <1>1, <1>8, AppendProperties DEF Parse
  <2>2. Gathered(Append(lines, x)) = Collected(Template(Append(c, x)), Append(c, x))
    BY <2>1 DEF Gathered
  <2>3. SameBody(Gathered(Append(lines, x)), Collect(g, x))
    <3>1. CASE c = << >>
      <4>1. Gathered(Append(lines, x)) = Collect(Template(Append(c, x)), x)
        BY <1>1, <1>3, <2>1, <2>2, <3>1
      <4>2. g = Blank
        BY <3>1 DEF Gathered
      <4>3. QED
        <5> DEFINE T == Template(Append(c, x))
        <5>1. T \in R /\ Blank \in R /\ SameBody(T, Blank) /\ x \in E
          BY <1>2, <1>3, <2>1
        <5> HIDE DEF T
        <5>2. SameBody(Collect(T, x), Collect(Blank, x))
          BY <5>1, CollectBody
        <5>3. QED
          BY <4>1, <4>2, <5>2 DEF T
    <3>2. CASE c # << >>
      <4>1. Template(Append(c, x)) = Template(c)
        <5>1. Append(c, x)[1] = c[1]
          BY <1>1, <3>2, AppendProperties
        <5>2. QED
          BY <5>1 DEF Template
      <4>2. Gathered(Append(lines, x)) = Collect(g, x)
        BY <1>1, <1>3, <2>2, <3>2, <4>1 DEF Gathered
      <4>3. QED
        BY <4>2 DEF SameBody
    <3>3. QED
      BY <3>1, <3>2
  <2>4. ~Counts(x) => Collect(g, x) = g
    BY <1>8 DEF Counts, Collect
  <2>5. QED
    BY <1>4, <1>5, <2>3, <2>4
<1>9. QED
  BY <1>7, <1>8 DEF Events

\* What a line adds to the body.
TextOf(line) == IF Counts(line) THEN line.content ELSE << >>
CallsOf(line) == IF Counts(line) THEN line.calls ELSE << >>
ReasonOf(line) == IF Counts(line) THEN line.finish ELSE "none"

LEMMA GatheredLine ==
  ASSUME NEW P, NEW C, NEW S, NEW F, "none" \in S, "none" \in F,
         NEW s \in Seq(Events(P, C, S, F)), NEW x \in Events(P, C, S, F)
  PROVE  /\ Gathered(Append(s, x)).json = Gathered(s).json
         /\ Gathered(Append(s, x)).choices = Gathered(s).choices
         /\ Gathered(Append(s, x)).content = Gathered(s).content \o TextOf(x)
         /\ Gathered(Append(s, x)).calls = Gathered(s).calls \o CallsOf(x)
         /\ Gathered(Append(s, x)).finish = LastNonEmpty(Gathered(s).finish, ReasonOf(x))
         /\ TextOf(x) \in Seq(P) /\ CallsOf(x) \in Seq(C) /\ ReasonOf(x) \in F
<1> DEFINE g == Gathered(s)
           h == Gathered(Append(s, x))
<1>1. /\ SameBody(h, IF Counts(x) THEN Collect(g, x) ELSE g)
      /\ g \in Responses(P, C, S, F)
  BY GatheredAppend
<1>2. g.content \in Seq(P) /\ g.calls \in Seq(C)
  BY <1>1 DEF Responses
<1> HIDE DEF g, h
<1>3. /\ h.json = g.json /\ h.choices = g.choices
      /\ h.content = g.content \o TextOf(x) /\ h.calls = g.calls \o CallsOf(x)
      /\ h.finish = LastNonEmpty(g.finish, ReasonOf(x))
  <2>1. CASE Counts(x)
    <3>1. /\ Collect(g, x).json = g.json /\ Collect(g, x).choices = g.choices
          /\ Collect(g, x).content = g.content \o x.content
          /\ Collect(g, x).calls = g.calls \o x.calls
          /\ Collect(g, x).finish = LastNonEmpty(g.finish, x.finish)
      BY <1>1, <2>1 DEF Counts, Collect, Responses
    <3>2. QED
      BY <1>1, <2>1, <3>1 DEF SameBody, TextOf, CallsOf, ReasonOf
  <2>2. CASE ~Counts(x)
    <3>1. g.content \o << >> = g.content /\ g.calls \o << >> = g.calls
      BY <1>2, ConcatEmptySeq
    <3>2. LastNonEmpty(g.finish, "none") = g.finish
      BY DEF LastNonEmpty
    <3>3. QED
      BY <1>1, <2>2, <3>1, <3>2 DEF SameBody, TextOf, CallsOf, ReasonOf
  <2>3. QED
    BY <2>1, <2>2
<1>4. TextOf(x) \in Seq(P) /\ CallsOf(x) \in Seq(C) /\ ReasonOf(x) \in F
  <2>1. x.content \in Seq(P) /\ x.calls \in Seq(C) /\ x.finish \in F
    BY DEF Events
  <2>2. << >> \in Seq(P) /\ << >> \in Seq(C)
    OBVIOUS
  <2>3. QED
    BY <2>1, <2>2 DEF TextOf, CallsOf, ReasonOf
<1>5. QED
  BY <1>3, <1>4 DEF g, h

\* What a reader of the rebuilt response sees is what was gathered, without the
\* calls beside a text.
LEMMA ReconstructShows ==
  ASSUME NEW lines
  PROVE  /\ Chunks(lines) = << >> => Reconstruct(lines).json = FALSE
         /\ Chunks(lines) # << >> => Reconstruct(lines) = Message(Gathered(lines))
<1>1. NotJSON(lines).json = FALSE
  BY DEF NotJSON
<1>2. QED
  BY <1>1 DEF Reconstruct, Gathered, Collected
=============================================================================
