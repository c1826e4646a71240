-------------------------- MODULE MediaStoreProofs ---------------------------
(***************************************************************************)
(* Theorems about MediaStore, for any bodies, requests, runs and days.     *)
(* A body and its files together are still the body: what ExtractFromBody  *)
(* takes out can be put back, as long as no later run of the process       *)
(* stores files on the same day.  And no large image stays in an entry     *)
(* whose files could be saved, as long as no broken image begins like it.  *)
(***************************************************************************)
EXTENDS MediaStore, FoldTheorems

-----------------------------------------------------------------------------
(* Putting a sequence in the place of each element *)

Spread(g, s) == [k \in DOMAIN s |-> g[s[k]]]
Expand(g, s) == FlattenSeq(Spread(g, s))

\* A function that has a sequence for each element.
Expands(g, A, X) == g \in [A -> Seq(X)]

\* One by one.
LEMMA SpreadTyped ==
  ASSUME NEW A, NEW Y, NEW g \in [A -> Y], NEW t \in Seq(A)
  PROVE  Spread(g, t) \in Seq(Y) /\ Len(Spread(g, t)) = Len(t)
<1>1. Len(t) \in Nat /\ DOMAIN t = 1..Len(t) /\ \A k \in 1..Len(t) : t[k] \in A
  BY LenProperties
<1>2. Spread(g, t) \in [1..Len(t) -> Y]
  BY <1>1 DEF Spread
<1>3. QED
  BY <1>1, <1>2, IsASeq, LenProperties

\* Of nothing, and of an element more.
LEMMA ExpandAppend ==
  ASSUME NEW A, NEW X, NEW g \in [A -> Seq(X)], NEW s \in Seq(A)
  PROVE  /\ Expand(g, s) \in Seq(X)
         /\ Expand(g, << >>) = << >>
         /\ \A a \in A : Expand(g, Append(s, a)) = Expand(g, s) \o g[a]
<1> DEFINE SX == Seq(X)
<1>1. \A t \in Seq(A) : Spread(g, t) \in Seq(SX) /\ Len(Spread(g, t)) = Len(t)
  <2>1. g \in [A -> SX]
    OBVIOUS
  <2> HIDE DEF SX
  <2>2. QED
    BY <2>1, SpreadTyped
<1>2. Spread(g, << >>) = << >>
  <2>1. Len(<< >>) = 0 /\ << >> \in Seq(A)
    OBVIOUS
  <2> HIDE DEF SX
  <2>2. Spread(g, << >>) \in Seq(SX) /\ Len(Spread(g, << >>)) = 0
    BY <1>1, <2>1
  <2>3. QED
    BY <2>2, EmptySeq
<1>3. ASSUME NEW a \in A PROVE Spread(g, Append(s, a)) = Append(Spread(g, s), g[a])
  <2> DEFINE sa == Append(s, a)
             n == Len(s)
  <2>1. /\ sa \in Seq(A) /\ Len(sa) = n + 1 /\ sa[n + 1] = a /\ n \in Nat
        /\ \A i \in 1..n : sa[i] = s[i]
        /\ DOMAIN s = 1..n
    BY AppendProperties, LenProperties
  <2> HIDE DEF sa
  <2>2. DOMAIN sa = 1..(n + 1)
    BY <2>1, LenProperties
  <2>3. \A i \in 1..n : Spread(g, sa)[i] = g[s[i]] /\ Spread(g, s)[i] = g[s[i]]
    BY <2>1, <2>2 DEF Spread
  <2>4. Spread(g, sa)[n + 1] = g[a]
    BY <2>1, <2>2 DEF Spread
  <2>5. Spread(g, sa) \in Seq(SX) /\ Len(Spread(g, sa)) = n + 1
        /\ Spread(g, s) \in Seq(SX) /\ Len(Spread(g, s)) = n
    BY <1>1, <2>1
  <2>6. g[a] \in SX
    OBVIOUS
  <2> DEFINE big == Spread(g, sa)
             small == Spread(g, s)
             x == g[a]
  <2> HIDE DEF big, small, x, n, SX
  <2>7. /\ Append(small, x) \in Seq(SX) /\ Len(Append(small, x)) = n + 1
        /\ \A i \in 1..n : Append(small, x)[i] = small[i]
        /\ Append(small, x)[n + 1] = x
    BY <2>5, <2>6, AppendProperties DEF small, x
  <2>8. /\ big \in Seq(SX) /\ Len(big) = n + 1 /\ big[n + 1] = x /\ n \in Nat
        /\ \A i \in 1..n : big[i] = small[i]
    BY <2>1, <2>3, <2>4, <2>5 DEF big, small, x
  <2>9. \A i \in 1..(n + 1) : big[i] = Append(small, x)[i]
    BY <2>7, <2>8
  <2>10. big = Append(small, x)
    BY <2>7, <2>8, <2>9, SeqEqual
  <2>11. QED
    BY <2>10 DEF big, small, x, sa
<1> DEFINE ss == Spread(g, s)
<1>4. ss \in Seq(SX)
  BY <1>1
<1> HIDE DEF ss
<1>5. FlattenSeq(ss) \in Seq(X) /\ FlattenSeq(<< >>) = << >>
      /\ \A x \in Seq(X) : FlattenSeq(Append(ss, x)) = FlattenSeq(ss) \o x
  BY <1>4, FlattenAppend
<1>6. Expand(g, s) = FlattenSeq(ss)
  BY DEF Expand, ss
<1>7. Expand(g, << >>) = << >>
  BY <1>2, <1>5, Zenon DEF Expand
<1>8. ASSUME NEW a \in A PROVE Expand(g, Append(s, a)) = Expand(g, s) \o g[a]
  <2>1. Expand(g, Append(s, a)) = FlattenSeq(Append(ss, g[a]))
    BY <1>3, Zenon DEF Expand, ss
  <2>2. g[a] \in Seq(X)
    OBVIOUS
  <2>3. QED
    BY <1>5, <1>6, <2>1, <2>2
<1>9. QED
  BY <1>5, <1>6, <1>7, <1>8

\* Of an element more.
LEMMA ExpandMore ==
  ASSUME NEW A, NEW X, NEW g \in [A -> Seq(X)], NEW s \in Seq(A), NEW a \in A
  PROVE  Expand(g, Append(s, a)) = Expand(g, s) \o g[a]
<1>1. \A x \in A : Expand(g, Append(s, x)) = Expand(g, s) \o g[x]
  BY ExpandAppend
<1>2. QED
  BY <1>1

\* Of one part behind another.
LEMMA ExpandConcat ==
  ASSUME NEW A, NEW X, NEW g, Expands(g, A, X), NEW s \in Seq(A), NEW t \in Seq(A)
  PROVE  Expand(g, s \o t) = Expand(g, s) \o Expand(g, t)
<1>0. g \in [A -> Seq(X)]
  BY DEF Expands
<1> DEFINE n == Len(t)
           upTo(i) == SubSeq(t, 1, i)
           P(i) == Expand(g, s \o upTo(i)) = Expand(g, s) \o Expand(g, upTo(i))
           S == {i \in 0..n : P(i)}
<1>1. n \in Nat /\ upTo(n) = t
  BY LenProperties, SubSeqFull
<1>2. \A u \in Seq(A) : Expand(g, u) \in Seq(X)
  BY <1>0, ExpandAppend
<1>3. P(0)
  <2>1. upTo(0) = << >> /\ s \o << >> = s
    BY SubSeqEmpty, ConcatEmptySeq
  <2>2. Expand(g, << >>) = << >>
    BY <1>0, ExpandAppend
  <2>3. Expand(g, s) \o << >> = Expand(g, s)
    BY <1>2, ConcatEmptySeq
  <2>4. QED
    BY <2>1, <2>2, <2>3
<1>4. ASSUME NEW i \in 1..n, P(i - 1) PROVE P(i)
  <2> DEFINE p == upTo(i - 1)
             a == t[i]
  <2>1. p \in Seq(A) /\ a \in A /\ upTo(i) = Append(p, a)
    BY PrefixStep
  <2>2. Expand(g, s \o p) = Expand(g, s) \o Expand(g, p)
    BY <1>4
  <2> HIDE DEF p, a, n
  <2>3. s \o p \in Seq(A) /\ s \o <<a>> \in Seq(A) /\ <<a>> \in Seq(A)
    BY <2>1, ConcatProperties
  <2>4. s \o Append(p, a) = Append(s \o p, a)
    <3>1. Append(p, a) = p \o <<a>> /\ Append(s \o p, a) = (s \o p) \o <<a>>
      BY <2>1, <2>3, AppendIsConcat
    <3>2. (s \o p) \o <<a>> = s \o (p \o <<a>>)
      <4> DEFINE one == <<a>>
      <4>1. one \in Seq(A)
        BY <2>3
      <4> HIDE DEF one
      <4>2. (s \o p) \o one = s \o (p \o one)
        BY <2>1, <4>1, ConcatAssociative
      <4>3. QED
        BY <4>2 DEF one
    <3>3. QED
      BY <3>1, <3>2
  <2>5. /\ Expand(g, Append(s \o p, a)) = Expand(g, s \o p) \o g[a]
        /\ Expand(g, Append(p, a)) = Expand(g, p) \o g[a]
    <3>1. Expand(g, Append(p, a)) = Expand(g, p) \o g[a]
      BY <1>0, <2>1, ExpandMore
    <3> DEFINE sp == s \o p
    <3>2. sp \in Seq(A)
      BY <2>3
    <3> HIDE DEF sp
    <3>3. Expand(g, Append(sp, a)) = Expand(g, sp) \o g[a]
      BY <1>0, <2>1, <3>2, ExpandMore
    <3>4. QED
      BY <3>1, <3>3 DEF sp
  <2> DEFINE es == Expand(g, s)
             ep == Expand(g, p)
             x == g[a]
  <2>6. es \in Seq(X) /\ ep \in Seq(X) /\ x \in Seq(X)
    BY <1>0, <1>2, <2>1
  <2> HIDE DEF es, ep, x
  <2>7. (es \o ep) \o x = es \o (ep \o x)
    BY <2>6, ConcatAssociative
  <2>8. QED
    BY <2>1, <2>2, <2>4, <2>5, <2>7 DEF es, ep, x
<1>5. P(n)
  <2> HIDE DEF n, P
  <2>1. 0 \in S /\ \A i \in 1..n : i - 1 \in S => i \in S
    BY <1>1, <1>3, <1>4
  <2>2. \A i \in 0..n : i \in S
    <3> HIDE DEF S
    <3> QED
      BY <1>1, <2>1, ScanInduction, Zenon
  <2>3. QED
    BY <1>1, <2>2
<1>6. QED
  BY <1>1, <1>5

\* Where each element stands for itself nothing changes.
LEMMA ExpandSame ==
  ASSUME NEW A, NEW X, NEW g, Expands(g, A, X), NEW s \in Seq(A),
         \A k \in DOMAIN s : g[s[k]] = <<s[k]>>
  PROVE  Expand(g, s) = s
<1>0. g \in [A -> Seq(X)]
  BY DEF Expands
<1> DEFINE n == Len(s)
           P(i) == Expand(g, SubSeq(s, 1, i)) = SubSeq(s, 1, i)
           S == {i \in 0..n : P(i)}
<1>1. n \in Nat /\ SubSeq(s, 1, n) = s /\ DOMAIN s = 1..n
  BY LenProperties, SubSeqFull
<1>2. P(0)
  <2>1. SubSeq(s, 1, 0) = << >>
    BY SubSeqEmpty
  <2>2. Expand(g, << >>) = << >>
    BY <1>0, ExpandAppend
  <2>3. QED
    BY <2>1, <2>2
<1>3. ASSUME NEW i \in 1..n, P(i - 1) PROVE P(i)
  <2> DEFINE p == SubSeq(s, 1, i - 1)
             a == s[i]
  <2>1. p \in Seq(A) /\ a \in A /\ SubSeq(s, 1, i) = Append(p, a)
    BY PrefixStep
  <2>2. Expand(g, p) = p /\ g[a] = <<a>>
    BY <1>1, <1>3
  <2> HIDE DEF p, a, n
  <2>3. Expand(g, Append(p, a)) = p \o <<a>>
    <3>1. Expand(g, Append(p, a)) = Expand(g, p) \o g[a]
      BY <1>0, <2>1, ExpandMore
    <3>2. QED
      BY <2>2, <3>1, Zenon
  <2>4. Append(p, a) = p \o <<a>>
    BY <2>1, AppendIsConcat
  <2>5. QED
    BY <2>1, <2>3, <2>4
<1>4. P(n)
  <2> HIDE DEF n, P
  <2>1. 0 \in S /\ \A i \in 1..n : i - 1 \in S => i \in S
    BY <1>1, <1>2, <1>3
  <2>2. \A i \in 0..n : i \in S
    <3> HIDE DEF S
    <3> QED
      BY <1>1, <2>1, ScanInduction, Zenon
  <2>3. QED
    BY <1>1, <2>2
<1>5. QED
  BY <1>1, <1>4

-----------------------------------------------------------------------------
(* strings.Replace with a count of 1 *)

\* A part of a beginning is a part of the whole.
LEMMA PartOfBeginning ==
  ASSUME NEW A, NEW t \in Seq(A), NEW c \in 1..Len(t), NEW d \in 1..c, NEW e \in d..c
  PROVE  SubSeq(SubSeq(t, 1, c), d, e) = SubSeq(t, d, e)
<1>1. Len(t) \in Nat /\ 1 \in 1..Len(t) /\ c - 1 + 1 = c
      /\ d \in 1..(c - 1 + 1) /\ e \in 1..(c - 1 + 1)
  BY LenProperties
<1>2. SubSeq(SubSeq(t, 1, c), d, e) = SubSeq(t, 1 + d - 1, 1 + e - 1)
  BY <1>1, SubSeqOfSubSeq
<1>3. 1 + d - 1 = d /\ 1 + e - 1 = e
  BY <1>1
<1>4. QED
  BY <1>2, <1>3

\* A part of a sequence has a beginning and an end in it.
LEMMA PartHasEnds ==
  ASSUME NEW u, NEW m, m \in SubSeqs(u)
  PROVE  \E i \in 0..Len(u), j \in 0..Len(u) : m = SubSeq(u, i + 1, j)
  BY DEF SubSeqs

\* Where the first occurrence is found, there is one.
LEMMA FirstOccurrence ==
  ASSUME NEW A, NEW m \in Seq(A), NEW t \in Seq(A), m # << >>, m \in SubSeqs(t)
  PROVE  \E x \in 1..Len(t) :
           /\ IndexFirstSubSeq(m, t) = x
           /\ x + Len(m) - 1 <= Len(t)
           /\ m = SubSeq(t, x, x + Len(m) - 1)
           /\ \A y \in 1..Len(t) : /\ y + Len(m) - 1 <= Len(t)
                                  /\ m = SubSeq(t, y, y + Len(m) - 1) => x <= y
<1> DEFINE n == Len(t)
           In(i) == m \in SubSeqs(SubSeq(t, 1, i))
           Good(i) == In(i) /\ \A j \in 0..(i - 1) : ~In(j)
           last == CHOOSE i \in 0..n : Good(i)
           C == {i \in 0..n : In(i)}
<1>1. n \in Nat /\ Len(m) \in Nat /\ Len(m) # 0 /\ SubSeq(t, 1, n) = t
  BY LenProperties, EmptySeq, SubSeqFull
<1>2. IndexFirstSubSeq(m, t) = last - (Len(m) - 1)
  BY Zenon DEF IndexFirstSubSeq
<1>3. \E i \in 0..n : Good(i)
  <2>1. n \in C
    <3>1. In(n)
      BY <1>1, Zenon
    <3>2. n \in 0..n
      BY <1>1
    <3> HIDE DEF In, n
    <3>3. QED
      BY <3>1, <3>2
  <2>2. C \in SUBSET Nat /\ C # {}
    BY <1>1, <2>1
  <2>3. Min(C) \in C /\ \A y \in C : Min(C) <= y
    <3> HIDE DEF C
    <3> QED
      BY <2>2, LeastElement
  <2> DEFINE l == Min(C)
  <2> HIDE DEF l
  <2>4. l \in 0..n /\ In(l) /\ \A y \in C : l <= y
    BY <2>3 DEF l
  <2> HIDE DEF In
  <2>5. ASSUME NEW j \in 0..(l - 1) PROVE ~In(j)
    <3>1. j \in 0..n /\ ~(l <= j)
      BY <1>1, <2>4
    <3>2. QED
      BY <2>4, <3>1
  <2>6. QED
    BY <2>4, <2>5
<1>4. last \in 0..n /\ Good(last)
  <2> HIDE DEF Good
  <2> QED
    BY <1>3
<1> HIDE DEF last
<1> DEFINE u == SubSeq(t, 1, last)
<1>5. u \in Seq(A) /\ Len(u) = last /\ last \in Nat
  <2>1. \A i \in 1..last : t[i] \in A
    BY <1>1, <1>4, LenProperties
  <2>2. last \in Int
    BY <1>4
  <2>3. QED
    BY <1>1, <1>4, <2>1, <2>2, SubSeqProperties
<1>6. PICK a \in 0..last, b \in 0..last : m = SubSeq(u, a + 1, b)
  <2>1. m \in SubSeqs(u)
    BY <1>4
  <2> HIDE DEF u
  <2>3. \E i \in 0..Len(u), j \in 0..Len(u) : m = SubSeq(u, i + 1, j)
    BY <2>1, PartHasEnds
  <2>4. QED
    BY <1>5, <2>3
<1>7. a + 1 <= b /\ Len(m) = b - a /\ b \in 1..last /\ a \in Nat
  <2>1. a + 1 <= b
    <3>1. CASE b < a + 1
      <4>1. SubSeq(u, a + 1, b) = << >>
        BY <1>5, <3>1, SubSeqEmpty
      <4>2. QED
        BY <1>6, <4>1
    <3>2. QED
      BY <1>5, <3>1
  <2>2. \A i \in (a + 1)..b : u[i] \in A
    <3> HIDE DEF u
    <3> QED
      BY <1>5, <2>1, LenProperties
  <2>3. Len(SubSeq(u, a + 1, b)) = b - (a + 1) + 1
    <3> HIDE DEF u
    <3> QED
      BY <1>5, <2>1, <2>2, SubSeqProperties
  <2>4. QED
    BY <1>5, <1>6, <2>1, <2>3
<1>8. m = SubSeq(t, a + 1, b)
  <2>1. last \in 1..n /\ a + 1 \in 1..last /\ b \in (a + 1)..last
    BY <1>1, <1>4, <1>5, <1>7
  <2>2. SubSeq(SubSeq(t, 1, last), a + 1, b) = SubSeq(t, a + 1, b)
    BY <2>1, PartOfBeginning
  <2>3. QED
    BY <1>6, <2>2
<1>9. b = last
  <2> SUFFICES ASSUME b # last PROVE FALSE
    OBVIOUS
  <2>1. b \in 0..(last - 1) /\ b \in 1..n /\ a + 1 \in 1..b /\ b \in (a + 1)..b
    BY <1>1, <1>4, <1>5, <1>7
  <2> DEFINE v == SubSeq(t, 1, b)
  <2>2. SubSeq(v, a + 1, b) = m
    BY <1>8, <2>1, PartOfBeginning
  <2>3. Len(v) = b
    BY <1>1, <2>1, LenProperties
  <2> HIDE DEF v
  <2>4. a \in 0..Len(v) /\ b \in 0..Len(v)
    BY <1>5, <1>7, <2>1, <2>3
  <2>5. m \in SubSeqs(v)
    BY <2>2, <2>4 DEF SubSeqs
  <2>6. QED
    BY <1>4, <2>1, <2>5 DEF v
<1>10. /\ a + 1 \in 1..n /\ IndexFirstSubSeq(m, t) = a + 1
       /\ (a + 1) + Len(m) - 1 = b /\ b <= n
  BY <1>1, <1>2, <1>4, <1>5, <1>7, <1>9
<1>11. ASSUME NEW y \in 1..n, y + Len(m) - 1 <= n, m = SubSeq(t, y, y + Len(m) - 1)
       PROVE  a + 1 <= y
  <2> SUFFICES ASSUME y < a + 1 PROVE FALSE
    BY <1>7
  <2> DEFINE z == y + Len(m) - 1
             v == SubSeq(t, 1, z)
  <2>1. z \in 0..(last - 1) /\ z \in 1..n /\ y \in 1..z /\ z \in y..z
    BY <1>1, <1>4, <1>5, <1>7, <1>9, <1>11
  <2>2. Len(v) = z /\ SubSeq(v, y, z) = m
    <3>1. Len(v) = z
      BY <1>1, <2>1, LenProperties
    <3> HIDE DEF z
    <3>2. SubSeq(v, y, z) = SubSeq(t, y, z)
      BY <2>1, PartOfBeginning
    <3>3. QED
      BY <1>11, <3>1, <3>2 DEF z
  <2> HIDE DEF v, z
  <2>3. y - 1 \in 0..Len(v) /\ z \in 0..Len(v) /\ (y - 1) + 1 = y
    BY <1>1, <1>11, <2>1, <2>2
  <2>4. m \in SubSeqs(v)
    <3> DEFINE j == y - 1
    <3>1. j \in 0..Len(v) /\ z \in 0..Len(v) /\ m = SubSeq(v, j + 1, z)
      BY <2>2, <2>3
    <3> HIDE DEF j
    <3>2. QED
      BY <3>1 DEF SubSeqs
  <2>5. QED
    BY <1>4, <2>1, <2>4 DEF v
<1>12. QED
  BY <1>8, <1>10, <1>11

\* The result is the sequence itself, or has the new part in the place of one
\* occurrence of the old.
Replaced(A, m, t, r, result) ==
  \/ result = t
  \/ \E pre, post \in Seq(A) : t = (pre \o m) \o post /\ result = (pre \o r) \o post

\* That is what the code's replacement does.
LEMMA ReplacedOnce ==
  ASSUME NEW A, NEW m \in Seq(A), NEW t \in Seq(A), m # << >>, NEW r
  PROVE  Replaced(A, m, t, r, ReplaceFirstSubSeq(r, m, t))
<1> SUFFICES ASSUME m \in SubSeqs(t)
             PROVE  \E pre, post \in Seq(A) :
                      /\ t = (pre \o m) \o post
                      /\ ReplaceFirstSubSeq(r, m, t) = (pre \o r) \o post
  BY DEF ReplaceFirstSubSeq, Replaced
<1>1. PICK x \in 1..Len(t) :
        /\ IndexFirstSubSeq(m, t) = x
        /\ x + Len(m) - 1 <= Len(t)
        /\ m = SubSeq(t, x, x + Len(m) - 1)
  BY FirstOccurrence
<1> DEFINE n == Len(t)
           y == x + Len(m) - 1
           pre == SubSeq(t, 1, x - 1)
           post == SubSeq(t, x + Len(m), n)
<1>2. n \in Nat /\ Len(m) \in Nat /\ Len(m) # 0 /\ \A i \in 1..n : t[i] \in A
  BY LenProperties, EmptySeq
<1>3. y \in x..n /\ x + Len(m) = y + 1 /\ y \in Nat
  BY <1>1, <1>2
<1> HIDE DEF y, n
<1>4. pre \in Seq(A) /\ post \in Seq(A)
  <2>1. \A i \in 1..(x - 1) : t[i] \in A
    BY <1>2 DEF n
  <2>2. \A i \in (x + Len(m))..n : t[i] \in A
    BY <1>2, <1>3
  <2>3. x - 1 \in Int /\ x + Len(m) \in Int /\ n \in Int
    BY <1>2
  <2>4. QED
    BY <2>1, <2>2, <2>3, SubSeqProperties
<1>5. ReplaceFirstSubSeq(r, m, t) = (pre \o r) \o post
  BY <1>1 DEF ReplaceFirstSubSeq, ReplaceSubSeqAt, n
<1>6. t = (pre \o m) \o post
  <2>1. pre \o SubSeq(t, (x - 1) + 1, y) = SubSeq(t, 1, y)
    <3>1. 1 \in 1..(Len(t) + 1) /\ x - 1 \in (1 - 1)..Len(t) /\ y \in (x - 1)..Len(t)
      BY <1>2, <1>3 DEF n
    <3>2. QED
      BY <3>1, ConcatAdjacentSubSeq
  <2>2. SubSeq(t, 1, y) \o SubSeq(t, y + 1, n) = SubSeq(t, 1, n)
    <3>1. 1 \in 1..(Len(t) + 1) /\ y \in (1 - 1)..Len(t) /\ n \in y..Len(t)
      BY <1>2, <1>3 DEF n
    <3>2. QED
      BY <3>1, ConcatAdjacentSubSeq
  <2>3. SubSeq(t, 1, n) = t /\ (x - 1) + 1 = x
    BY <1>2, SubSeqFull DEF n
  <2>4. m = SubSeq(t, x, y)
    BY <1>1 DEF y
  <2>5. QED
    BY <1>3, <2>1, <2>2, <2>3, <2>4
<1>7. QED
  BY <1>4, <1>5, <1>6

-----------------------------------------------------------------------------
(* Bodies, references and files *)

PlainAtoms == UNION {ToSet(b) : b \in Bodies}
Values == {a.val : a \in PlainAtoms}
Atoms == PlainAtoms \cup {Image(v) : v \in Values} \cup {Placeholder(n) : n \in Nat}
FilePaths == [day : Nat, seq : Nat, body : {"request", "response"}, index : Nat, type : Values]
References == [path : FilePaths, hash : Seq(PlainAtoms), placeholder : Nat]
FileSets == UNION {[D -> Seq(Values)] : D \in SUBSET FilePaths}

\* What the atoms of a body can be.
LEMMA BodyAtoms ==
  ASSUME NEW b \in Bodies, NEW k \in DOMAIN b
  PROVE  /\ b[k].kind # "image"
         /\ b[k].kind = "head" => b[k] = Image(b[k].val)
         /\ InImage(b[k]) => b[k] \in {Data(b[k].val), Loose(b[k].val), Stray}
<1>1. b[k] \in {Image(b[k].val), Data(b[k].val), Loose(b[k].val), Stray, Text}
  BY BodiesAssumption
<1>2. \A v : Image(v).kind = "head" /\ Data(v).kind = "data" /\ Loose(v).kind = "data"
  BY DEF Image, Data, Loose, Atom
<1>3. Stray.kind = "stray" /\ Text.kind = "text"
  BY DEF Stray, Text, Atom
<1>4. QED
  BY <1>1, <1>2, <1>3 DEF InImage

\* Base64 as an encoder writes it.
Spelled(pieces) == \A k \in DOMAIN pieces : pieces[k] = Data(pieces[k].val)

\* Decoding gives bytes, and encoding gives back what an encoder wrote.
LEMMA DecodeEncode ==
  ASSUME NEW t \in Seq(PlainAtoms)
  PROVE  Decode(t) \in Seq(Values) /\ (Spelled(t) => Encode(Decode(t)) = t)
<1> DEFINE n == Len(t)
<1>1. n \in Nat /\ DOMAIN t = 1..n /\ \A k \in 1..n : t[k] \in PlainAtoms
  BY LenProperties
<1>2. Decode(t) = [k \in 1..n |-> t[k].val]
  BY <1>1 DEF Decode
<1>3. \A k \in 1..n : t[k].val \in Values
  BY <1>1 DEF Values
<1>4. Decode(t) \in [1..n -> Values]
  BY <1>2, <1>3
<1>5. Decode(t) \in Seq(Values)
  BY <1>1, <1>4, IsASeq
<1>6. ASSUME Spelled(t) PROVE Encode(Decode(t)) = t
  <2>1. DOMAIN Decode(t) = 1..n /\ \A k \in 1..n : Decode(t)[k] = t[k].val
    BY <1>2
  <2>2. Encode(Decode(t)) = [k \in 1..n |-> Data(t[k].val)]
    BY <2>1 DEF Encode
  <2>3. \A k \in 1..n : Data(t[k].val) = t[k]
    BY <1>1, <1>6 DEF Spelled
  <2>4. t = [k \in 1..n |-> t[k]]
    BY <1>1
  <2>5. QED
    BY <2>2, <2>3, <2>4
<1>7. QED
  BY <1>5, <1>6

\* Only placeholders are of their kind.
LEMMA AtomKinds ==
  /\ \A a \in PlainAtoms : a.kind # "image"
  /\ \A a \in Atoms : a.kind = "image" => a.n \in Nat /\ a = Placeholder(a.n)
  /\ \A n \in Nat : /\ Placeholder(n) \in Atoms
                    /\ Placeholder(n).kind = "image" /\ Placeholder(n).n = n
  /\ \A v : Image(v).kind # "image"
<1>1. \A a \in PlainAtoms : a.kind # "image"
  <2> SUFFICES ASSUME NEW a \in PlainAtoms PROVE a.kind # "image"
    OBVIOUS
  <2>1. PICK b \in Bodies : a \in ToSet(b)
    BY DEF PlainAtoms
  <2>2. PICK k \in DOMAIN b : a = b[k]
    BY <2>1 DEF ToSet
  <2>3. QED
    BY <2>2, BodyAtoms
<1>2. \A v : Image(v).kind # "image"
  BY DEF Image, Atom
<1>3. \A n \in Nat : Placeholder(n).kind = "image" /\ Placeholder(n).n = n
  BY DEF Placeholder, Atom
<1>4. \A a \in Atoms : a.kind = "image" => a.n \in Nat /\ a = Placeholder(a.n)
  BY <1>1, <1>2, <1>3 DEF Atoms
<1>5. \A n \in Nat : Placeholder(n) \in Atoms
  BY DEF Atoms
<1>6. QED
  BY <1>1, <1>2, <1>3, <1>4, <1>5

\* The atoms a list of references can show, and what it shows for them.
Known(references) == {a \in Atoms : a.kind = "image" => a.n < Len(references)}
Shown(references, a) ==
  IF a.kind # "image" THEN <<a>>
  ELSE <<Image(references[a.n + 1].path.type)>> \o references[a.n + 1].hash
Showing(references) == [a \in Known(references) |-> Shown(references, a)]

\* It shows sequences of atoms.
LEMMA ShowingTyped ==
  ASSUME NEW references \in Seq(References)
  PROVE  Showing(references) \in [Known(references) -> Seq(Atoms)]
<1> SUFFICES ASSUME NEW a \in Known(references)
             PROVE  Shown(references, a) \in Seq(Atoms)
  BY DEF Showing
<1>1. a \in Atoms /\ (a.kind = "image" => a.n < Len(references))
  BY DEF Known
<1>2. CASE a.kind # "image"
  <2>1. Shown(references, a) = <<a>>
    BY <1>2 DEF Shown
  <2>2. QED
    BY <1>1, <2>1
<1>3. CASE a.kind = "image"
  <2> DEFINE ref == references[a.n + 1]
             head == <<Image(ref.path.type)>>
  <2>1. a.n + 1 \in 1..Len(references)
    BY <1>1, <1>3, AtomKinds, LenProperties
  <2>2. ref \in References
    BY <2>1, LenProperties
  <2>3. ref.path.type \in Values /\ ref.hash \in Seq(PlainAtoms)
    BY <2>2 DEF References, FilePaths
  <2>4. ref.hash \in Seq(Atoms)
    <3>1. PlainAtoms \subseteq Atoms
      BY DEF Atoms
    <3> HIDE DEF ref
    <3>2. QED
      BY <2>3, <3>1, SeqMonotonic
  <2>5. head \in Seq(Atoms)
    <3>1. Image(ref.path.type) \in Atoms
      BY <2>3 DEF Atoms
    <3>2. QED
      BY <3>1
  <2>6. Shown(references, a) = head \o ref.hash
    BY <1>3 DEF Shown
  <2> HIDE DEF head, ref
  <2>7. QED
    BY <2>4, <2>5, <2>6, ConcatProperties
<1>4. QED
  BY <1>2, <1>3

GoodMatch(match) ==
  /\ match \in Seq(PlainAtoms) /\ match # << >>
  /\ match[1].val \in Values /\ match[1] = Image(match[1].val)

\* A match is its head and its pieces.
LEMMA MatchParts ==
  ASSUME NEW match, GoodMatch(match)
  PROVE  /\ Tail(match) \in Seq(PlainAtoms)
         /\ match = <<Image(match[1].val)>> \o Tail(match)
<1>1. match \in Seq(PlainAtoms) /\ match # << >> /\ match[1] = Image(match[1].val)
  BY DEF GoodMatch
<1>2. Len(match) \in Nat /\ Len(match) # 0
  BY <1>1, LenProperties, EmptySeq
<1>3. Tail(match) \in Seq(PlainAtoms) /\ Tail(match) = SubSeq(match, 2, Len(match))
  BY <1>1, TailIsSubSeq, HeadTailProperties
<1>4. SubSeq(match, 1, Len(match)) = <<match[1]>> \o SubSeq(match, 1 + 1, Len(match))
  BY <1>1, <1>2, SubSeqRecursiveFirst
<1>5. SubSeq(match, 1, Len(match)) = match
  BY <1>1, SubSeqFull
<1>6. QED
  BY <1>1, <1>3, <1>4, <1>5

\* A reference more shows what those before it showed, and its own match.
LEMMA ShowingMore ==
  ASSUME NEW references \in Seq(References), NEW ref \in References
  PROVE  LET more == Append(references, ref)
             p == Placeholder(Len(references)) IN
         /\ more \in Seq(References) /\ Len(more) = Len(references) + 1
         /\ Known(references) \subseteq Known(more) /\ p \in Known(more)
         /\ \A a \in Known(references) : Showing(more)[a] = Showing(references)[a]
         /\ Showing(more)[p] = <<Image(ref.path.type)>> \o ref.hash
<1> DEFINE more == Append(references, ref)
           n == Len(references)
           p == Placeholder(n)
<1>1. /\ n \in Nat /\ more \in Seq(References) /\ Len(more) = n + 1
      /\ \A i \in 1..n : more[i] = references[i]
      /\ more[n + 1] = ref
  BY AppendProperties, LenProperties
<1> HIDE DEF more, n
<1>2. p \in Atoms /\ p.kind = "image" /\ p.n = n
  BY <1>1, AtomKinds
<1>3. Known(references) \subseteq Known(more) /\ p \in Known(more)
  <2>1. p \in Known(more)
    BY <1>1, <1>2 DEF Known
  <2>2. ASSUME NEW a \in Known(references) PROVE a \in Known(more)
    <3>1. a \in Atoms /\ (a.kind = "image" => a.n < n /\ a.n \in Nat)
      BY AtomKinds DEF Known, n
    <3>2. QED
      BY <1>1, <3>1 DEF Known
  <2>3. QED
    BY <2>1, <2>2
<1>4. Showing(more)[p] = <<Image(ref.path.type)>> \o ref.hash
  <2>1. Showing(more)[p] = Shown(more, p)
    BY <1>3 DEF Showing
  <2>2. Shown(more, p) = <<Image(more[n + 1].path.type)>> \o more[n + 1].hash
    BY <1>2 DEF Shown
  <2>3. QED
    BY <1>1, <2>1, <2>2
<1>5. ASSUME NEW a \in Known(references) PROVE Showing(more)[a] = Showing(references)[a]
  <2>1. Showing(more)[a] = Shown(more, a) /\ Showing(references)[a] = Shown(references, a)
    BY <1>3 DEF Showing
  <2>2. CASE a.kind # "image"
    BY <2>1, <2>2 DEF Shown
  <2>3. CASE a.kind = "image"
    <3>1. a.n + 1 \in 1..n
      BY <1>1, <2>3, AtomKinds DEF Known, n
    <3>2. more[a.n + 1] = references[a.n + 1]
      BY <1>1, <3>1
    <3>3. QED
      BY <2>1, <2>3, <3>2 DEF Shown
  <2>4. QED
    BY <2>2, <2>3
<1>6. QED
  BY <1>1, <1>3, <1>4, <1>5 DEF more, n

\* Where two functions agree on what a sequence has, it expands alike.
LEMMA ExpandAlike ==
  ASSUME NEW A, NEW g, NEW h, NEW s \in Seq(A), \A a \in A : g[a] = h[a]
  PROVE  Expand(g, s) = Expand(h, s)
<1>1. \A k \in DOMAIN s : s[k] \in A
  BY LenProperties
<1>2. Spread(g, s) = Spread(h, s)
  BY <1>1 DEF Spread
<1>3. QED
  BY <1>2, Zenon DEF Expand

\* What there is with one element in the place of the first m in t.
OneFor(p, m, t) == ReplaceFirstSubSeq(<<p>>, m, t)

\* p stands for m, which stands for itself.
StandsFor(g, K, X, p, m) ==
  /\ Expands(g, K, X) /\ m \in Seq(K) /\ m # << >> /\ Expand(g, m) = m
  /\ p \in K /\ g[p] = m

\* A placeholder that stands for the match takes its place in a sequence that
\* expands to what it expanded to.
LEMMA ReplacedExpands ==
  ASSUME NEW K, NEW X, NEW g, NEW p, NEW m, StandsFor(g, K, X, p, m),
         NEW t, t \in Seq(K)
  PROVE  OneFor(p, m, t) \in Seq(K) /\ Expand(g, OneFor(p, m, t)) = Expand(g, t)
<1>0. /\ g \in [K -> Seq(X)] /\ m \in Seq(K) /\ m # << >>
      /\ Expand(g, m) = m /\ p \in K /\ g[p] = m /\ Expands(g, K, X)
  BY DEF StandsFor, Expands
<1> DEFINE one == <<p>>
           r == ReplaceFirstSubSeq(one, m, t)
<1>1. one \in Seq(K)
  BY <1>0
<1>2. Expand(g, one) = m
  <2> DEFINE none == << >>
  <2>1. none \in Seq(K) /\ one = Append(none, p)
    BY <1>0
  <2>2. Expand(g, none) = none
    BY <1>0, <2>1, ExpandAppend
  <2>3. Expand(g, Append(none, p)) = Expand(g, none) \o g[p]
    <3> HIDE DEF none
    <3> QED
      BY <1>0, <2>1, ExpandMore
  <2>4. m \in Seq(X)
    BY <1>0, ExpandAppend
  <2>5. none \o m = m
    BY <2>4, ConcatEmptySeq
  <2>6. QED
    BY <1>0, <2>1, <2>2, <2>3, <2>5
<1> HIDE DEF one, r
<1>a. ASSUME NEW u \in Seq(K), NEW v \in Seq(K)
      PROVE  Expand(g, u \o v) = Expand(g, u) \o Expand(g, v)
  BY <1>0, ExpandConcat
<1>3. CASE r = t
  BY <1>3 DEF r, one, OneFor
<1>4. ASSUME NEW pre \in Seq(K), NEW post \in Seq(K),
             t = (pre \o m) \o post, r = (pre \o one) \o post
      PROVE  r \in Seq(K) /\ Expand(g, r) = Expand(g, t)
  <2> DEFINE pm == pre \o m
             po == pre \o one
  <2>1. pm \in Seq(K) /\ po \in Seq(K)
    BY <1>0, <1>1, ConcatProperties
  <2> HIDE DEF pm, po
  <2>2. t = pm \o post /\ r = po \o post
    BY <1>4 DEF pm, po
  <2>3. r \in Seq(K)
    BY <2>1, <2>2, ConcatProperties
  <2>4. Expand(g, pm) = Expand(g, pre) \o Expand(g, m)
    BY <1>0, <1>a DEF pm
  <2>5. Expand(g, po) = Expand(g, pre) \o Expand(g, one)
    BY <1>1, <1>a DEF po
  <2>6. Expand(g, pm \o post) = Expand(g, pm) \o Expand(g, post)
    BY <1>a, <2>1
  <2>7. Expand(g, po \o post) = Expand(g, po) \o Expand(g, post)
    BY <1>a, <2>1
  <2>8. QED
    BY <1>0, <1>2, <2>2, <2>3, <2>4, <2>5, <2>6, <2>7
<1>5. r = t \/ \E pre, post \in Seq(K) : t = (pre \o m) \o post /\ r = (pre \o one) \o post
  <2>1. Replaced(K, m, t, one, r)
    BY <1>0, <1>1, ReplacedOnce DEF r
  <2>2. QED
    BY <2>1, Zenon DEF Replaced
<1>6. QED
  BY <1>3, <1>4, <1>5 DEF r, one, OneFor

\* One turn of the loop: the changed body shows, with the new reference, what
\* the body showed without it.
LEMMA TurnShows ==
  ASSUME NEW references \in Seq(References), NEW ref \in References,
         NEW match, GoodMatch(match), match = <<Image(ref.path.type)>> \o ref.hash,
         NEW body \in Seq(Known(references))
  PROVE  LET more == Append(references, ref)
             after == OneFor(Placeholder(Len(references)), match, body) IN
         /\ after \in Seq(Known(more))
         /\ Expand(Showing(more), after) = Expand(Showing(references), body)
<1> DEFINE more == Append(references, ref)
           p == Placeholder(Len(references))
           K == Known(more)
           g == Showing(more)
<1>1. /\ more \in Seq(References) /\ Known(references) \subseteq K /\ p \in K
      /\ \A a \in Known(references) : g[a] = Showing(references)[a]
      /\ g[p] = <<Image(ref.path.type)>> \o ref.hash
  BY ShowingMore
<1> HIDE DEF more, p
<1>2. g \in [K -> Seq(Atoms)]
  BY <1>1, ShowingTyped
<1>3. PlainAtoms \subseteq K /\ \A a \in PlainAtoms : g[a] = <<a>>
  BY AtomKinds DEF Known, Atoms, Showing, Shown
<1>4. match \in Seq(PlainAtoms) /\ match # << >>
  BY DEF GoodMatch
<1> HIDE DEF K, g
<1>5. match \in Seq(K) /\ body \in Seq(K)
  BY <1>1, <1>3, <1>4, SeqMonotonic
<1>6. Expand(g, match) = match
  <2>1. \A k \in DOMAIN match : g[match[k]] = <<match[k]>>
    BY <1>3, <1>4, LenProperties
  <2>2. Expands(g, K, Atoms)
    BY <1>2 DEF Expands
  <2>3. QED
    BY <1>5, <2>1, <2>2, ExpandSame
<1>7. g[p] = match
  BY <1>1
<1>8. /\ OneFor(p, match, body) \in Seq(K)
      /\ Expand(g, OneFor(p, match, body)) = Expand(g, body)
  <2>1. Expands(g, K, Atoms)
    BY <1>2 DEF Expands
  <2>2. match # << >> /\ p \in K
    BY <1>1, <1>4
  <2>3. StandsFor(g, K, Atoms, p, match)
    BY <1>5, <1>6, <1>7, <2>1, <2>2 DEF StandsFor
  <2>4. body \in Seq(K)
    BY <1>5
  <2>5. QED
    BY <2>3, <2>4, ReplacedExpands
<1>9. Expand(g, body) = Expand(Showing(references), body)
  BY <1>1, ExpandAlike
<1>10. QED
  BY <1>8, <1>9 DEF K, g, more, p

-----------------------------------------------------------------------------
(* FindAllStringSubmatch *)

\* The bodies are sequences of their atoms.
LEMMA BodyTyped ==
  ASSUME NEW b \in Bodies
  PROVE  b \in Seq(PlainAtoms)
<1>1. b \in Seq(ToSet(b))
  BY BodiesAssumption
<1>2. ToSet(b) \subseteq PlainAtoms
  BY DEF PlainAtoms
<1> DEFINE T == ToSet(b)
<1> HIDE DEF T
<1>3. b \in Seq(T) /\ T \subseteq PlainAtoms
  BY <1>1, <1>2 DEF T
<1>4. QED
  BY <1>3, SeqMonotonic

\* An image ends before the first atom that is no piece of one.
LEMMA EndFound ==
  ASSUME NEW A, NEW body \in Seq(A), NEW i \in 1..Len(body)
  PROVE  /\ EndOfImage(body, i) \in i..Len(body)
         /\ \A j \in (i + 1)..EndOfImage(body, i) : InImage(body[j])
         /\ EndOfImage(body, i) < Len(body) => ~InImage(body[EndOfImage(body, i) + 1])
<1> DEFINE n == Len(body)
           B == A \cup {Text}
           t == Append(body, Text)
           I == {j \in (i + 1)..(n + 1) : ~InImage(t[j])}
           k == Min(I)
<1>1. n \in Nat /\ i \in 1..n
  BY LenProperties
<1>2. t[n + 1] = Text /\ \A j \in 1..n : t[j] = body[j]
  <2>1. body \in Seq(B) /\ Text \in B
    BY SeqMonotonic
  <2> HIDE DEF B
  <2>2. QED
    BY <2>1, AppendProperties
<1>3. EndOfImage(body, i) = (IF I # {} THEN k ELSE 0) - 1
  BY Zenon DEF EndOfImage, SelectInSubSeq
<1>4. ~InImage(Text)
  BY DEF InImage, Text, Atom
<1> HIDE DEF t, n
<1>5. n + 1 \in I /\ I \in SUBSET Nat
  BY <1>1, <1>2, <1>4
<1>6. k \in I /\ \A y \in I : k <= y
  <2> HIDE DEF I
  <2> QED
    BY <1>5, LeastElement
<1> HIDE DEF k
<1>7. EndOfImage(body, i) = k - 1
  BY <1>3, <1>5 DEF k
<1>8. k \in (i + 1)..(n + 1) /\ ~InImage(t[k]) /\ \A y \in I : k <= y
  BY <1>6
<1>9. ASSUME NEW j \in (i + 1)..(k - 1) PROVE InImage(body[j])
  <2>1. j \in (i + 1)..(n + 1) /\ j \in 1..n /\ ~(k <= j)
    BY <1>1, <1>8
  <2>2. InImage(t[j])
    BY <1>8, <2>1
  <2>3. QED
    BY <1>2, <2>1, <2>2
<1>10. k - 1 < n => ~InImage(body[k])
  BY <1>1, <1>2, <1>8
<1>11. k - 1 \in i..n /\ (k - 1) + 1 = k
  BY <1>1, <1>8
<1>12. QED
  BY <1>7, <1>9, <1>10, <1>11 DEF n

\* A match is the head of an image and its pieces.
LEMMA MatchGood ==
  ASSUME NEW b \in Bodies, NEW i \in Matches(b)
  PROVE  /\ GoodMatch(Match(b, i)) /\ i \in 1..Len(b)
         /\ EndOfImage(b, i) \in (i + 1)..Len(b)
         /\ Len(Match(b, i)) = EndOfImage(b, i) - i + 1
<1> DEFINE e == EndOfImage(b, i)
           m == Match(b, i)
<1>1. b \in Seq(PlainAtoms) /\ i \in 1..Len(b) /\ b[i].kind = "head" /\ e > i
  BY BodyTyped DEF Matches
<1>2. e \in i..Len(b) /\ Len(b) \in Nat
  BY <1>1, EndFound
<1> HIDE DEF e
<1>3. m = SubSeq(b, i, e)
  BY DEF Match, e
<1>4. \A j \in i..e : b[j] \in PlainAtoms
  BY <1>1, <1>2, LenProperties
<1>5. m \in Seq(PlainAtoms) /\ Len(m) = e - i + 1 /\ m[1] = b[i]
  <2>1. i \in Int /\ e \in Int /\ i <= e
    BY <1>1, <1>2
  <2>2. /\ m \in Seq(PlainAtoms) /\ Len(m) = e - i + 1
        /\ \A j \in 1..(e - i + 1) : m[j] = b[i + j - 1]
    BY <1>3, <1>4, <2>1, SubSeqProperties
  <2>3. 1 \in 1..(e - i + 1) /\ i + 1 - 1 = i
    BY <2>1
  <2>4. QED
    BY <2>2, <2>3
<1>6. b[i].val \in Values /\ b[i] = Image(b[i].val)
  <2>1. b[i] \in PlainAtoms
    BY <1>1, LenProperties
  <2>2. b[i] = Image(b[i].val)
    BY <1>1, BodyAtoms
  <2>3. QED
    BY <2>1, <2>2 DEF Values
<1>7. m # << >>
  BY <1>1, <1>2, <1>5
<1>8. GoodMatch(m)
  BY <1>5, <1>6, <1>7 DEF GoodMatch
<1>9. QED
  BY <1>1, <1>2, <1>5, <1>8 DEF e

\* The pieces of a large match of such a body are as an encoder writes them.
LEMMA MatchSpelled ==
  ASSUME NEW b \in Bodies, NEW i \in Matches(b), Canonical(b), IsLarge(Match(b, i))
  PROVE  Spelled(Tail(Match(b, i)))
<1> DEFINE e == EndOfImage(b, i)
           m == Match(b, i)
           n == Len(m)
<1>1. /\ m \in Seq(PlainAtoms) /\ m # << >> /\ i \in 1..Len(b) /\ e \in (i + 1)..Len(b)
      /\ n = e - i + 1 /\ b \in Seq(PlainAtoms) /\ Len(b) \in Nat /\ DOMAIN b = 1..Len(b)
  BY BodyTyped, MatchGood, LenProperties DEF GoodMatch
<1>2. \A j \in (i + 1)..e : InImage(b[j])
  BY <1>1, EndFound
<1> HIDE DEF e
<1>3. \A j \in 1..n : m[j] = b[i + j - 1]
  <2>1. \A j \in i..e : b[j] \in PlainAtoms
    BY <1>1, LenProperties
  <2>2. i \in Int /\ e \in Int /\ i <= e
    BY <1>1
  <2>3. \A j \in 1..(e - i + 1) : SubSeq(b, i, e)[j] = b[i + j - 1]
    BY <2>1, <2>2, SubSeqProperties
  <2>4. QED
    BY <1>1, <2>3 DEF Match, e
<1>4. Stray \notin ToSet(m) /\ DOMAIN m = 1..n
  BY <1>1, LenProperties DEF IsLarge
<1> HIDE DEF m, n
<1>5. ASSUME NEW k \in 1..(n - 1) PROVE m[k + 1] = Data(m[k + 1].val)
  <2> DEFINE a == b[i + k]
  <2>1. k + 1 \in 1..n /\ i + (k + 1) - 1 = i + k /\ i + k \in (i + 1)..e
        /\ i + k \in DOMAIN b
    BY <1>1
  <2>2. m[k + 1] = a /\ InImage(a)
    BY <1>2, <1>3, <2>1
  <2>3. a \in {Data(a.val), Loose(a.val), Stray}
    BY <2>1, <2>2, BodyAtoms
  <2>4. a # Loose(a.val)
    BY <2>1 DEF Canonical
  <2>5. a # Stray
    BY <1>4, <2>1, <2>2 DEF ToSet
  <2> HIDE DEF a
  <2>6. QED
    BY <2>2, <2>3, <2>4, <2>5
<1>6. /\ Tail(m) \in Seq(PlainAtoms) /\ Len(Tail(m)) = n - 1
      /\ \A k \in 1..(n - 1) : Tail(m)[k] = m[k + 1]
  BY <1>1, HeadTailProperties DEF n
<1>7. DOMAIN Tail(m) = 1..(n - 1)
  BY <1>6, LenProperties
<1>8. Spelled(Tail(m))
  BY <1>5, <1>6, <1>7 DEF Spelled
<1>9. QED
  BY <1>8 DEF m

-----------------------------------------------------------------------------
(* One turn of the loop of ExtractFromBody *)

\* A reference has the index of its placeholder, and is of its entry's body.
RefAt(ref, n, days, seq, bodyType) ==
  /\ ref.placeholder = n /\ ref.path.index = n
  /\ ref.path.day \in days /\ ref.path.seq = seq /\ ref.path.body = bodyType
RefsAt(references, days, seq, bodyType) ==
  \A k \in 1..Len(references) : RefAt(references[k], k - 1, days, seq, bodyType)

\* The body shows the original, and if an encoder wrote that, the hashes are of
\* what an encoder wrote.
Shows(body, references, original) ==
  /\ references \in Seq(References) /\ body \in Seq(Known(references))
  /\ Expand(Showing(references), body) = original
  /\ Canonical(original) => \A k \in 1..Len(references) : Spelled(references[k].hash)

\* The files have what the references say.
Held(ref, fs) == ref.path \in DOMAIN fs /\ fs[ref.path] = Decode(ref.hash)
HeldIn(references, fs) == \A k \in 1..Len(references) : Held(references[k], fs)

\* What was stored since is of one number and body, and of these days.
OfBody(p, days, seq, bodyType) == p.day \in days /\ p.seq = seq /\ p.body = bodyType
Since(fs, before, days, seq, bodyType) ==
  \A p \in DOMAIN before :
    p \in DOMAIN fs /\ (fs[p] = before[p] \/ OfBody(p, days, seq, bodyType))

Accs == [body : Seq(Atoms), references : Seq(References), index : Nat, files : FileSets]
Sound(acc, original, days, seq, bodyType, before) ==
  /\ acc \in Accs /\ acc.index = Len(acc.references)
  /\ Shows(acc.body, acc.references, original)
  /\ RefsAt(acc.references, days, seq, bodyType)
  /\ HeldIn(acc.references, acc.files)
  /\ Since(acc.files, before, days, seq, bodyType)

\* A file more, or another in its place.
LEMMA StoreOne ==
  ASSUME NEW fs \in FileSets, NEW p \in FilePaths, NEW c \in Seq(Values)
  PROVE  /\ Store(fs, p, c) \in FileSets /\ DOMAIN Store(fs, p, c) = DOMAIN fs \cup {p}
         /\ Store(fs, p, c)[p] = c
         /\ \A q \in DOMAIN fs : q # p => Store(fs, p, c)[q] = fs[q]
<1> DEFINE S == Seq(Values)
<1>1. DOMAIN fs \in SUBSET FilePaths /\ \A q \in DOMAIN fs : fs[q] \in S
  BY DEF FileSets
<1> HIDE DEF S
<1>2. c \in S
  BY DEF S
<1>3. Store(fs, p, c) \in [DOMAIN fs \cup {p} -> S]
  BY <1>1, <1>2 DEF Store
<1>4. DOMAIN fs \cup {p} \in SUBSET FilePaths
  BY <1>1
<1>5. Store(fs, p, c) \in FileSets
  BY <1>3, <1>4 DEF FileSets, S
<1>6. QED
  BY <1>5 DEF Store

\* Storing a file of a new index leaves what is held.
LEMMA StoreHeld ==
  ASSUME NEW references \in Seq(References), NEW fs \in FileSets, HeldIn(references, fs),
         NEW p \in FilePaths, NEW c \in Seq(Values),
         NEW days, NEW seq, NEW bodyType, RefsAt(references, days, seq, bodyType),
         p.index = Len(references)
  PROVE  HeldIn(references, Store(fs, p, c))
<1> SUFFICES ASSUME NEW k \in 1..Len(references)
             PROVE  Held(references[k], Store(fs, p, c))
  BY DEF HeldIn
<1>1. Held(references[k], fs)
  BY DEF HeldIn
<1>2. references[k].path # p
  <2>1. references[k].path.index = k - 1
    BY DEF RefsAt, RefAt
  <2>2. Len(references) \in Nat
    BY LenProperties
  <2>3. QED
    BY <2>1, <2>2
<1>3. QED
  BY <1>1, <1>2 DEF Store, Held

\* Storing for this body changes files of this body only.
LEMMA StoreSince ==
  ASSUME NEW fs \in FileSets, NEW before, NEW p \in FilePaths, NEW c \in Seq(Values),
         NEW days, p.day \in days, Since(fs, before, days, p.seq, p.body)
  PROVE  Since(Store(fs, p, c), before, days, p.seq, p.body)
<1> SUFFICES ASSUME NEW q \in DOMAIN before
             PROVE  /\ q \in DOMAIN Store(fs, p, c)
                    /\ \/ Store(fs, p, c)[q] = before[q]
                       \/ OfBody(q, days, p.seq, p.body)
  BY DEF Since
<1>1. q \in DOMAIN fs /\ (fs[q] = before[q] \/ OfBody(q, days, p.seq, p.body))
  BY DEF Since
<1>2. CASE q = p
  BY <1>1, <1>2 DEF Store, OfBody
<1>3. CASE q # p
  BY <1>1, <1>3 DEF Store
<1>4. QED
  BY <1>2, <1>3

\* A reference more, of the next index.
LEMMA RefsMore ==
  ASSUME NEW references \in Seq(References), NEW days, NEW seq, NEW bodyType,
         RefsAt(references, days, seq, bodyType),
         NEW ref \in References, RefAt(ref, Len(references), days, seq, bodyType)
  PROVE  RefsAt(Append(references, ref), days, seq, bodyType)
<1> DEFINE more == Append(references, ref)
           n == Len(references)
<1>1. n \in Nat /\ Len(more) = n + 1 /\ more[n + 1] = ref
      /\ \A i \in 1..n : more[i] = references[i]
  BY AppendProperties, LenProperties
<1> HIDE DEF more
<1>2. ASSUME NEW k \in 1..(n + 1) PROVE RefAt(more[k], k - 1, days, seq, bodyType)
  <2>1. CASE k = n + 1
    <3>1. k - 1 = n /\ more[k] = ref
      BY <1>1, <2>1
    <3>2. QED
      BY <3>1
  <2>2. CASE k # n + 1
    <3>1. k \in 1..n
      BY <1>1, <2>2
    <3>2. more[k] = references[k]
      BY <1>1, <3>1
    <3>3. QED
      BY <3>1, <3>2 DEF RefsAt
  <2>3. QED
    BY <2>1, <2>2
<1>3. QED
  BY <1>1, <1>2 DEF RefsAt, more

\* The files hold a reference more.
LEMMA HeldMore ==
  ASSUME NEW references \in Seq(References), NEW fs, HeldIn(references, fs),
         NEW ref \in References, Held(ref, fs)
  PROVE  HeldIn(Append(references, ref), fs)
<1> DEFINE more == Append(references, ref)
           n == Len(references)
<1>1. n \in Nat /\ Len(more) = n + 1 /\ more[n + 1] = ref
      /\ \A i \in 1..n : more[i] = references[i]
  BY AppendProperties, LenProperties
<1> HIDE DEF more
<1>2. ASSUME NEW k \in 1..(n + 1)
      PROVE  Held(more[k], fs)
  <2>1. CASE k = n + 1
    BY <1>1, <2>1
  <2>2. CASE k # n + 1
    <3>1. k \in 1..n
      BY <1>1, <2>2
    <3>2. more[k] = references[k]
      BY <1>1, <3>1
    <3>3. QED
      BY <3>1, <3>2 DEF HeldIn
  <2>3. QED
    BY <2>1, <2>2
<1>3. QED
  BY <1>1, <1>2 DEF HeldIn, more

\* The path of the next file.
LEMMA PathTyped ==
  ASSUME NEW date \in Nat, NEW seq \in Nat, NEW bodyType \in {"request", "response"},
         NEW index \in Nat, NEW type \in Values
  PROVE  LET p == Path(date, seq, bodyType, index, type) IN
         /\ p \in FilePaths /\ p.day = date /\ p.seq = seq /\ p.body = bodyType
         /\ p.index = index /\ p.type = type
BY DEF Path, FilePaths

\* One turn keeps body, references and files sound.
LEMMA ExtractKeeps ==
  ASSUME NEW days \in SUBSET Nat, NEW seq \in Nat, NEW bodyType \in {"request", "response"},
         NEW original, NEW before, NEW acc, Sound(acc, original, days, seq, bodyType, before),
         NEW match, GoodMatch(match), NEW saving, IsLarge(match) => saving.on \in days,
         IsLarge(match) /\ Canonical(original) => Spelled(Tail(match))
  PROVE  Sound(Extract(acc, match, seq, bodyType, saving), original, days, seq, bodyType, before)
<1> DEFINE refs == acc.references
           type == match[1].val
           p == Path(saving.on, seq, bodyType, acc.index, type)
           small == Len(match) - 1 < MinSize \/ Stray \in ToSet(match) \/ saving.how = "impossible"
           result == Extract(acc, match, seq, bodyType, saving)
<1>1. /\ acc \in Accs /\ acc.index = Len(refs) /\ Shows(acc.body, refs, original)
      /\ RefsAt(refs, days, seq, bodyType) /\ HeldIn(refs, acc.files)
      /\ Since(acc.files, before, days, seq, bodyType)
  BY DEF Sound
<1>2. acc.body \in Seq(Atoms) /\ refs \in Seq(References) /\ acc.index \in Nat
      /\ acc.files \in FileSets
  BY <1>1 DEF Accs
<1>3. type \in Values
  BY DEF GoodMatch
<1>4. ASSUME ~small
      PROVE  /\ p \in FilePaths /\ p.day \in days /\ p.seq = seq /\ p.body = bodyType
             /\ p.index = Len(refs) /\ p.type = type
             /\ Canonical(original) => Spelled(Tail(match))
  <2>1. Len(match) \in Nat /\ MinSize \in Nat
    BY BoundsAssumption, LenProperties DEF GoodMatch
  <2>2. IsLarge(match)
    BY <1>4, <2>1 DEF IsLarge
  <2>3. saving.on \in days /\ saving.on \in Nat
    BY <2>2
  <2> DEFINE date == saving.on
  <2> HIDE DEF date, small
  <2>4. LET x == Path(date, seq, bodyType, acc.index, type) IN
        /\ x \in FilePaths /\ x.day = date /\ x.seq = seq /\ x.body = bodyType
        /\ x.index = acc.index /\ x.type = type
    BY <1>2, <1>3, <2>3, PathTyped DEF date
  <2>5. QED
    BY <1>1, <2>2, <2>3, <2>4 DEF date
<1>5. CASE small
  <2>1. result = acc
    BY <1>5 DEF Extract
  <2>2. QED
    BY <2>1
<1>6. CASE ~small /\ saving.how = "cut short"
  <2>0. /\ p \in FilePaths /\ p.day \in days /\ p.seq = seq /\ p.body = bodyType
        /\ p.index = Len(refs) /\ p.type = type
        /\ Canonical(original) => Spelled(Tail(match))
    <3> HIDE DEF small
    <3> QED
      BY <1>4, <1>6
  <2> DEFINE none == << >>
  <2>1. result = [acc EXCEPT !.files = Store(acc.files, p, none)]
    BY <1>6 DEF Extract
  <2>2. none \in Seq(Values)
    OBVIOUS
  <2> HIDE DEF p, none, result
  <2>3. /\ Store(acc.files, p, none) \in FileSets
        /\ HeldIn(refs, Store(acc.files, p, none))
        /\ Since(Store(acc.files, p, none), before, days, p.seq, p.body)
    <3>1. Store(acc.files, p, none) \in FileSets
      BY <1>2, <2>0, <2>2, StoreOne
    <3>2. HeldIn(refs, Store(acc.files, p, none))
      BY <1>1, <1>2, <2>0, <2>2, StoreHeld
    <3>3. Since(acc.files, before, days, p.seq, p.body)
      BY <1>1, <2>0
    <3>4. Since(Store(acc.files, p, none), before, days, p.seq, p.body)
      BY <1>2, <2>0, <2>2, <3>3, StoreSince
    <3>5. QED
      BY <3>1, <3>2, <3>4
  <2> DEFINE fs == Store(acc.files, p, none)
  <2> HIDE DEF fs
  <2>4. /\ fs \in FileSets /\ HeldIn(refs, fs) /\ Since(fs, before, days, seq, bodyType)
        /\ result = [acc EXCEPT !.files = fs]
    BY <2>0, <2>1, <2>3 DEF fs
  <2>5. /\ result \in Accs /\ result.files = fs /\ result.body = acc.body
        /\ result.references = refs /\ result.index = acc.index
    BY <1>1, <2>4 DEF Accs
  <2> HIDE DEF refs
  <2>6. QED
    BY <1>1, <2>4, <2>5 DEF Sound, result
<1>7. CASE ~small /\ saving.how # "cut short"
  <2>0. /\ p \in FilePaths /\ p.day \in days /\ p.seq = seq /\ p.body = bodyType
        /\ p.index = Len(refs) /\ p.type = type
        /\ Canonical(original) => Spelled(Tail(match))
    <3> HIDE DEF small
    <3> QED
      BY <1>4, <1>7
  <2> DEFINE t == Tail(match)
             ref == [path |-> p, hash |-> t, placeholder |-> acc.index]
             bytes == Decode(t)
             fs == Store(acc.files, p, bytes)
             after == OneFor(Placeholder(acc.index), match, acc.body)
             more == Append(refs, ref)
  <2>1. result = [body |-> after, references |-> more, index |-> acc.index + 1, files |-> fs]
    BY <1>7 DEF Extract, OneFor
  <2>2. t \in Seq(PlainAtoms) /\ match = <<Image(type)>> \o t
    BY MatchParts
  <2>2a. bytes \in Seq(Values) /\ (Canonical(original) => Spelled(t))
    BY <2>0, <2>2, DecodeEncode
  <2> HIDE DEF t, type
  <2>3. ref \in References /\ ref.path = p /\ ref.hash = t /\ ref.placeholder = acc.index
    <3> HIDE DEF p
    <3> QED
      BY <1>2, <2>0, <2>2 DEF References
  <2>4. fs \in FileSets /\ HeldIn(refs, fs) /\ Since(fs, before, days, seq, bodyType)
        /\ p \in DOMAIN fs /\ fs[p] = bytes
    <3> HIDE DEF p, refs, bytes
    <3>1. fs \in FileSets /\ p \in DOMAIN fs /\ fs[p] = bytes
      <4>1. fs \in FileSets
        BY <1>2, <2>0, <2>2a, StoreOne
      <4>2. p \in DOMAIN fs /\ fs[p] = bytes
        BY DEF Store
      <4>3. QED
        BY <4>1, <4>2
    <3>2. HeldIn(refs, fs)
      BY <1>1, <1>2, <2>0, <2>2a, StoreHeld
    <3>3. Since(acc.files, before, days, p.seq, p.body)
      BY <1>1, <2>0
    <3>4. Since(fs, before, days, p.seq, p.body)
      BY <1>2, <2>0, <2>2a, <3>3, StoreSince
    <3>5. QED
      BY <2>0, <3>1, <3>2, <3>4
  <2> HIDE DEF ref, p
  <2>5. Shows(after, more, original)
    <3>1. match = <<Image(ref.path.type)>> \o ref.hash
      BY <2>0, <2>2, <2>3
    <3>2. acc.body \in Seq(Known(refs)) /\ Expand(Showing(refs), acc.body) = original
          /\ refs \in Seq(References)
      BY <1>1 DEF Shows
    <3>3. /\ OneFor(Placeholder(Len(refs)), match, acc.body) \in Seq(Known(Append(refs, ref)))
          /\ Expand(Showing(Append(refs, ref)), OneFor(Placeholder(Len(refs)), match, acc.body))
               = Expand(Showing(refs), acc.body)
      <4> HIDE DEF refs
      <4> QED
        BY <2>3, <3>1, <3>2, TurnShows
    <3>4. more \in Seq(References)
      BY <2>3, <3>2, AppendProperties
    <3>5. ASSUME Canonical(original), NEW k \in 1..Len(more) PROVE Spelled(more[k].hash)
      <4>1. /\ Len(more) = Len(refs) + 1 /\ Len(refs) \in Nat /\ more[Len(refs) + 1] = ref
            /\ \A x \in 1..Len(refs) : more[x] = refs[x]
        BY <2>3, <3>2, AppendProperties, LenProperties
      <4>2. Spelled(ref.hash) /\ \A x \in 1..Len(refs) : Spelled(refs[x].hash)
        BY <1>1, <2>2a, <2>3, <3>5 DEF Shows
      <4> HIDE DEF refs, more
      <4>3. CASE k = Len(refs) + 1
        BY <4>1, <4>2, <4>3
      <4>4. CASE k # Len(refs) + 1
        <5>1. k \in 1..Len(refs)
          BY <3>5, <4>1, <4>4
        <5>2. QED
          BY <4>1, <4>2, <5>1
      <4>5. QED
        BY <4>3, <4>4
    <3> DEFINE shown == Expand(Showing(more), after) = original /\ after \in Seq(Known(more))
    <3>6. shown
      BY <1>1, <3>2, <3>3
    <3>7. QED
      BY <3>4, <3>5, <3>6 DEF Shows
  <2>6. RefsAt(more, days, seq, bodyType)
    <3>1. RefAt(ref, Len(refs), days, seq, bodyType)
      BY <1>1, <2>0, <2>3 DEF RefAt
    <3> HIDE DEF refs
    <3>2. QED
      BY <1>1, <1>2, <2>3, <3>1, RefsMore
  <2> HIDE DEF fs
  <2>7. HeldIn(more, fs)
    <3> HIDE DEF refs
    <3>1. Held(ref, fs)
      BY <2>3, <2>4 DEF Held
    <3>2. QED
      BY <1>2, <2>3, <2>4, <3>1, HeldMore
  <2>8. Len(more) = Len(refs) + 1 /\ more \in Seq(References)
    BY <1>2, <2>3, AppendProperties
  <2>9. after \in Seq(Atoms)
    <3>1. Known(more) \subseteq Atoms
      BY DEF Known
    <3>2. after \in Seq(Known(more))
      BY <2>5 DEF Shows
    <3> HIDE DEF after, more
    <3>3. QED
      BY <3>1, <3>2, SeqMonotonic
  <2> HIDE DEF after, more, result
  <2>10. /\ result \in Accs /\ result.files = fs /\ result.body = after
         /\ result.references = more /\ result.index = acc.index + 1
    BY <1>2, <2>1, <2>4, <2>8, <2>9 DEF Accs
  <2>11. result.index = Len(more)
    BY <1>1, <2>8, <2>10
  <2>12. QED
    BY <2>4, <2>5, <2>6, <2>7, <2>10, <2>11 DEF Sound, result
<1>8. QED
  BY <1>5, <1>6, <1>7

-----------------------------------------------------------------------------
(* The loop *)

Start(body) == [body |-> body, references |-> << >>, index |-> 0, files |-> files]
Turn(body, seq, bodyType, saves, acc, i) ==
  IF i \in Matches(body)
  THEN Extract(acc, Match(body, i), seq, bodyType, saves[i])
  ELSE acc
TurnStep(V, body, seq, bodyType, saves) ==
  [x \in V \X (1..Len(body)) |-> Turn(body, seq, bodyType, saves, x[1], x[2])]
Indices(body) == [i \in DOMAIN body |-> i]

\* The turns stay in V.
TurnsIn(V, body, seq, bodyType, saves) ==
  /\ Start(body) \in V
  /\ \A acc \in V, i \in 1..Len(body) : Turn(body, seq, bodyType, saves, acc, i) \in V

\* The values the loop goes through, and its result.
Turns(c, V, body, seq, bodyType, saves) ==
  /\ c \in [0..Len(body) -> V] /\ c[0] = Start(body)
  /\ \A i \in 1..Len(body) : c[i] = Turn(body, seq, bodyType, saves, c[i - 1], i)
  /\ c[Len(body)] = ExtractFromBody(body, seq, bodyType, saves)

\* A body's positions.
LEMMA IndicesTyped ==
  ASSUME NEW A, NEW body \in Seq(A)
  PROVE  /\ Indices(body) \in Seq(1..Len(body)) /\ Len(Indices(body)) = Len(body)
         /\ \A i \in 1..Len(body) : Indices(body)[i] = i
         /\ DOMAIN Indices(body) = 1..Len(body) /\ Len(body) \in Nat
<1>1. DOMAIN body = 1..Len(body) /\ Len(body) \in Nat
  BY LenProperties
<1>2. Indices(body) \in [1..Len(body) -> 1..Len(body)]
  BY <1>1 DEF Indices
<1>3. \A i \in 1..Len(body) : Indices(body)[i] = i
  BY <1>1 DEF Indices
<1> DEFINE x == Indices(body)
<1> HIDE DEF x
<1>4. x \in Seq(1..Len(body)) /\ Len(x) = Len(body)
  BY <1>1, <1>2, IsASeq, LenProperties DEF x
<1>5. QED
  BY <1>1, <1>2, <1>3, <1>4 DEF x

\* The loop goes through such values.
LEMMA ExtractTurns ==
  ASSUME NEW V, NEW A, NEW body \in Seq(A), NEW seq, NEW bodyType, NEW saves,
         TurnsIn(V, body, seq, bodyType, saves)
  PROVE  \E c : Turns(c, V, body, seq, bodyType, saves)
<1> DEFINE n == Len(body)
           s == Indices(body)
           base == Start(body)
           at(acc, i) == Turn(body, seq, bodyType, saves, acc, i)
           step == TurnStep(V, body, seq, bodyType, saves)
           Eq(g) == g = [t \in SUBSET DOMAIN s |->
                           IF t = {} THEN base ELSE at(g[t \ {Max(t)}], s[Max(t)])]
           it == CHOOSE g : Eq(g)
           out == ExtractFromBody(body, seq, bodyType, saves)
<1>1. /\ n \in Nat /\ s \in Seq(1..n) /\ Len(s) = n /\ DOMAIN s = 1..n
      /\ \A i \in 1..n : s[i] = i
  BY IndicesTyped
<1>2. out = it[DOMAIN s]
  BY Zenon DEF ExtractFromBody, FoldLeftDomain, FoldLeft, MapThenFoldSet, Indices, Start, Turn
<1>3. base \in V /\ \A acc \in V, i \in 1..n : at(acc, i) \in V
  BY DEF TurnsIn
<1>4. step \in [V \X (1..n) -> V] /\ \A v \in V, i \in 1..n : step[<<v, i>>] = at(v, i)
  <2> HIDE DEF n
  <2>1. step = [x \in V \X (1..n) |-> at(x[1], x[2])]
    BY DEF TurnStep, n
  <2> HIDE DEF step, at
  <2>2. QED
    BY <1>3, <2>1
<1> HIDE DEF step, at, base, s
<1>5. Foldable(V, 1..n, base, step, s)
  BY <1>1, <1>3, <1>4 DEF Foldable
<1> DEFINE E == 1..n
<1>5a. Foldable(V, E, base, step, s)
  BY <1>5
<1> HIDE DEF E
<1> PICK h \in [SUBSET (1..Len(s)) -> V] : Chosen(h, base, step, s)
  BY <1>5a, FoldChoice, Zenon
<1> HIDE DEF n
<1>6. h[{}] = base /\ \A t \in SUBSET (1..n) : h[t] \in V
  BY <1>1 DEF Chosen
<1>7. ASSUME NEW t \in SUBSET (1..n), t # {}
      PROVE  Max(t) \in 1..n /\ h[t] = at(h[t \ {Max(t)}], s[Max(t)])
  <2>1. Max(t) \in 1..n /\ h[t] = step[<<h[t \ {Max(t)}], s[Max(t)]>>]
    BY <1>1, <1>7 DEF Chosen
  <2>2. h[t \ {Max(t)}] \in V
    BY <1>6
  <2>3. QED
    BY <1>1, <1>4, <2>1, <2>2
<1>8. Eq(h)
  <2>1. h = [t \in SUBSET (1..n) |-> h[t]]
    BY <1>1
  <2>2. QED
    BY <1>1, <1>6, <1>7, <2>1
<1>9. Eq(it)
  <2> HIDE DEF Eq
  <2> QED
    BY <1>8
<1> HIDE DEF it
<1>10. it[{}] = base
  BY <1>1, <1>9
<1>11. ASSUME NEW t \in SUBSET (1..n), t # {}, it[t \ {Max(t)}] \in V
       PROVE  it[t] = step[<<it[t \ {Max(t)}], s[Max(t)]>>]
  <2>1. it[t] = at(it[t \ {Max(t)}], s[Max(t)])
    BY <1>1, <1>9, <1>11
  <2> DEFINE v == it[t \ {Max(t)}]
             i == s[Max(t)]
  <2>2. v \in V /\ i \in 1..n
    BY <1>1, <1>7, <1>11
  <2> HIDE DEF v, i
  <2>3. step[<<v, i>>] = at(v, i)
    BY <1>4, <2>2
  <2>4. QED
    BY <2>1, <2>3 DEF v, i
<1>12. ChosenIn(it, V, base, step, s)
  BY <1>1, <1>10, <1>11 DEF ChosenIn
<1>13. it[1..Len(s)] = Folded(step, base, s)
  BY <1>5a, <1>12, FoldIsFolded
<1> DEFINE c == Course(step, base, s)
<1>14. Follows(c, V, base, step, s)
  <2>1. base \in V /\ step \in [V \X E -> V] /\ s \in Seq(E)
    BY <1>5a DEF Foldable
  <2>2. QED
    BY <2>1, CourseSteps
<1>15. c[n] = out
  BY <1>1, <1>2, <1>13 DEF Folded
<1> HIDE DEF c, out
<1>16. c \in [0..n -> V] /\ c[0] = base /\ \A i \in 1..n : c[i] = at(c[i - 1], i)
  <2>1. c \in [0..n -> V] /\ c[0] = base /\ \A i \in 1..n : c[i] = step[<<c[i - 1], s[i]>>]
    BY <1>1, <1>14 DEF Follows
  <2>2. ASSUME NEW i \in 1..n PROVE c[i] = at(c[i - 1], i)
    <3> DEFINE v == c[i - 1]
    <3>1. v \in V /\ s[i] = i /\ c[i] = step[<<v, s[i]>>]
      BY <1>1, <2>1
    <3> HIDE DEF v
    <3>2. step[<<v, i>>] = at(v, i)
      BY <1>4, <3>1
    <3>3. c[i] = at(v, i)
      BY <3>1, <3>2
    <3>4. QED
      BY <3>3 DEF v
  <2>3. QED
    BY <2>1, <2>2
<1>17. Turns(c, V, body, seq, bodyType, saves)
  BY <1>15, <1>16 DEF Turns, n, at, out, base
<1>18. QED
  BY <1>17

\* Without references every atom of a body shows itself.
LEMMA PlainShows ==
  ASSUME NEW b \in Seq(PlainAtoms)
  PROVE  Shows(b, << >>, b) /\ b \in Seq(Atoms)
<1> DEFINE none == << >>
           K == Known(none)
           g == Showing(none)
<1>1. none \in Seq(References) /\ Len(none) = 0
  OBVIOUS
<1> HIDE DEF none
<1>2. g \in [K -> Seq(Atoms)]
  BY <1>1, ShowingTyped
<1>3. PlainAtoms \subseteq K /\ PlainAtoms \subseteq Atoms /\ \A a \in PlainAtoms : g[a] = <<a>>
  BY AtomKinds DEF Known, Atoms, Showing, Shown
<1> HIDE DEF K, g
<1>4. b \in Seq(K) /\ b \in Seq(Atoms)
  BY <1>3, SeqMonotonic
<1>5. \A k \in DOMAIN b : g[b[k]] = <<b[k]>>
  BY <1>3, LenProperties
<1>6. Expand(g, b) = b
  <2>1. Expands(g, K, Atoms)
    BY <1>2 DEF Expands
  <2>2. b \in Seq(K)
    BY <1>4
  <2>3. QED
    BY <1>5, <2>1, <2>2, ExpandSame
<1>7. QED
  BY <1>1, <1>4, <1>6 DEF Shows, K, g, none

\* Nothing is said of no references.
LEMMA NoReferences ==
  ASSUME NEW days, NEW seq, NEW bodyType, NEW fs
  PROVE  RefsAt(<< >>, days, seq, bodyType) /\ HeldIn(<< >>, fs)
<1>1. Len(<< >>) = 0
  OBVIOUS
<1>2. QED
  BY <1>1 DEF RefsAt, HeldIn

\* The large images of b are saved on these days.
SavedOn(b, saves, days) ==
  days \in SUBSET Nat /\ \A i \in LargeMatches(b) : saves[i].on \in days

SoundAccs(b, days, seq, bodyType) ==
  {acc \in Accs : Sound(acc, b, days, seq, bodyType, files)}

\* The loop of ExtractFromBody goes through sound values.
LEMMA SoundTurns ==
  ASSUME files \in FileSets, NEW seq \in Nat, NEW bodyType \in {"request", "response"},
         NEW b \in Bodies, NEW saves, NEW days, SavedOn(b, saves, days)
  PROVE  \E c : Turns(c, SoundAccs(b, days, seq, bodyType), b, seq, bodyType, saves)
<1> DEFINE V == SoundAccs(b, days, seq, bodyType)
<1>1. b \in Seq(PlainAtoms)
  BY BodyTyped
<1>2. Start(b) \in V
  <2> DEFINE none == << >>
  <2>1. /\ Shows(b, none, b) /\ b \in Seq(Atoms)
        /\ RefsAt(none, days, seq, bodyType) /\ HeldIn(none, files)
    BY <1>1, PlainShows, NoReferences
  <2>2. Since(files, files, days, seq, bodyType)
    BY DEF Since
  <2>3. none \in Seq(References) /\ Len(none) = 0
    OBVIOUS
  <2>4. Start(b) = [body |-> b, references |-> none, index |-> 0, files |-> files]
    BY DEF Start
  <2> HIDE DEF none
  <2>5. /\ Start(b) \in Accs /\ Start(b).body = b /\ Start(b).references = none
        /\ Start(b).index = 0 /\ Start(b).files = files
    BY <2>1, <2>3, <2>4 DEF Accs
  <2>6. QED
    BY <2>1, <2>2, <2>3, <2>5 DEF Sound, SoundAccs
<1>3. ASSUME NEW acc \in V, NEW i \in 1..Len(b) PROVE Turn(b, seq, bodyType, saves, acc, i) \in V
  <2>1. Sound(acc, b, days, seq, bodyType, files)
    BY <1>3 DEF SoundAccs
  <2>2. CASE i \in Matches(b)
    <3> DEFINE m == Match(b, i)
               file == saves[i]
    <3>1. GoodMatch(m)
      BY <2>2, MatchGood
    <3>1a. /\ IsLarge(m) => file.on \in days
           /\ IsLarge(m) /\ Canonical(b) => Spelled(Tail(m))
      BY <2>2, MatchSpelled DEF SavedOn, LargeMatches
    <3>1b. days \in SUBSET Nat
      BY DEF SavedOn
    <3> HIDE DEF m, file
    <3>2. Sound(Extract(acc, m, seq, bodyType, file), b, days, seq, bodyType, files)
      BY <2>1, <3>1, <3>1a, <3>1b, ExtractKeeps
    <3>3. Turn(b, seq, bodyType, saves, acc, i) = Extract(acc, m, seq, bodyType, file)
      BY <2>2 DEF Turn, m, file
    <3>4. Extract(acc, m, seq, bodyType, file) \in V
      BY <3>2 DEF Sound, SoundAccs
    <3>5. QED
      BY <3>3, <3>4
  <2>3. CASE i \notin Matches(b)
    BY <2>3, <1>3 DEF Turn
  <2>4. QED
    BY <2>2, <2>3
<1> HIDE DEF V
<1>4. TurnsIn(V, b, seq, bodyType, saves)
  BY <1>2, <1>3 DEF TurnsIn
<1>5. \E c : Turns(c, V, b, seq, bodyType, saves)
  BY <1>1, <1>4, ExtractTurns
<1>6. QED
  BY <1>5 DEF V

\* ExtractFromBody leaves body, references and files sound.
LEMMA ExtractSound ==
  ASSUME files \in FileSets, NEW seq \in Nat, NEW bodyType \in {"request", "response"},
         NEW b \in Bodies, NEW saves, NEW days, SavedOn(b, saves, days)
  PROVE  Sound(ExtractFromBody(b, seq, bodyType, saves), b, days, seq, bodyType, files)
<1> DEFINE V == SoundAccs(b, days, seq, bodyType)
<1>1. PICK c : Turns(c, V, b, seq, bodyType, saves)
  BY SoundTurns
<1> HIDE DEF V
<1>2. Len(b) \in 0..Len(b)
  BY BodyTyped, LenProperties
<1>3. ExtractFromBody(b, seq, bodyType, saves) \in V
  BY <1>1, <1>2 DEF Turns
<1>4. QED
  BY <1>3 DEF V, SoundAccs

\* If the files hold what the references say, the body is restored to what it
\* shows.
LEMMA RestoredShows ==
  ASSUME NEW part, Shows(part.body, part.references, part.original), Canonical(part.original),
         \A k \in 1..Len(part.references) : part.references[k].placeholder = k - 1,
         HeldIn(part.references, files)
  PROVE  Restored(part) = part.original
<1> DEFINE refs == part.references
           body == part.body
           g == Showing(refs)
           Found(a) == SelectInSeq(refs, LAMBDA x : x.placeholder = a.n)
           Of(a) == IF a.kind # "image" THEN <<a>>
                    ELSE <<Image(refs[Found(a)].path.type)>> \o Encode(files[refs[Found(a)].path])
<1>1. /\ refs \in Seq(References) /\ body \in Seq(Known(refs)) /\ Expand(g, body) = part.original
      /\ \A k \in 1..Len(refs) : refs[k].placeholder = k - 1
      /\ \A k \in 1..Len(refs) : Encode(files[refs[k].path]) = refs[k].hash
  <2>1. ASSUME NEW k \in 1..Len(refs) PROVE Encode(files[refs[k].path]) = refs[k].hash
    <3>1. refs \in Seq(References) /\ Spelled(refs[k].hash)
      BY DEF Shows
    <3>2. refs[k] \in References
      BY <3>1, LenProperties
    <3> DEFINE t == refs[k].hash
    <3>3. t \in Seq(PlainAtoms)
      BY <3>2 DEF References
    <3>4. files[refs[k].path] = Decode(t)
      BY DEF HeldIn, Held
    <3> HIDE DEF t
    <3>5. QED
      BY <3>1, <3>3, <3>4, DecodeEncode DEF t
  <2>2. QED
    BY <2>1 DEF Shows
<1>2. ASSUME NEW a \in Known(refs) PROVE Of(a) = g[a]
  <2>1. g[a] = Shown(refs, a) /\ a \in Atoms /\ (a.kind = "image" => a.n < Len(refs))
    BY DEF Showing, Known
  <2>2. CASE a.kind # "image"
    BY <2>1, <2>2 DEF Shown
  <2>3. CASE a.kind = "image"
    <3> DEFINE n == a.n
               I == {i \in 1..Len(refs) : refs[i].placeholder = n}
    <3>1. n \in Nat /\ n < Len(refs) /\ Len(refs) \in Nat
      BY <1>1, <2>1, <2>3, AtomKinds, LenProperties
    <3>2. Found(a) = IF I # {} THEN Min(I) ELSE 0
      BY Zenon DEF SelectInSeq
    <3>3. I = {n + 1}
      <4> HIDE DEF refs, n
      <4> QED
        BY <1>1, <3>1
    <3>4. Min(I) \in I
      <4>1. I \in SUBSET Nat /\ I # {}
        BY <3>1, <3>3
      <4> HIDE DEF I
      <4>2. QED
        BY <4>1, LeastElement
    <3>5. Found(a) = n + 1
      <4> HIDE DEF I, Found, n
      <4> QED
        BY <3>2, <3>3, <3>4
    <3>6. Of(a) = <<Image(refs[n + 1].path.type)>> \o Encode(files[refs[n + 1].path])
      <4> HIDE DEF Found
      <4> QED
        BY <2>3, <3>5
    <3>7. Encode(files[refs[n + 1].path]) = refs[n + 1].hash
      <4>1. n + 1 \in 1..Len(refs)
        BY <3>1
      <4>2. QED
        BY <1>1, <4>1
    <3>8. g[a] = <<Image(refs[n + 1].path.type)>> \o refs[n + 1].hash
      BY <2>1, <2>3 DEF Shown
    <3>9. QED
      BY <3>6, <3>7, <3>8
  <2>4. QED
    BY <2>2, <2>3
<1>3. Restored(part) = FlattenSeq([k \in DOMAIN body |-> Of(body[k])])
  BY Zenon DEF Restored
<1> HIDE DEF Of, g, refs
<1>4. [k \in DOMAIN body |-> Of(body[k])] = Spread(g, body)
  <2>1. \A k \in DOMAIN body : body[k] \in Known(refs)
    BY <1>1, LenProperties
  <2>2. \A k \in DOMAIN body : Of(body[k]) = g[body[k]]
    BY <1>2, <2>1
  <2>3. QED
    BY <2>2 DEF Spread
<1>5. Restored(part) = Expand(g, body)
  BY <1>3, <1>4, Zenon DEF Expand
<1>6. QED
  BY <1>1, <1>5

-----------------------------------------------------------------------------
(* The inductive invariant *)

PartRecords == [original : Seq(PlainAtoms), body : Seq(Atoms), references : Seq(References)]
Works == [request : PartRecords, response : PartRecords, failed : BOOLEAN,
          run : Nat, days : SUBSET Nat]
Stages == {"idle", "numbered", "request", "response", "done"}

MediaTypeOK ==
  /\ run \in Nat /\ day \in Nat /\ nextSequenceID \in Nat
  /\ stage \in [Requests -> Stages] /\ seqOf \in [Requests -> Nat]
  /\ work \in [Requests -> Works] /\ files \in FileSets /\ log \in Seq(Works)

\* A request that has its number, and no entry in the log yet.
Busy(r) == stage[r] \in {"numbered", "request", "response"}

\* A part shows its original, and its references are of its entry.
PartKept(part, days, q, bodyType) ==
  /\ Shows(part.body, part.references, part.original)
  /\ RefsAt(part.references, days, q, bodyType)
EntryKept(e, q) ==
  PartKept(e.request, e.days, q, "request") /\ PartKept(e.response, e.days, q, "response")
EntryHeld(e, fs) == HeldIn(e.request.references, fs) /\ HeldIn(e.response.references, fs)

\* Requests under way have numbers of this run, each its own.
Numbered ==
  \A r \in Requests : Busy(r) =>
    /\ seqOf[r] < nextSequenceID /\ work[r].run = run
    /\ \A s \in Requests : Busy(s) /\ s # r => seqOf[s] # seqOf[r]

\* What they have so far is sound, and the files hold it.
WorkKept ==
  \A r \in Requests :
    IF Busy(r) THEN EntryKept(work[r], seqOf[r]) /\ EntryHeld(work[r], files)
    ELSE work[r] = NoWork

\* A recorded entry has a number; if it is of this run, nobody else has it.
OwnNumber(e, q) ==
  e.run = run => q < nextSequenceID /\ \A r \in Requests : Busy(r) => seqOf[r] # q
LoggedKept(e) ==
  /\ e.run <= run
  /\ \E q \in Nat : EntryKept(e, q) /\ OwnNumber(e, q)
  /\ ~Disturbed(e) => EntryHeld(e, files)
LogKept == \A k \in DOMAIN log : LoggedKept(log[k])

MediaInv == MediaTypeOK /\ Numbered /\ WorkKept /\ LogKept

\* Nothing has been done.
LEMMA NoWorkKept ==
  /\ NoWork \in Works
  /\ \A q, fs : EntryKept(NoWork, q) /\ EntryHeld(NoWork, fs)
  /\ \A n : LET w == [NoWork EXCEPT !.run = n] IN
       /\ w.request = NoWork.request /\ w.response = NoWork.response
       /\ w.days = NoWork.days /\ w.run = n
<1> DEFINE none == << >>
<1>1. /\ none \in Seq(PlainAtoms) /\ none \in Seq(Atoms) /\ none \in Seq(References)
      /\ Len(none) = 0
  OBVIOUS
<1>2. Shows(none, none, none)
  BY <1>1, PlainShows
<1>3. Part = [original |-> none, body |-> none, references |-> none]
  BY DEF Part
<1> HIDE DEF none
<1>4. /\ Part \in PartRecords /\ Part.original = none /\ Part.body = none
      /\ Part.references = none
  BY <1>1, <1>3 DEF PartRecords
<1>5. /\ NoWork \in Works /\ NoWork.request = Part /\ NoWork.response = Part
      /\ NoWork.days = {} /\ NoWork.failed = FALSE /\ NoWork.run = 0
  BY <1>4 DEF NoWork, Works
<1>6. \A days, q, bodyType : PartKept(Part, days, q, bodyType)
  BY <1>1, <1>2, <1>4 DEF PartKept, RefsAt
<1>7. \A fs : HeldIn(Part.references, fs)
  BY <1>1, <1>4 DEF HeldIn
<1>8. \A q, fs : EntryKept(NoWork, q) /\ EntryHeld(NoWork, fs)
  BY <1>5, <1>6, <1>7 DEF EntryKept, EntryHeld
<1>9. \A n : LET w == [NoWork EXCEPT !.run = n] IN
       /\ w.request = NoWork.request /\ w.response = NoWork.response
       /\ w.days = NoWork.days /\ w.run = n
  BY DEF NoWork
<1>10. QED
  BY <1>5, <1>8, <1>9

\* The invariant holds when the process starts.
LEMMA MediaInit == Init => MediaInv
<1> SUFFICES ASSUME Init PROVE MediaInv
  OBVIOUS
<1>1. /\ run = 1 /\ day = 1 /\ nextSequenceID = 0
      /\ stage = [r \in Requests |-> "idle"] /\ seqOf = [r \in Requests |-> 0]
      /\ work = [r \in Requests |-> NoWork] /\ files = << >> /\ log = << >>
  BY DEF Init
<1>2. files \in FileSets
  <2>1. DOMAIN files = {} /\ files = [p \in {} |-> {}]
    BY <1>1
  <2>2. files \in [{} -> Seq(PlainAtoms)] /\ {} \in SUBSET FilePaths
    BY <2>1
  <2>3. QED
    BY <2>2 DEF FileSets
<1>3. log \in Seq(Works) /\ DOMAIN log = {}
  BY <1>1
<1>4. MediaTypeOK
  BY <1>1, <1>2, <1>3, NoWorkKept DEF MediaTypeOK, Stages
<1>5. \A r \in Requests : ~Busy(r) /\ work[r] = NoWork
  BY <1>1 DEF Busy
<1>6. QED
  BY <1>3, <1>4, <1>5 DEF MediaInv, Numbered, WorkKept, LogKept

-----------------------------------------------------------------------------
(* The steps *)

\* What is held is still held when files of other entries or bodies changed.
LEMMA StillHeld ==
  ASSUME NEW references, NEW fs, HeldIn(references, fs),
         NEW days, NEW q, NEW bodyType, RefsAt(references, days, q, bodyType),
         NEW now, NEW others, NEW seq, NEW other, Since(now, fs, others, seq, other),
         others \cap days = {} \/ q # seq \/ bodyType # other
  PROVE  HeldIn(references, now)
<1> SUFFICES ASSUME NEW k \in 1..Len(references) PROVE Held(references[k], now)
  BY DEF HeldIn
<1> DEFINE p == references[k].path
<1>1. p \in DOMAIN fs /\ fs[p] = Decode(references[k].hash)
  BY DEF HeldIn, Held
<1>2. p.day \in days /\ p.seq = q /\ p.body = bodyType
  BY DEF RefsAt, RefAt
<1>3. p \in DOMAIN now /\ (now[p] = fs[p] \/ OfBody(p, others, seq, other))
  BY <1>1 DEF Since
<1>4. ~OfBody(p, others, seq, other)
  BY <1>2 DEF OfBody
<1>5. QED
  BY <1>1, <1>3, <1>4 DEF Held

\* The same of an entry.
LEMMA EntryStillHeld ==
  ASSUME NEW e, NEW q, EntryKept(e, q), NEW fs, EntryHeld(e, fs),
         NEW now, NEW others, NEW seq, NEW other, Since(now, fs, others, seq, other),
         others \cap e.days = {} \/ q # seq
  PROVE  EntryHeld(e, now)
<1>1. /\ RefsAt(e.request.references, e.days, q, "request")
      /\ RefsAt(e.response.references, e.days, q, "response")
  BY DEF EntryKept, PartKept
<1>2. HeldIn(e.request.references, fs) /\ HeldIn(e.response.references, fs)
  BY DEF EntryHeld
<1>3. HeldIn(e.request.references, now)
  BY <1>1, <1>2, StillHeld
<1>4. HeldIn(e.response.references, now)
  BY <1>1, <1>2, StillHeld
<1>5. QED
  BY <1>3, <1>4 DEF EntryHeld

\* More days do not matter to a part.
LEMMA PartMoreDays ==
  ASSUME NEW part, NEW days, NEW q, NEW bodyType, PartKept(part, days, q, bodyType), NEW more
  PROVE  PartKept(part, days \cup more, q, bodyType)
BY DEF PartKept, RefsAt, RefAt

\* A part that was just extracted.
LEMMA PartExtracted ==
  ASSUME NEW result, NEW original, NEW on, NEW q, NEW bodyType, NEW before,
         Sound(result, original, on, q, bodyType, before), NEW days, on \subseteq days,
         original \in Seq(PlainAtoms)
  PROVE  LET part == [original |-> original, body |-> result.body,
                      references |-> result.references] IN
         /\ part \in PartRecords /\ PartKept(part, days, q, bodyType)
         /\ HeldIn(part.references, result.files)
         /\ result.files \in FileSets /\ Since(result.files, before, on, q, bodyType)
<1> DEFINE part == [original |-> original, body |-> result.body,
                    references |-> result.references]
<1>1. /\ result \in Accs /\ Shows(result.body, result.references, original)
      /\ RefsAt(result.references, on, q, bodyType) /\ HeldIn(result.references, result.files)
      /\ Since(result.files, before, on, q, bodyType)
  BY DEF Sound
<1>2. /\ result.body \in Seq(Atoms) /\ result.references \in Seq(References)
      /\ result.files \in FileSets
  BY <1>1 DEF Accs
<1>3. part \in PartRecords
  BY <1>2 DEF PartRecords
<1>4. part.body = result.body /\ part.references = result.references /\ part.original = original
  OBVIOUS
<1> HIDE DEF part
<1>5. RefsAt(part.references, days, q, bodyType)
  BY <1>1, <1>4 DEF RefsAt, RefAt
<1>6. PartKept(part, days, q, bodyType)
  BY <1>1, <1>4, <1>5 DEF PartKept
<1>7. QED
  BY <1>1, <1>2, <1>3, <1>4, <1>6 DEF part

\* The days on which the large images of b are saved.
Dates(b, saves) == {saves[i].on : i \in LargeMatches(b)}

\* What ExtractPart does with a body, until now, with these saves.
Extracted(r, bodyType, body, now, saves) ==
  LET result == ExtractFromBody(body, seqOf[r], bodyType, saves) IN
  /\ now \in day..MaxDays /\ saves \in [LargeMatches(body) -> Savings(day..now)]
  /\ day' = now
  /\ files' = result.files
  /\ work' = [work EXCEPT
       ![r][bodyType] = [original |-> body, body |-> result.body,
                         references |-> result.references],
       ![r].failed = @ \/ Failed(saves),
       ![r].days = @ \cup Dates(body, saves)]
  /\ active' = active \cup ({run} \X Dates(body, saves))
  /\ UNCHANGED << run, nextSequenceID, seqOf, log >>

\* It does so with some.
LEMMA ExtractedSome ==
  ASSUME NEW r, NEW bodyType, ExtractPart(r, bodyType)
  PROVE  \E body \in Bodies : \E now, saves : Extracted(r, bodyType, body, now, saves)
BY Zenon DEF ExtractPart, Extracted, Dates

\* The days are days.
LEMMA DatesTyped ==
  ASSUME day \in Nat, NEW r, NEW bodyType, NEW body, NEW now, NEW saves,
         Extracted(r, bodyType, body, now, saves)
  PROVE  /\ Dates(body, saves) \in SUBSET Nat /\ day' \in Nat
         /\ SavedOn(body, saves, Dates(body, saves))
<1>1. now \in day..MaxDays /\ saves \in [LargeMatches(body) -> Savings(day..now)] /\ day' = now
  BY DEF Extracted
<1>2. now \in Nat
  BY <1>1, BoundsAssumption
<1>3. ASSUME NEW i \in LargeMatches(body) PROVE saves[i].on \in Nat
  <2>1. saves[i] \in Savings(day..now)
    BY <1>1
  <2>2. saves[i].on \in day..now
    BY <2>1 DEF Savings
  <2>3. QED
    BY <1>2, <2>2
<1>4. QED
  BY <1>1, <1>2, <1>3 DEF Dates, SavedOn

\* A part is extracted.
LEMMA ExtractStep ==
  ASSUME MediaInv, NEW r \in Requests, NEW bodyType \in {"request", "response"},
         ExtractPart(r, bodyType), stage[r] \in {"numbered", "request"},
         stage' = [stage EXCEPT ![r] = bodyType]
  PROVE  MediaInv'
<1> DEFINE q == seqOf[r]
           w == work[r]
           w1 == work'[r]
<1>a. PICK body \in Bodies : \E now, saves : Extracted(r, bodyType, body, now, saves)
  BY ExtractedSome
<1>1. PICK now, saves : Extracted(r, bodyType, body, now, saves)
  BY <1>a
<1> DEFINE result == ExtractFromBody(body, q, bodyType, saves)
           part == [original |-> body, body |-> result.body, references |-> result.references]
           on == Dates(body, saves)
           days == w.days \cup on
<1>2. /\ MediaTypeOK /\ Numbered /\ WorkKept /\ LogKept
      /\ q \in Nat /\ w \in Works /\ day \in Nat /\ run \in Nat /\ files \in FileSets
  BY DEF MediaInv, MediaTypeOK
<1>3. Sound(result, body, on, q, bodyType, files)
  <2>1. SavedOn(body, saves, on)
    BY <1>1, <1>2, DatesTyped
  <2>2. QED
    BY <1>2, <2>1, ExtractSound
<1>4. /\ work' = [work EXCEPT ![r][bodyType] = part,
                              ![r].failed = @ \/ Failed(saves), ![r].days = @ \cup on]
      /\ files' = result.files /\ active' = active \cup ({run} \X on)
      /\ UNCHANGED << run, nextSequenceID, seqOf, log >>
      /\ day' \in Nat /\ on \in SUBSET Nat
  BY <1>1, <1>2, DatesTyped DEF Extracted
<1> HIDE DEF result, on
<1>5. /\ part \in PartRecords /\ PartKept(part, days, q, bodyType)
      /\ HeldIn(part.references, files')
      /\ files' \in FileSets /\ Since(files', files, on, q, bodyType)
  <2>1. on \subseteq days /\ body \in Seq(PlainAtoms)
    BY BodyTyped
  <2> HIDE DEF days
  <2>2. QED
    BY <1>3, <1>4, <2>1, PartExtracted
<1> HIDE DEF part, days
<1>6. /\ \A s \in Requests : s # r => work'[s] = work[s]
      /\ w1.days = days /\ w1.run = w.run
      /\ bodyType = "request" => w1.request = part /\ w1.response = w.response
      /\ bodyType = "response" => w1.response = part /\ w1.request = w.request
      /\ w1 \in Works /\ work' \in [Requests -> Works]
  <2>1. work \in [Requests -> Works]
    BY <1>2 DEF MediaTypeOK
  <2>2. w.failed \in BOOLEAN /\ (w.failed \/ Failed(saves)) \in BOOLEAN /\ days \in SUBSET Nat
    BY <1>2, <1>4 DEF Works, days
  <2> DEFINE fl == w.failed \/ Failed(saves)
             new == [[[w EXCEPT ![bodyType] = part] EXCEPT !.failed = fl] EXCEPT !.days = days]
  <2>3. work' = [work EXCEPT ![r] = new]
    BY <1>2, <1>4, <2>1 DEF Works, days
  <2>4. w.days \in SUBSET Nat /\ fl \in BOOLEAN
    BY <1>2, <2>2 DEF Works
  <2> HIDE DEF fl
  <2>5. /\ new.days = days /\ new.run = w.run /\ new \in Works
        /\ bodyType = "request" => new.request = part /\ new.response = w.response
        /\ bodyType = "response" => new.response = part /\ new.request = w.request
    <3> HIDE DEF w
    <3>1. CASE bodyType = "request"
      BY <1>2, <1>5, <2>2, <2>4, <3>1 DEF Works
    <3>2. CASE bodyType = "response"
      BY <1>2, <1>5, <2>2, <2>4, <3>2 DEF Works
    <3>3. QED
      BY <3>1, <3>2
  <2> HIDE DEF new
  <2>6. QED
    BY <2>1, <2>3, <2>5
<1>7. Busy(r) /\ \A s \in Requests : Busy(s)' <=> Busy(s)
  BY <1>2 DEF Busy, MediaTypeOK
<1>8. MediaTypeOK'
  BY <1>2, <1>4, <1>5, <1>6 DEF MediaTypeOK, Stages
<1>9. Numbered'
  <2>1. \A s \in Requests : work'[s].run = work[s].run
    BY <1>6
  <2>2. seqOf' = seqOf /\ run' = run /\ nextSequenceID' = nextSequenceID
    BY <1>4
  <2>3. QED
    BY <1>2, <1>7, <2>1, <2>2 DEF Numbered
<1>10. ASSUME NEW s \in Requests
       PROVE  IF Busy(s)' THEN EntryKept(work'[s], seqOf'[s]) /\ EntryHeld(work'[s], files')
              ELSE work'[s] = NoWork
  <2>1. seqOf' = seqOf
    BY <1>4
  <2>2. CASE s # r /\ Busy(s)
    <3>1. EntryKept(work[s], seqOf[s]) /\ EntryHeld(work[s], files) /\ seqOf[s] # q
      BY <1>2, <1>7, <2>2 DEF WorkKept, Numbered
    <3>2. EntryHeld(work[s], files')
      BY <1>5, <3>1, EntryStillHeld
    <3>3. QED
      BY <1>6, <1>7, <2>1, <2>2, <3>1, <3>2
  <2>3. CASE s # r /\ ~Busy(s)
    BY <1>2, <1>6, <1>7, <2>3 DEF WorkKept
  <2>4. CASE s = r
    <3>1. EntryKept(w, q) /\ EntryHeld(w, files)
      BY <1>2, <1>7 DEF WorkKept
    <3>2. CASE bodyType = "request"
      <4>1. PartKept(w.response, w.days, q, "response") /\ HeldIn(w.response.references, files)
        BY <3>1 DEF EntryKept, EntryHeld
      <4>2. PartKept(w.response, days, q, "response")
        BY <4>1, PartMoreDays DEF days
      <4>3. HeldIn(w.response.references, files')
        <5>1. RefsAt(w.response.references, w.days, q, "response")
          BY <4>1 DEF PartKept
        <5>2. Since(files', files, on, q, "request") /\ "response" # "request"
          BY <1>5, <3>2
        <5>3. QED
          BY <4>1, <5>1, <5>2, StillHeld
      <4>4. EntryKept(w1, q) /\ EntryHeld(w1, files')
        BY <1>5, <1>6, <3>2, <4>2, <4>3 DEF EntryKept, EntryHeld
      <4>5. QED
        BY <1>7, <2>1, <2>4, <4>4
    <3>3. CASE bodyType = "response"
      <4>1. PartKept(w.request, w.days, q, "request") /\ HeldIn(w.request.references, files)
        BY <3>1 DEF EntryKept, EntryHeld
      <4>2. PartKept(w.request, days, q, "request")
        BY <4>1, PartMoreDays DEF days
      <4>3. HeldIn(w.request.references, files')
        <5>1. RefsAt(w.request.references, w.days, q, "request")
          BY <4>1 DEF PartKept
        <5>2. Since(files', files, on, q, "response") /\ "request" # "response"
          BY <1>5, <3>3
        <5>3. QED
          BY <4>1, <5>1, <5>2, StillHeld
      <4>4. EntryKept(w1, q) /\ EntryHeld(w1, files')
        BY <1>5, <1>6, <3>3, <4>2, <4>3 DEF EntryKept, EntryHeld
      <4>5. QED
        BY <1>7, <2>1, <2>4, <4>4
    <3>4. QED
      BY <3>2, <3>3
  <2>5. QED
    BY <2>2, <2>3, <2>4
<1>11. ASSUME NEW k \in DOMAIN log PROVE LoggedKept(log[k])'
  <2> DEFINE e == log[k]
  <2>1. LoggedKept(e) /\ log' = log /\ run' = run /\ seqOf' = seqOf
        /\ nextSequenceID' = nextSequenceID
    BY <1>2, <1>4 DEF LogKept
  <2>2. e \in Works
    BY <1>2, LenProperties DEF MediaTypeOK
  <2>3. e.run \in Nat /\ e.run <= run
    BY <2>1, <2>2 DEF Works, LoggedKept
  <2> HIDE DEF e
  <2>4. PICK x \in Nat : EntryKept(e, x) /\ OwnNumber(e, x)
    BY <2>1 DEF LoggedKept
  <2>5. e.run = run => x # q
    BY <1>7, <2>4 DEF OwnNumber
  <2>6. ASSUME ~Disturbed(e)' , e' = e PROVE EntryHeld(e, files')
    <3>1. active \subseteq active' /\ \A z \in on : << run, z >> \in active'
      BY <1>4
    <3>2. \A y \in active' : ~(y[1] > e.run /\ y[2] \in e.days)
      BY <2>6 DEF Disturbed
    <3>3. ~Disturbed(e)
      BY <3>1, <3>2 DEF Disturbed
    <3>4. EntryHeld(e, files)
      BY <2>1, <3>3 DEF LoggedKept
    <3>5. on \cap e.days = {} \/ x # q
      <4>1. CASE e.run = run
        BY <2>5, <4>1
      <4>2. CASE e.run # run
        <5>1. run > e.run
          BY <1>2, <2>3, <4>2
        <5>2. ASSUME NEW z \in on \cap e.days PROVE FALSE
          <6> DEFINE y == << run, z >>
          <6>1. y \in active' /\ y[1] = run /\ y[2] = z
            BY <3>1
          <6> HIDE DEF y
          <6>2. QED
            BY <3>2, <5>1, <5>2, <6>1
        <5>3. QED
          BY <5>2
      <4>3. QED
        BY <4>1, <4>2
    <3>6. QED
      BY <1>5, <2>4, <3>4, <3>5, EntryStillHeld
  <2>7. e' = e
    BY <2>1 DEF e
  <2>8. OwnNumber(e, x)'
    BY <1>7, <2>1, <2>4, <2>7 DEF OwnNumber
  <2>9. LoggedKept(e)'
    BY <2>1, <2>3, <2>4, <2>6, <2>7, <2>8 DEF LoggedKept
  <2>10. QED
    BY <2>9 DEF e
<1>12. LogKept'
  BY <1>4, <1>11 DEF LogKept
<1>13. WorkKept'
  BY <1>10 DEF WorkKept
<1>14. QED
  BY <1>8, <1>9, <1>12, <1>13 DEF MediaInv

\* A request gets its number.
LEMMA NumberStep ==
  ASSUME MediaInv, NEW r \in Requests, Number(r)
  PROVE  MediaInv'
<1> DEFINE w == [NoWork EXCEPT !.run = run]
<1>1. /\ MediaTypeOK /\ Numbered /\ WorkKept /\ LogKept
      /\ run \in Nat /\ nextSequenceID \in Nat
  BY DEF MediaInv, MediaTypeOK
<1>2. /\ stage[r] = "idle" /\ stage' = [stage EXCEPT ![r] = "numbered"]
      /\ seqOf' = [seqOf EXCEPT ![r] = nextSequenceID]
      /\ nextSequenceID' = nextSequenceID + 1
      /\ work' = [work EXCEPT ![r].run = run]
      /\ UNCHANGED << run, day, files, log, active >>
  BY DEF Number, Goto
<1>3. /\ ~Busy(r) /\ Busy(r)'
      /\ \A s \in Requests : s # r => (Busy(s)' <=> Busy(s)) /\ seqOf'[s] = seqOf[s]
                                /\ work'[s] = work[s]
      /\ seqOf'[r] = nextSequenceID
  BY <1>1, <1>2 DEF Busy, MediaTypeOK
<1>4. work'[r] = w
  <2>1. work[r] = NoWork
    BY <1>1, <1>3 DEF WorkKept
  <2>2. work'[r] = [work[r] EXCEPT !.run = run]
    BY <1>1, <1>2 DEF MediaTypeOK
  <2>3. QED
    BY <2>1, <2>2
<1>5. /\ w.run = run /\ w \in Works
      /\ EntryKept(w, nextSequenceID) /\ EntryHeld(w, files)
  <2>1. /\ w.request = NoWork.request /\ w.response = NoWork.response /\ w.days = NoWork.days
        /\ w.run = run
    BY NoWorkKept
  <2>2. w \in Works
    BY <1>1, NoWorkKept DEF Works
  <2>3. EntryKept(NoWork, nextSequenceID) /\ EntryHeld(NoWork, files)
    BY NoWorkKept
  <2> HIDE DEF w
  <2>4. QED
    BY <2>1, <2>2, <2>3 DEF EntryKept, EntryHeld
<1> HIDE DEF w
<1>6. MediaTypeOK'
  <2>1. work' \in [Requests -> Works]
    BY <1>1, <1>2, <1>3, <1>4, <1>5 DEF MediaTypeOK
  <2>2. QED
    BY <1>1, <1>2, <2>1 DEF MediaTypeOK, Stages
<1>7. Numbered'
  <2> SUFFICES ASSUME NEW s \in Requests, Busy(s)'
               PROVE  /\ seqOf'[s] < nextSequenceID' /\ work'[s].run = run'
                      /\ \A x \in Requests : Busy(x)' /\ x # s => seqOf'[x] # seqOf'[s]
    BY DEF Numbered
  <2>1. \A x \in Requests : Busy(x) => seqOf[x] < nextSequenceID /\ seqOf[x] \in Nat
    BY <1>1 DEF Numbered, MediaTypeOK
  <2>2. CASE s = r
    <3>1. \A x \in Requests : Busy(x)' /\ x # r => seqOf'[x] # nextSequenceID
      BY <1>1, <1>3, <2>1
    <3>2. QED
      BY <1>1, <1>2, <1>3, <1>4, <1>5, <2>2, <3>1
  <2>3. CASE s # r
    <3>1. Busy(s) /\ seqOf'[s] = seqOf[s] /\ work'[s] = work[s]
      BY <1>3, <2>3
    <3>2. seqOf[s] < nextSequenceID /\ work[s].run = run
          /\ \A x \in Requests : Busy(x) /\ x # s => seqOf[x] # seqOf[s]
      BY <1>1, <3>1 DEF Numbered
    <3>3. seqOf[s] < nextSequenceID' /\ seqOf'[r] # seqOf'[s]
      BY <1>1, <1>2, <1>3, <2>1, <3>1
    <3>4. \A x \in Requests : Busy(x)' /\ x # s => seqOf'[x] # seqOf'[s]
      BY <1>3, <3>1, <3>2, <3>3
    <3>5. QED
      BY <1>2, <3>1, <3>2, <3>3, <3>4
  <2>4. QED
    BY <2>2, <2>3
<1>8. WorkKept'
  <2> SUFFICES ASSUME NEW s \in Requests
               PROVE  IF Busy(s)' THEN EntryKept(work'[s], seqOf'[s]) /\ EntryHeld(work'[s], files')
                      ELSE work'[s] = NoWork
    BY DEF WorkKept
  <2>1. CASE s = r
    BY <1>2, <1>3, <1>4, <1>5, <2>1
  <2>2. CASE s # r
    BY <1>1, <1>2, <1>3, <2>2 DEF WorkKept
  <2>3. QED
    BY <2>1, <2>2
<1>9. ASSUME NEW k \in DOMAIN log PROVE LoggedKept(log[k])'
  <2> DEFINE e == log[k]
  <2>1. LoggedKept(e) /\ log' = log /\ run' = run /\ files' = files /\ active' = active
    BY <1>1, <1>2 DEF LogKept
  <2> HIDE DEF e
  <2>2. PICK x \in Nat : EntryKept(e, x) /\ OwnNumber(e, x)
    BY <2>1 DEF LoggedKept
  <2>3. e' = e
    BY <2>1 DEF e
  <2>4. OwnNumber(e, x)'
    BY <1>1, <1>2, <1>3, <2>1, <2>2, <2>3 DEF OwnNumber
  <2>5. Disturbed(e)' <=> Disturbed(e)
    BY <2>1, <2>3 DEF Disturbed
  <2>6. LoggedKept(e)'
    BY <2>1, <2>2, <2>3, <2>4, <2>5 DEF LoggedKept
  <2>7. QED
    BY <2>6 DEF e
<1>10. LogKept'
  BY <1>2, <1>9 DEF LogKept
<1>11. QED
  BY <1>6, <1>7, <1>8, <1>10 DEF MediaInv

\* The entry is recorded.
LEMMA RecordStep ==
  ASSUME MediaInv, NEW r \in Requests, Record(r)
  PROVE  MediaInv'
<1> DEFINE w == work[r]
           q == seqOf[r]
<1>1. /\ MediaTypeOK /\ Numbered /\ WorkKept /\ LogKept
      /\ run \in Nat /\ nextSequenceID \in Nat /\ w \in Works /\ q \in Nat
  BY DEF MediaInv, MediaTypeOK
<1>2. /\ stage[r] = "response" /\ stage' = [stage EXCEPT ![r] = "done"]
      /\ log' = Append(log, w)
      /\ work' = [work EXCEPT ![r] = NoWork]
      /\ UNCHANGED << run, day, nextSequenceID, seqOf, files, active >>
  BY DEF Record, Goto
<1>3. /\ Busy(r) /\ ~Busy(r)' /\ work'[r] = NoWork
      /\ \A s \in Requests : s # r => (Busy(s)' <=> Busy(s)) /\ work'[s] = work[s]
  BY <1>1, <1>2 DEF Busy, MediaTypeOK
<1>4. MediaTypeOK'
  <2>1. work' \in [Requests -> Works]
    BY <1>1, <1>2, NoWorkKept DEF MediaTypeOK
  <2>2. log' \in Seq(Works)
    <3>1. log \in Seq(Works)
      BY <1>1 DEF MediaTypeOK
    <3> HIDE DEF w
    <3>2. QED
      BY <1>1, <1>2, <3>1, AppendProperties
  <2>3. QED
    BY <1>1, <1>2, <2>1, <2>2 DEF MediaTypeOK, Stages
<1>5. Numbered'
  BY <1>1, <1>2, <1>3 DEF Numbered
<1>6. WorkKept'
  <2> SUFFICES ASSUME NEW s \in Requests
               PROVE  IF Busy(s)' THEN EntryKept(work'[s], seqOf'[s]) /\ EntryHeld(work'[s], files')
                      ELSE work'[s] = NoWork
    BY DEF WorkKept
  <2>1. CASE s = r
    BY <1>3, <2>1
  <2>2. CASE s # r
    BY <1>1, <1>2, <1>3, <2>2 DEF WorkKept
  <2>3. QED
    BY <2>1, <2>2
<1>7. ASSUME NEW k \in DOMAIN log' PROVE LoggedKept(log[k])'
  <2> DEFINE n == Len(log)
  <2>1. /\ n \in Nat /\ DOMAIN log = 1..n /\ DOMAIN log' = 1..(n + 1)
        /\ \A i \in 1..n : log'[i] = log[i]
        /\ log'[n + 1] = w
    <3>1. log \in Seq(Works)
      BY <1>1 DEF MediaTypeOK
    <3> HIDE DEF w
    <3>2. QED
      BY <1>1, <1>2, <3>1, AppendProperties, LenProperties
  <2> HIDE DEF n
  <2>2. PICK e : e = log'[k]
    OBVIOUS
  <2>3. \/ LoggedKept(e)
        \/ e = w
    BY <1>1, <1>7, <2>1, <2>2 DEF LogKept
  <2>4. PICK x \in Nat : /\ EntryKept(e, x) /\ e.run <= run
                         /\ e.run = run => /\ x < nextSequenceID
                                           /\ \A s \in Requests : Busy(s)' => seqOf[s] # x
                         /\ ~Disturbed(e) => EntryHeld(e, files)
    <3>1. CASE LoggedKept(e)
      BY <1>3, <3>1 DEF LoggedKept, OwnNumber
    <3>2. CASE e = w
      <4>1. EntryKept(w, q) /\ EntryHeld(w, files)
        BY <1>1, <1>3 DEF WorkKept
      <4>2. w.run = run /\ q < nextSequenceID /\ \A s \in Requests : Busy(s)' => seqOf[s] # q
        BY <1>1, <1>3 DEF Numbered
      <4>3. run <= run
        BY <1>1
      <4> HIDE DEF w, q
      <4>4. QED
        BY <1>1, <3>2, <4>1, <4>2, <4>3
    <3>3. QED
      BY <2>3, <3>1, <3>2
  <2>5. QED
    BY <1>2, <2>2, <2>4 DEF LoggedKept, OwnNumber, Disturbed
<1>9. LogKept'
  BY <1>7 DEF LogKept
<1>10. QED
  BY <1>4, <1>5, <1>6, <1>9 DEF MediaInv

\* The numbers start over, and the requests under way are gone.
LEMMA RestartStep ==
  ASSUME MediaInv, Restart
  PROVE  MediaInv'
<1>1. /\ MediaTypeOK /\ WorkKept /\ LogKept /\ run \in Nat
  BY DEF MediaInv, MediaTypeOK
<1>2. /\ run' = run + 1 /\ nextSequenceID' = 0
      /\ stage' = [r \in Requests |-> IF stage[r] = "idle" THEN "idle" ELSE "done"]
      /\ work' = [r \in Requests |-> NoWork]
      /\ UNCHANGED << day, seqOf, files, log, active >>
  BY DEF Restart
<1>3. \A r \in Requests : ~Busy(r)' /\ work'[r] = NoWork
  BY <1>2 DEF Busy
<1>4. MediaTypeOK'
  BY <1>1, <1>2, NoWorkKept DEF MediaTypeOK, Stages
<1>5. Numbered' /\ WorkKept'
  BY <1>3 DEF Numbered, WorkKept
<1>6. ASSUME NEW k \in DOMAIN log PROVE LoggedKept(log[k])'
  <2>1. PICK e : e = log[k]
    OBVIOUS
  <2>2. LoggedKept(e)
    BY <1>1, <2>1 DEF LogKept
  <2>3. e \in Works
    BY <1>1, <2>1, LenProperties DEF MediaTypeOK
  <2>4. e.run \in Nat /\ e.run <= run /\ (~Disturbed(e) => EntryHeld(e, files))
    BY <2>2, <2>3 DEF Works, LoggedKept
  <2>5. PICK x \in Nat : EntryKept(e, x)
    BY <2>2 DEF LoggedKept
  <2>6. e.run # run' /\ e.run <= run'
    BY <1>1, <1>2, <2>4
  <2>7. QED
    BY <1>2, <2>1, <2>4, <2>5, <2>6 DEF LoggedKept, OwnNumber, Disturbed
<1>7. LogKept'
  BY <1>2, <1>6 DEF LogKept
<1>8. QED
  BY <1>4, <1>5, <1>7 DEF MediaInv

\* When only the day changes, or nothing, everything stays as it is.
LEMMA DayStep ==
  ASSUME MediaInv, day' \in Nat,
         UNCHANGED << run, nextSequenceID, stage, seqOf, work, files, log, active >>
  PROVE  MediaInv'
<1>1. MediaTypeOK /\ Numbered /\ WorkKept /\ LogKept
  BY DEF MediaInv
<1>2. /\ run' = run /\ nextSequenceID' = nextSequenceID /\ stage' = stage /\ seqOf' = seqOf
      /\ work' = work /\ files' = files /\ log' = log /\ active' = active
  OBVIOUS
<1>3. MediaTypeOK'
  BY <1>1, <1>2 DEF MediaTypeOK
<1>4. \A r \in Requests : Busy(r)' <=> Busy(r)
  BY <1>2 DEF Busy
<1>5. Numbered'
  BY <1>1, <1>2, <1>4 DEF Numbered
<1>6. WorkKept'
  BY <1>1, <1>2, <1>4 DEF WorkKept
<1>7. ASSUME NEW k \in DOMAIN log PROVE LoggedKept(log[k])'
  <2>1. PICK e : e = log[k]
    OBVIOUS
  <2>2. LoggedKept(e)
    BY <1>1, <2>1 DEF LogKept
  <2>3. PICK x \in Nat : EntryKept(e, x) /\ OwnNumber(e, x)
    BY <2>2 DEF LoggedKept
  <2>4. QED
    BY <1>2, <1>4, <2>1, <2>2, <2>3 DEF LoggedKept, OwnNumber, Disturbed
<1>8. LogKept'
  BY <1>2, <1>7 DEF LogKept
<1>9. QED
  BY <1>3, <1>5, <1>6, <1>8 DEF MediaInv

\* Every step keeps the invariant.
LEMMA MediaStep == MediaInv /\ [Next]_vars => MediaInv'
<1> SUFFICES ASSUME MediaInv, [Next]_vars PROVE MediaInv'
  OBVIOUS
<1>1. day \in Nat
  BY DEF MediaInv, MediaTypeOK
<1>2. ASSUME NEW r \in Requests, Number(r) PROVE MediaInv'
  BY <1>2, NumberStep
<1>3. ASSUME NEW r \in Requests, ExtractRequest(r) PROVE MediaInv'
  <2>1. ExtractPart(r, "request") /\ stage[r] \in {"numbered", "request"}
        /\ stage' = [stage EXCEPT ![r] = "request"]
    BY <1>3 DEF ExtractRequest, Goto
  <2>2. QED
    BY <2>1, ExtractStep
<1>4. ASSUME NEW r \in Requests, ExtractResponse(r) PROVE MediaInv'
  <2>1. ExtractPart(r, "response") /\ stage[r] \in {"numbered", "request"}
        /\ stage' = [stage EXCEPT ![r] = "response"]
    BY <1>4 DEF ExtractResponse, Goto
  <2>2. QED
    BY <2>1, ExtractStep
<1>5. ASSUME NEW r \in Requests, Record(r) PROVE MediaInv'
  BY <1>5, RecordStep
<1>6. CASE Restart
  BY <1>6, RestartStep
<1>7. CASE Midnight
  <2>1. day' \in Nat /\ UNCHANGED << run, nextSequenceID, stage, seqOf, work, files, log, active >>
    BY <1>1, <1>7 DEF Midnight
  <2>2. QED
    BY <2>1, DayStep
<1>8. CASE UNCHANGED vars
  <2>1. day' \in Nat /\ UNCHANGED << run, nextSequenceID, stage, seqOf, work, files, log, active >>
    BY <1>1, <1>8 DEF vars
  <2>2. QED
    BY <2>1, DayStep
<1>9. QED
  BY <1>2, <1>3, <1>4, <1>5, <1>6, <1>7, <1>8 DEF Next

-----------------------------------------------------------------------------
(* Bodies come back *)

\* Each body whose images are spelled as encoders spell them can be had back
\* from its entry and the files, for any number of requests, runs and days,
\* with midnight between two images, bodies of every length with images alike,
\* too small or broken, and failing saves, unless a later run of the process
\* stored files on the same day.
THEOREM BodiesComeBack == Spec => []BodiesRestorable
<1>1. MediaInv => BodiesRestorable
  <2> SUFFICES ASSUME MediaInv, NEW k \in DOMAIN log, ~Disturbed(log[k]),
                      NEW part \in Parts(log[k]), Canonical(part.original)
               PROVE  Restored(part) = part.original
    BY DEF BodiesRestorable
  <2> DEFINE e == log[k]
  <2>1. LoggedKept(e)
    BY DEF MediaInv, LogKept
  <2>2. PICK x \in Nat : EntryKept(e, x)
    BY <2>1 DEF LoggedKept
  <2>3. EntryHeld(e, files)
    BY <2>1 DEF LoggedKept
  <2>4. PICK bodyType : PartKept(part, e.days, x, bodyType) /\ HeldIn(part.references, files)
    BY <2>2, <2>3 DEF Parts, EntryKept, EntryHeld
  <2>5. Shows(part.body, part.references, part.original)
        /\ \A n \in 1..Len(part.references) : part.references[n].placeholder = n - 1
    BY <2>4 DEF PartKept, RefsAt, RefAt
  <2>6. QED
    BY <2>4, <2>5, RestoredShows
<1>2. QED
  BY <1>1, MediaInit, MediaStep, PTL DEF Spec

-----------------------------------------------------------------------------
(* No large image stays *)

\* m begins at position p of t.
OccursAt(m, t, p) ==
  p + Len(m) - 1 <= Len(t) /\ \A n \in 1..Len(m) : t[p + n - 1] = m[n]

\* No broken image of a body begins like one of its large images.
BrokenApart(b) ==
  \A i, j \in Matches(b) :
    IsLarge(Match(b, j)) /\ Stray \in ToSet(Match(b, i)) =>
      ~OccursAt(Match(b, j), Match(b, i), 1)

\* The head at k of x has no piece, or is of an image of b that is not large.
Inline(x, b, k) ==
  \/ EndOfImage(x, k) = k
  \/ \E j \in Matches(b) : Match(x, k) = Match(b, j) /\ ~IsLarge(Match(b, j))

\* The loop has come to i.  The first d atoms of x are done, and the others are
\* those of b behind e, which is i or the end of an image that was replaced.
ThroughAt(x, b, i, e, d) ==
  /\ Len(x) = d + (Len(b) - e)
  /\ \A t \in 1..(Len(b) - e) : x[d + t] = b[e + t]
  /\ \A j \in (i + 1)..e : j \notin Matches(b)
  /\ \A k \in 1..d : x[k].kind = "head" => Inline(x, b, k)
Through(x, b, i) == \E e \in i..Len(b), d \in 0..Len(x) : ThroughAt(x, b, i, e, d)

\* Pieces up to e, and none behind it: the image ends at e.
LEMMA EndUnique ==
  ASSUME NEW A, NEW x \in Seq(A), NEW k \in 1..Len(x), NEW e \in k..Len(x),
         \A j \in (k + 1)..e : InImage(x[j]),
         e < Len(x) => ~InImage(x[e + 1])
  PROVE  EndOfImage(x, k) = e
<1> DEFINE f == EndOfImage(x, k)
<1>1. /\ f \in k..Len(x) /\ \A j \in (k + 1)..f : InImage(x[j])
      /\ f < Len(x) => ~InImage(x[f + 1])
  BY EndFound
<1>2. Len(x) \in Nat
  BY LenProperties
<1> HIDE DEF f
<1>3. ~(f < e)
  <2> SUFFICES ASSUME f < e PROVE FALSE
    OBVIOUS
  <2>1. f + 1 \in (k + 1)..e /\ f < Len(x)
    BY <1>1, <1>2
  <2>2. QED
    BY <1>1, <2>1
<1>4. ~(e < f)
  <2> SUFFICES ASSUME e < f PROVE FALSE
    OBVIOUS
  <2>1. e + 1 \in (k + 1)..f /\ e < Len(x)
    BY <1>1, <1>2
  <2>2. QED
    BY <1>1, <2>1
<1>5. f = e
  BY <1>1, <1>2, <1>3, <1>4
<1>6. QED
  BY <1>5 DEF f

\* x has at k the image that y has at j.
SameAt(x, k, y, j) ==
  LET l == EndOfImage(y, j) - j IN
  /\ k + l <= Len(x)
  /\ \A t \in 0..l : x[k + t] = y[j + t]
  /\ k + l < Len(x) => ~InImage(x[k + l + 1])

\* Then the matches are the same.
LEMMA SameImage ==
  ASSUME NEW A, NEW x \in Seq(A), NEW y \in Seq(A), NEW k \in 1..Len(x), NEW j \in 1..Len(y),
         SameAt(x, k, y, j)
  PROVE  /\ EndOfImage(x, k) - k = EndOfImage(y, j) - j
         /\ Match(x, k) = Match(y, j)
<1> DEFINE f == EndOfImage(y, j)
           l == f - j
           e == k + l
<1>1. f \in j..Len(y) /\ \A n \in (j + 1)..f : InImage(y[n])
  BY EndFound
<1>2. Len(x) \in Nat /\ Len(y) \in Nat
  BY LenProperties
<1>3. /\ k + l <= Len(x) /\ \A t \in 0..l : x[k + t] = y[j + t]
      /\ k + l < Len(x) => ~InImage(x[k + l + 1])
  BY DEF SameAt
<1> HIDE DEF f
<1>4. l \in Nat /\ e \in k..Len(x)
  BY <1>1, <1>2, <1>3
<1>5. ASSUME NEW n \in (k + 1)..e PROVE InImage(x[n])
  <2>1. n - k \in 0..l /\ k + (n - k) = n /\ j + (n - k) \in (j + 1)..f
    BY <1>1, <1>2, <1>4
  <2>2. QED
    BY <1>1, <1>3, <2>1
<1>6. EndOfImage(x, k) = e
  BY <1>3, <1>4, <1>5, EndUnique
<1>7. Match(x, k) = SubSeq(x, k, e) /\ Match(y, j) = SubSeq(y, j, f)
  BY <1>6 DEF Match, f
<1>8. /\ SubSeq(x, k, e) \in Seq(A) /\ Len(SubSeq(x, k, e)) = e - k + 1
      /\ \A n \in 1..(e - k + 1) : SubSeq(x, k, e)[n] = x[k + n - 1]
  <2>1. k \in Int /\ e \in Int /\ k <= e /\ \A n \in k..e : x[n] \in A
    BY <1>2, <1>4, LenProperties
  <2>2. QED
    BY <2>1, SubSeqProperties
<1>9. /\ SubSeq(y, j, f) \in Seq(A) /\ Len(SubSeq(y, j, f)) = f - j + 1
      /\ \A n \in 1..(f - j + 1) : SubSeq(y, j, f)[n] = y[j + n - 1]
  <2>1. j \in Int /\ f \in Int /\ j <= f /\ \A n \in j..f : y[n] \in A
    BY <1>1, <1>2, LenProperties
  <2>2. QED
    BY <2>1, SubSeqProperties
<1> DEFINE u == SubSeq(x, k, e)
           v == SubSeq(y, j, f)
<1>10. Len(u) = l + 1 /\ Len(v) = l + 1 /\ u \in Seq(A) /\ v \in Seq(A)
  BY <1>4, <1>8, <1>9
<1>11. ASSUME NEW n \in 1..(l + 1) PROVE u[n] = v[n]
  <2>1. n \in 1..(e - k + 1) /\ n \in 1..(f - j + 1)
    BY <1>4
  <2>2. u[n] = x[k + n - 1] /\ v[n] = y[j + n - 1]
    BY <1>8, <1>9, <2>1
  <2>3. n - 1 \in 0..l /\ k + (n - 1) = k + n - 1 /\ j + (n - 1) = j + n - 1
    BY <1>4
  <2>4. x[k + (n - 1)] = y[j + (n - 1)]
    BY <1>3, <2>3
  <2>5. QED
    BY <2>2, <2>3, <2>4
<1> HIDE DEF u, v, l
<1>12. u = v
  BY <1>4, <1>10, <1>11, SeqEqual
<1>13. EndOfImage(x, k) - k = l
  BY <1>4, <1>6
<1>14. Match(x, k) = Match(y, j)
  BY <1>7, <1>12 DEF u, v
<1>15. QED
  BY <1>13, <1>14 DEF l, f

\* What begins at a position is that part of the sequence.
LEMMA OccursAsPart ==
  ASSUME NEW A, NEW m \in Seq(A), NEW t \in Seq(A), NEW p \in 1..Len(t), m # << >>
  PROVE  OccursAt(m, t, p) <=>
           p + Len(m) - 1 <= Len(t) /\ m = SubSeq(t, p, p + Len(m) - 1)
<1> DEFINE e == p + Len(m) - 1
           u == SubSeq(t, p, e)
<1>1. Len(t) \in Nat /\ Len(m) \in Nat /\ Len(m) # 0
  BY LenProperties, EmptySeq
<1> SUFFICES ASSUME e <= Len(t)
             PROVE  (\A n \in 1..Len(m) : t[p + n - 1] = m[n]) <=> m = u
  BY DEF OccursAt
<1>2. u \in Seq(A) /\ Len(u) = Len(m) /\ \A n \in 1..Len(m) : u[n] = t[p + n - 1]
  <2>1. p \in Int /\ e \in Int /\ p <= e /\ e - p + 1 = Len(m)
        /\ \A n \in p..e : t[n] \in A
    BY <1>1, LenProperties
  <2> HIDE DEF e
  <2>2. /\ u \in Seq(A) /\ Len(u) = e - p + 1
        /\ \A n \in 1..(e - p + 1) : u[n] = t[p + n - 1]
    BY <2>1, SubSeqProperties
  <2>3. QED
    BY <2>1, <2>2
<1> HIDE DEF u, e
<1>3. ASSUME \A n \in 1..Len(m) : t[p + n - 1] = m[n] PROVE m = u
  BY <1>2, <1>3, SeqEqual
<1>4. QED
  BY <1>2, <1>3

\* w is u with v behind it.
Joined(A, u, v, w) ==
  /\ w \in Seq(A) /\ Len(w) = Len(u) + Len(v)
  /\ \A i \in 1..Len(u) : w[i] = u[i]
  /\ \A i \in 1..Len(v) : w[Len(u) + i] = v[i]

\* As is what \o makes of them.
LEMMA ConcatParts ==
  ASSUME NEW A, NEW u \in Seq(A), NEW v \in Seq(A)
  PROVE  Joined(A, u, v, u \o v)
<1> DEFINE w == u \o v
<1>1. Len(u) \in Nat /\ Len(v) \in Nat
  BY LenProperties
<1>2. w \in Seq(A) /\ Len(w) = Len(u) + Len(v)
  BY ConcatProperties
<1>3. \A i \in 1..(Len(u) + Len(v)) : w[i] = IF i <= Len(u) THEN u[i] ELSE v[i - Len(u)]
  BY ConcatProperties
<1> HIDE DEF w
<1>4. ASSUME NEW i \in 1..Len(v) PROVE w[Len(u) + i] = v[i]
  <2>1. Len(u) + i \in 1..(Len(u) + Len(v)) /\ ~(Len(u) + i <= Len(u))
        /\ (Len(u) + i) - Len(u) = i
    BY <1>1
  <2>2. QED
    BY <1>3, <2>1
<1>5. Joined(A, u, v, w)
  BY <1>1, <1>2, <1>3, <1>4 DEF Joined
<1>6. QED
  BY <1>5 DEF w

\* m begins at p, and nowhere before it.
FirstAt(m, t, p) == OccursAt(m, t, p) /\ \A y \in 1..(p - 1) : ~OccursAt(m, t, y)

\* x is t with an element in the place of the part at p.
OneAt(A, a, m, t, p, x) ==
  /\ x \in Seq(A) /\ Len(x) = Len(t) - Len(m) + 1
  /\ \A k \in 1..(p - 1) : x[k] = t[k]
  /\ x[p] = a
  /\ \A k \in 1..(Len(t) - (p + Len(m) - 1)) : x[p + k] = t[p + Len(m) - 1 + k]

\* The code's replacement puts it where the part begins first.
LEMMA OneForFirst ==
  ASSUME NEW A, NEW m \in Seq(A), NEW t \in Seq(A), NEW p \in 1..Len(t), m # << >>,
         FirstAt(m, t, p), NEW a \in A
  PROVE  OneAt(A, a, m, t, p, OneFor(a, m, t))
<1>0. OccursAt(m, t, p) /\ \A y \in 1..(p - 1) : ~OccursAt(m, t, y)
  BY DEF FirstAt
<1> DEFINE n == Len(t)
           l == Len(m)
           pre == SubSeq(t, 1, p - 1)
           post == SubSeq(t, p + l, n)
           one == <<a>>
           x == OneFor(a, m, t)
<1>1. n \in Nat /\ l \in Nat /\ l # 0 /\ p + l - 1 <= n /\ \A i \in 1..n : t[i] \in A
  BY <1>0, LenProperties, EmptySeq DEF OccursAt
<1>2. m \in SubSeqs(t)
  <2> DEFINE i == p - 1
             j == p + l - 1
  <2>1. i \in 0..n /\ j \in 0..n /\ m = SubSeq(t, i + 1, j)
    BY <1>0, <1>1, OccursAsPart
  <2> HIDE DEF i, j
  <2>2. QED
    BY <2>1 DEF SubSeqs
<1>3. IndexFirstSubSeq(m, t) = p
  <2>1. PICK f \in 1..Len(t) :
           /\ IndexFirstSubSeq(m, t) = f
           /\ f + Len(m) - 1 <= Len(t)
           /\ m = SubSeq(t, f, f + Len(m) - 1)
           /\ \A y \in 1..Len(t) : /\ y + Len(m) - 1 <= Len(t)
                                  /\ m = SubSeq(t, y, y + Len(m) - 1) => f <= y
    BY <1>2, FirstOccurrence
  <2>2. OccursAt(m, t, f)
    BY <2>1, OccursAsPart
  <2>3. f <= p
    <3>1. m = SubSeq(t, p, p + Len(m) - 1)
      BY <1>0, OccursAsPart
    <3>2. QED
      BY <1>1, <2>1, <3>1
  <2>4. ~(f < p)
    <3>1. f < p => f \in 1..(p - 1)
      BY <1>1
    <3>2. QED
      BY <1>0, <2>2, <3>1
  <2>5. QED
    BY <1>1, <2>1, <2>3, <2>4
<1>4. x = (pre \o one) \o post
  BY <1>2, <1>3 DEF OneFor, ReplaceFirstSubSeq, ReplaceSubSeqAt
<1>5. /\ pre \in Seq(A) /\ Len(pre) = p - 1 /\ \A i \in 1..(p - 1) : pre[i] = t[i]
  <2>1. \A i \in 1..(p - 1) : t[i] \in A
    BY <1>1
  <2>2. p - 1 \in Int /\ 1 \in Int
    BY <1>1
  <2>3. CASE p = 1
    BY <1>1, <2>3, SubSeqEmpty
  <2>4. CASE p # 1
    <3>1. 1 <= p - 1 /\ (p - 1) - 1 + 1 = p - 1 /\ \A i \in 1..(p - 1) : 1 + i - 1 = i
      BY <1>1, <2>4
    <3>2. /\ pre \in Seq(A) /\ Len(pre) = (p - 1) - 1 + 1
          /\ \A i \in 1..((p - 1) - 1 + 1) : pre[i] = t[1 + i - 1]
      BY <2>1, <2>2, <3>1, SubSeqProperties
    <3> HIDE DEF pre
    <3>3. QED
      BY <3>1, <3>2
  <2>5. QED
    BY <2>3, <2>4
<1>6. /\ post \in Seq(A) /\ Len(post) = n - (p + l) + 1
      /\ \A i \in 1..(n - (p + l) + 1) : post[i] = t[p + l + i - 1]
  <2>1. CASE p + l > n
    <3>1. post = << >> /\ n - (p + l) + 1 = 0
      BY <1>1, <2>1, SubSeqEmpty
    <3>2. QED
      BY <3>1
  <2>2. CASE p + l <= n
    <3>1. p + l \in Int /\ n \in Int /\ \A i \in (p + l)..n : t[i] \in A
      BY <1>1
    <3> DEFINE b == p + l
    <3> HIDE DEF n, l
    <3>2. QED
      BY <2>2, <3>1, SubSeqProperties
  <2>3. QED
    BY <1>1, <2>1, <2>2
<1> HIDE DEF pre, post, n, l
<1>7. one \in Seq(A) /\ Len(one) = 1 /\ one[1] = a
  OBVIOUS
<1> HIDE DEF one
<1> DEFINE po == pre \o one
<1>8. /\ po \in Seq(A) /\ Len(po) = p /\ po[p] = a
      /\ \A i \in 1..(p - 1) : po[i] = t[i]
  <2>1. Joined(A, pre, one, po)
    BY <1>5, <1>7, ConcatParts
  <2> HIDE DEF po
  <2>2. /\ po \in Seq(A) /\ Len(po) = Len(pre) + Len(one)
        /\ \A i \in 1..Len(pre) : po[i] = pre[i]
        /\ \A i \in 1..Len(one) : po[Len(pre) + i] = one[i]
    BY <2>1 DEF Joined
  <2>3. Len(po) = p /\ 1 \in 1..Len(one) /\ Len(pre) + 1 = p
    BY <1>1, <1>5, <1>7, <2>2
  <2>4. po[p] = a
    BY <1>7, <2>2, <2>3
  <2>5. \A i \in 1..(p - 1) : po[i] = t[i]
    BY <1>5, <2>2
  <2>6. QED
    BY <2>2, <2>3, <2>4, <2>5
<1> HIDE DEF po
<1>9. /\ x \in Seq(A) /\ Len(x) = Len(po) + Len(post)
      /\ \A i \in 1..Len(po) : x[i] = po[i]
      /\ \A i \in 1..Len(post) : x[Len(po) + i] = post[i]
  <2>1. Joined(A, po, post, po \o post)
    BY <1>6, <1>8, ConcatParts
  <2>2. x = po \o post
    BY <1>4 DEF po
  <2> HIDE DEF x
  <2>3. QED
    BY <2>1, <2>2 DEF Joined
<1> HIDE DEF x
<1>10. Len(x) = n - l + 1 /\ p \in 1..Len(po)
  BY <1>1, <1>6, <1>8, <1>9 DEF n
<1>11. \A k \in 1..(p - 1) : x[k] = t[k]
  <2>1. \A k \in 1..(p - 1) : k \in 1..Len(po)
    BY <1>1, <1>8
  <2>2. QED
    BY <1>8, <1>9, <2>1
<1>12. x[p] = a
  BY <1>8, <1>9, <1>10
<1>13. ASSUME NEW k \in 1..(n - (p + l - 1)) PROVE x[p + k] = t[p + l - 1 + k]
  <2>1. k \in 1..Len(post) /\ k \in 1..(n - (p + l) + 1) /\ p + l + k - 1 = p + l - 1 + k
    BY <1>1, <1>6
  <2>2. x[p + k] = post[k]
    BY <1>8, <1>9, <2>1
  <2>3. QED
    BY <1>6, <2>1, <2>2
<1>14. QED
  BY <1>9, <1>10, <1>11, <1>12, <1>13 DEF OneAt, x, n, l

\* The atoms of a match.
LEMMA MatchAtoms ==
  ASSUME NEW A, NEW x \in Seq(A), NEW k \in 1..Len(x)
  PROVE  /\ Match(x, k) \in Seq(A)
         /\ Len(Match(x, k)) = EndOfImage(x, k) - k + 1
         /\ \A n \in 1..(EndOfImage(x, k) - k + 1) : Match(x, k)[n] = x[k + n - 1]
<1> DEFINE e == EndOfImage(x, k)
<1>1. e \in k..Len(x) /\ Len(x) \in Nat
  BY EndFound, LenProperties
<1> HIDE DEF e
<1>2. k \in Int /\ e \in Int /\ \A n \in k..e : x[n] \in A
  BY <1>1, LenProperties
<1>3. /\ SubSeq(x, k, e) \in Seq(A) /\ Len(SubSeq(x, k, e)) = e - k + 1
      /\ \A n \in 1..(e - k + 1) : SubSeq(x, k, e)[n] = x[k + n - 1]
  BY <1>1, <1>2, SubSeqProperties
<1>4. QED
  BY <1>3 DEF Match, e

\* No large image begins at a head that is done.
LEMMA NotEarlier ==
  ASSUME NEW b \in Bodies, BrokenApart(b), NEW i \in Matches(b), IsLarge(Match(b, i)),
         NEW x \in Seq(Atoms), NEW y \in 1..Len(x), x[y].kind = "head" => Inline(x, b, y)
  PROVE  ~OccursAt(Match(b, i), x, y)
<1> DEFINE m == Match(b, i)
           l == EndOfImage(b, i) - i + 1
           e == EndOfImage(x, y)
           u == Match(x, y)
<1> SUFFICES ASSUME OccursAt(m, x, y) PROVE FALSE
  OBVIOUS
<1>1. /\ i \in 1..Len(b) /\ EndOfImage(b, i) \in (i + 1)..Len(b) /\ Len(m) = l
      /\ b \in Seq(PlainAtoms) /\ b[i].kind = "head" /\ Len(b) \in Nat /\ Len(x) \in Nat
  BY MatchGood, BodyTyped, LenProperties DEF Matches
<1>2. \A n \in 1..l : m[n] = b[i + n - 1]
  BY <1>1, MatchAtoms
<1>3. \A j \in (i + 1)..EndOfImage(b, i) : InImage(b[j])
  BY <1>1, EndFound
<1>4. y + l - 1 <= Len(x) /\ \A n \in 1..l : x[y + n - 1] = m[n]
  BY <1>1 DEF OccursAt
<1>5. l \in Nat /\ l >= 2
  BY <1>1
<1>6. x[y].kind = "head"
  <2>1. 1 \in 1..l /\ y + 1 - 1 = y /\ i + 1 - 1 = i
    BY <1>1, <1>5
  <2>2. x[y] = b[i]
    BY <1>2, <1>4, <2>1
  <2>3. QED
    BY <1>1, <2>2
<1>7. ASSUME NEW n \in 2..l PROVE InImage(x[y + n - 1])
  <2>1. n \in 1..l /\ i + n - 1 \in (i + 1)..EndOfImage(b, i)
    BY <1>1
  <2>2. x[y + n - 1] = b[i + n - 1]
    BY <1>2, <1>4, <2>1
  <2>3. QED
    BY <1>3, <2>1, <2>2
<1>8. e \in y..Len(x) /\ (e < Len(x) => ~InImage(x[e + 1]))
  BY EndFound
<1> HIDE DEF e, l, m, u
<1>9. e >= y + l - 1
  <2> SUFFICES ASSUME e < y + l - 1 PROVE FALSE
    BY <1>5, <1>8
  <2>1. e + 2 - y \in 2..l /\ y + (e + 2 - y) - 1 = e + 1 /\ e < Len(x)
    BY <1>1, <1>4, <1>5, <1>8
  <2>2. QED
    BY <1>7, <1>8, <2>1
<1>10. PICK j \in Matches(b) : u = Match(b, j) /\ ~IsLarge(Match(b, j))
  <2>1. e # y
    BY <1>5, <1>8, <1>9
  <2>2. QED
    BY <1>6, <2>1 DEF Inline, e, u
<1>11. Len(u) = e - y + 1 /\ \A n \in 1..(e - y + 1) : u[n] = x[y + n - 1]
  BY MatchAtoms DEF u, e
<1>12. l <= Len(u) /\ \A n \in 1..l : n \in 1..(e - y + 1) /\ 1 + n - 1 = n
  BY <1>5, <1>8, <1>9, <1>11
<1>13. OccursAt(m, u, 1)
  <2>1. \A n \in 1..l : u[1 + n - 1] = m[n]
    BY <1>4, <1>11, <1>12
  <2>2. 1 + l - 1 <= Len(u)
    BY <1>5, <1>12
  <2>3. QED
    BY <1>1, <2>1, <2>2 DEF OccursAt
<1>14. Stray \in ToSet(u)
  <2>1. l - 1 >= MinSize
    BY <1>1 DEF IsLarge, m
  <2>2. Len(u) - 1 >= MinSize
    BY <1>5, <1>8, <1>11, <1>12, <2>1, BoundsAssumption
  <2>3. QED
    BY <1>10, <2>2 DEF IsLarge
<1>15. QED
  BY <1>10, <1>13, <1>14 DEF BrokenApart, m

\* The head at k of x is done because the one at j of b is, which is the same.
LEMMA InlineThere ==
  ASSUME NEW b \in Bodies, NEW j \in 1..Len(b), b[j].kind = "head",
         j \in Matches(b) => ~IsLarge(Match(b, j)),
         NEW x \in Seq(Atoms), NEW k \in 1..Len(x), SameAt(x, k, b, j)
  PROVE  Inline(x, b, k)
<1>1. b \in Seq(Atoms) /\ DOMAIN b = 1..Len(b)
  <2>1. b \in Seq(PlainAtoms) /\ PlainAtoms \subseteq Atoms
    BY BodyTyped DEF Atoms
  <2>2. QED
    BY <2>1, SeqMonotonic, LenProperties
<1>2. /\ EndOfImage(x, k) - k = EndOfImage(b, j) - j
      /\ Match(x, k) = Match(b, j)
  BY <1>1, SameImage
<1>3. EndOfImage(x, k) \in k..Len(x) /\ EndOfImage(b, j) \in j..Len(b)
  BY <1>1, EndFound
<1>4. CASE j \in Matches(b)
  BY <1>2, <1>4 DEF Inline
<1>5. CASE j \notin Matches(b)
  <2>1. ~(EndOfImage(b, j) > j)
    BY <1>1, <1>5 DEF Matches
  <2>2. Len(x) \in Nat /\ Len(b) \in Nat
    BY <1>1, LenProperties
  <2>3. EndOfImage(x, k) = k
    BY <1>2, <1>3, <2>1, <2>2
  <2>4. QED
    BY <2>3 DEF Inline
<1>6. QED
  BY <1>4, <1>5

\* And stays done if the part behind it changes but does not become a piece.
LEMMA InlineKept ==
  ASSUME NEW b, NEW x \in Seq(Atoms), NEW y \in Seq(Atoms),
         NEW d \in Nat, d < Len(x), d < Len(y), \A n \in 1..d : y[n] = x[n],
         ~InImage(x[d + 1]), ~InImage(y[d + 1]),
         NEW k \in 1..d, Inline(x, b, k)
  PROVE  Inline(y, b, k)
<1> DEFINE e == EndOfImage(x, k)
           l == e - k
<1>1. Len(x) \in Nat /\ Len(y) \in Nat /\ k \in 1..Len(x) /\ k \in 1..Len(y)
  BY LenProperties
<1>2. /\ e \in k..Len(x) /\ \A n \in (k + 1)..e : InImage(x[n])
      /\ e < Len(x) => ~InImage(x[e + 1])
  BY <1>1, EndFound
<1> HIDE DEF e
<1>3. e <= d
  <2> SUFFICES ASSUME e > d PROVE FALSE
    BY <1>1, <1>2
  <2>1. d + 1 \in (k + 1)..e
    BY <1>1, <1>2
  <2>2. QED
    BY <1>2, <2>1
<1>4. SameAt(y, k, x, k)
  <2>1. k + l <= Len(y)
    BY <1>1, <1>2, <1>3
  <2>2. ASSUME NEW t \in 0..l PROVE y[k + t] = x[k + t]
    <3>1. k + t \in 1..d
      BY <1>1, <1>2, <1>3
    <3>2. QED
      BY <3>1
  <2>3. ~InImage(y[k + l + 1])
    <3>1. k + l + 1 = e + 1
      BY <1>1, <1>2
    <3>2. CASE e = d
      BY <3>1, <3>2
    <3>3. CASE e # d
      <4>1. e + 1 \in 1..d /\ e < Len(x)
        BY <1>1, <1>2, <1>3, <3>3
      <4>2. y[e + 1] = x[e + 1]
        BY <4>1
      <4>3. QED
        BY <1>2, <3>1, <4>1, <4>2
    <3>4. QED
      BY <3>2, <3>3
  <2>4. QED
    BY <2>1, <2>2, <2>3 DEF SameAt, e
<1>5. EndOfImage(y, k) - k = e - k /\ Match(y, k) = Match(x, k)
  BY <1>1, <1>4, SameImage DEF e
<1>6. EndOfImage(y, k) \in k..Len(y)
  BY <1>1, EndFound
<1>7. EndOfImage(y, k) = e
  BY <1>1, <1>2, <1>5, <1>6
<1>8. QED
  BY <1>5, <1>7 DEF Inline, e

\* A head that is not replaced is done as it is, as any other atom.
LEMMA ThroughOne ==
  ASSUME NEW b \in Bodies, NEW i \in 1..Len(b), i \in Matches(b) => ~IsLarge(Match(b, i)),
         NEW x \in Seq(Atoms), NEW d \in 0..Len(x), ThroughAt(x, b, i - 1, i - 1, d)
  PROVE  Through(x, b, i)
<1> DEFINE f == EndOfImage(b, i)
           l == f - i
           n == Len(b)
           c == d + 1
<1>1. n \in Nat /\ i \in 1..n /\ Len(x) \in Nat /\ d \in Nat
  BY BodyTyped, LenProperties
<1>2. /\ Len(x) = d + (n - (i - 1))
      /\ \A t \in 1..(n - (i - 1)) : x[d + t] = b[(i - 1) + t]
      /\ \A k \in 1..d : x[k].kind = "head" => Inline(x, b, k)
  BY DEF ThroughAt
<1>3. f \in i..n /\ (f < n => ~InImage(b[f + 1]))
  BY BodyTyped, EndFound
<1> HIDE DEF n, f
<1>4. c \in 0..Len(x) /\ c \in 1..Len(x) /\ Len(x) = c + (n - i) /\ i \in i..n
  BY <1>1, <1>2
<1>5. ASSUME NEW t \in 0..(n - i) PROVE x[c + t] = b[i + t]
  <2>1. t + 1 \in 1..(n - (i - 1)) /\ d + (t + 1) = c + t /\ (i - 1) + (t + 1) = i + t
    BY <1>1
  <2>2. x[d + (t + 1)] = b[(i - 1) + (t + 1)]
    BY <1>2, <2>1
  <2>3. QED
    BY <2>1, <2>2
<1>6. SameAt(x, c, b, i)
  <2>1. c + l <= Len(x)
    BY <1>1, <1>3, <1>4
  <2>2. \A t \in 0..l : t \in 0..(n - i)
    BY <1>1, <1>3
  <2>3. \A t \in 0..l : x[c + t] = b[i + t]
    BY <1>5, <2>2
  <2>4. c + l < Len(x) => ~InImage(x[c + l + 1])
    <3> SUFFICES ASSUME c + l < Len(x) PROVE ~InImage(x[c + l + 1])
      OBVIOUS
    <3>1. l + 1 \in 0..(n - i) /\ c + (l + 1) = c + l + 1 /\ i + (l + 1) = f + 1 /\ f < n
      BY <1>1, <1>2, <1>3
    <3>2. x[c + (l + 1)] = b[i + (l + 1)]
      BY <1>5, <3>1
    <3>3. QED
      BY <1>3, <3>1, <3>2
  <2> HIDE DEF c
  <2>5. QED
    BY <2>1, <2>3, <2>4 DEF SameAt, f
<1>7. x[c] = b[i]
  <2>1. 0 \in 0..(n - i) /\ c + 0 = c /\ i + 0 = i
    BY <1>1
  <2>2. x[c + 0] = b[i + 0]
    BY <1>5, <2>1
  <2>3. QED
    BY <2>1, <2>2
<1>8. ASSUME NEW k \in 1..c, x[k].kind = "head" PROVE Inline(x, b, k)
  <2>1. CASE k = c
    <3>1. b[i].kind = "head" /\ c \in 1..Len(x) /\ i \in 1..Len(b)
      BY <1>1, <1>4, <1>7, <1>8, <2>1 DEF n
    <3> HIDE DEF c
    <3>2. Inline(x, b, c)
      BY <1>6, <3>1, InlineThere
    <3>3. QED
      BY <2>1, <3>2
  <2>2. CASE k # c
    <3>1. k \in 1..d
      BY <1>1, <2>2
    <3>2. QED
      BY <1>2, <1>8, <3>1
  <2>3. QED
    BY <2>1, <2>2
<1>9. \A t \in 1..(n - i) : x[c + t] = b[i + t]
  <2>1. \A t \in 1..(n - i) : t \in 0..(n - i)
    BY <1>1
  <2>2. QED
    BY <1>5, <2>1
<1>10. \A j \in (i + 1)..i : j \notin Matches(b)
  BY <1>1
<1> HIDE DEF c
<1>11. ThroughAt(x, b, i, i, c)
  BY <1>4, <1>8, <1>9, <1>10 DEF ThroughAt, n
<1>12. QED
  BY <1>4, <1>11 DEF Through, n

\* A large image is replaced where the loop has come to, and not before.
LEMMA ThroughLarge ==
  ASSUME NEW b \in Bodies, BrokenApart(b), NEW i \in Matches(b), IsLarge(Match(b, i)),
         NEW x \in Seq(Atoms), NEW d \in 0..Len(x), ThroughAt(x, b, i - 1, i - 1, d),
         NEW a \in Atoms, a.kind = "image"
  PROVE  Through(OneFor(a, Match(b, i), x), b, i)
<1> DEFINE m == Match(b, i)
           f == EndOfImage(b, i)
           n == Len(b)
           l == f - i + 1
           p == d + 1
           y == OneFor(a, m, x)
<1>1. /\ b \in Seq(PlainAtoms) /\ b \in Seq(Atoms) /\ n \in Nat /\ i \in 1..n
      /\ Len(x) \in Nat /\ d \in Nat /\ b[i].kind = "head"
  <2>1. b \in Seq(PlainAtoms) /\ PlainAtoms \subseteq Atoms
    BY BodyTyped DEF Atoms
  <2>2. b \in Seq(Atoms) /\ DOMAIN b = 1..n
    BY <2>1, SeqMonotonic, LenProperties
  <2>3. QED
    BY <2>1, <2>2, LenProperties DEF Matches
<1>2. f \in (i + 1)..n /\ Len(m) = l /\ \A j \in (i + 1)..f : InImage(b[j])
  BY <1>1, MatchGood, EndFound
<1>3. m \in Seq(Atoms) /\ \A t \in 1..l : m[t] = b[i + t - 1]
  BY <1>1, MatchAtoms
<1>4. /\ Len(x) = d + (n - (i - 1))
      /\ \A t \in 1..(n - (i - 1)) : x[d + t] = b[(i - 1) + t]
      /\ \A k \in 1..d : x[k].kind = "head" => Inline(x, b, k)
  BY DEF ThroughAt
<1> HIDE DEF m, f, n
<1>5. p \in 1..Len(x) /\ m # << >> /\ l \in Nat /\ Len(x) = d + n - i + 1
  <2>1. l # 0 /\ l \in Nat
    BY <1>1, <1>2
  <2>2. m # << >>
    BY <1>2, <2>1
  <2>3. p \in 1..Len(x) /\ Len(x) = d + n - i + 1
    BY <1>1, <1>4
  <2>4. QED
    BY <2>1, <2>2, <2>3
<1>6. OccursAt(m, x, p)
  <2>1. p + l - 1 <= Len(x)
    BY <1>1, <1>2, <1>5
  <2>2. ASSUME NEW t \in 1..l PROVE x[p + t - 1] = m[t]
    <3>1. t \in 1..(n - (i - 1)) /\ d + t = p + t - 1 /\ (i - 1) + t = i + t - 1
      BY <1>1, <1>2
    <3>2. x[d + t] = b[(i - 1) + t]
      BY <1>4, <3>1
    <3>3. QED
      BY <1>3, <3>1, <3>2
  <2> HIDE DEF p, l
  <2>3. QED
    BY <1>2, <2>1, <2>2 DEF OccursAt
<1>7. ASSUME NEW k \in 1..(p - 1) PROVE ~OccursAt(m, x, k)
  <2>1. k \in 1..d /\ k \in 1..Len(x)
    BY <1>1, <1>5
  <2>2. x[k].kind = "head" => Inline(x, b, k)
    BY <1>4, <2>1
  <2>3. QED
    BY <2>1, <2>2, NotEarlier DEF m
<1> HIDE DEF p, y
<1>8. /\ y \in Seq(Atoms) /\ Len(y) = Len(x) - Len(m) + 1
      /\ \A k \in 1..(p - 1) : y[k] = x[k]
      /\ y[p] = a
      /\ \A k \in 1..(Len(x) - (p + Len(m) - 1)) : y[p + k] = x[p + Len(m) - 1 + k]
  <2>1. FirstAt(m, x, p)
    BY <1>6, <1>7 DEF FirstAt
  <2>2. OneAt(Atoms, a, m, x, p, OneFor(a, m, x))
    BY <1>3, <1>5, <2>1, OneForFirst
  <2>3. QED
    BY <2>2 DEF OneAt, y
<1>9. Len(y) = p + (n - f) /\ p \in 1..Len(y) /\ p \in 0..Len(y) /\ f \in i..n
  BY <1>1, <1>2, <1>5, <1>8 DEF p
<1>10. ASSUME NEW t \in 1..(n - f) PROVE y[p + t] = b[f + t]
  <2>0. Len(x) - (p + Len(m) - 1) = n - f
    <3>1. /\ p = d + 1 /\ Len(m) = f - i + 1 /\ Len(x) = d + n - i + 1
          /\ d \in Int /\ f \in Int /\ i \in Int /\ n \in Int
      BY <1>1, <1>2, <1>5 DEF p
    <3> QED
      BY <3>1
  <2>1. t \in 1..(Len(x) - (p + Len(m) - 1))
    BY <2>0
  <2>2. y[p + t] = x[p + Len(m) - 1 + t]
    BY <1>8, <2>1
  <2>3. /\ l + t \in 1..(n - (i - 1)) /\ d + (l + t) = p + Len(m) - 1 + t
        /\ (i - 1) + (l + t) = f + t
    BY <1>1, <1>2 DEF p
  <2>4. x[d + (l + t)] = b[(i - 1) + (l + t)]
    BY <1>4, <2>3
  <2>5. QED
    BY <2>2, <2>3, <2>4
<1>11. \A j \in (i + 1)..f : j \notin Matches(b)
  BY <1>2 DEF Matches, InImage
<1>12. ~InImage(x[d + 1]) /\ ~InImage(y[d + 1])
  <2>1. 1 \in 1..(n - (i - 1)) /\ (i - 1) + 1 = i
    BY <1>1
  <2>2. x[d + 1] = b[(i - 1) + 1]
    BY <1>4, <2>1
  <2>3. x[d + 1] = b[i]
    BY <2>1, <2>2
  <2>4. y[d + 1] = a
    BY <1>8 DEF p
  <2>5. QED
    BY <1>1, <2>3, <2>4 DEF InImage
<1>13. ASSUME NEW k \in 1..p, y[k].kind = "head" PROVE Inline(y, b, k)
  <2>1. k # p
    BY <1>8, <1>13
  <2>2. k \in 1..d /\ k \in 1..(p - 1)
    BY <1>1, <2>1 DEF p
  <2>3. \A t \in 1..d : y[t] = x[t]
    BY <1>1, <1>8 DEF p
  <2>4. Inline(x, b, k)
    BY <1>4, <1>13, <2>2, <2>3
  <2>5. d < Len(x) /\ d < Len(y)
    BY <1>1, <1>5, <1>9 DEF p
  <2>6. QED
    BY <1>1, <1>8, <1>12, <2>2, <2>3, <2>4, <2>5, InlineKept
<1>14. ThroughAt(y, b, i, f, p)
  BY <1>9, <1>10, <1>11, <1>13 DEF ThroughAt, n
<1>15. QED
  BY <1>9, <1>14 DEF Through, n, y, m

\* A turn of the loop, when every file can be saved.
LEMMA TurnThrough ==
  ASSUME NEW b \in Bodies, BrokenApart(b), NEW seq, NEW bodyType, NEW acc \in Accs,
         NEW dates, NEW saves \in [LargeMatches(b) -> Savings(dates)], ~Failed(saves),
         NEW i \in 1..Len(b), Through(acc.body, b, i - 1)
  PROVE  Through(Turn(b, seq, bodyType, saves, acc, i).body, b, i)
<1> DEFINE x == acc.body
           r == Turn(b, seq, bodyType, saves, acc, i)
           m == Match(b, i)
           a == Placeholder(acc.index)
<1>1. x \in Seq(Atoms) /\ acc.index \in Nat /\ Len(x) \in Nat /\ Len(b) \in Nat
  BY BodyTyped, LenProperties DEF Accs
<1>2. PICK e \in (i - 1)..Len(b) : \E d \in 0..Len(x) : ThroughAt(x, b, i - 1, e, d)
  BY DEF Through
<1>3. PICK d \in 0..Len(x) : ThroughAt(x, b, i - 1, e, d)
  BY <1>2
<1> HIDE DEF x
<1>4. CASE i <= e
  <2>1. i \in ((i - 1) + 1)..e
    BY <1>4
  <2>2. i \notin Matches(b)
    BY <1>3, <2>1 DEF ThroughAt
  <2>3. r.body = x
    BY <2>2 DEF Turn, x
  <2>4. \A j \in (i + 1)..e : j \in ((i - 1) + 1)..e
    OBVIOUS
  <2>5. ThroughAt(x, b, i, e, d)
    BY <1>3, <2>4 DEF ThroughAt
  <2>6. e \in i..Len(b)
    BY <1>1, <1>4
  <2>7. QED
    BY <2>3, <2>5, <2>6 DEF Through
<1>5. CASE ~(i <= e)
  <2>1. e = i - 1
    BY <1>1, <1>5
  <2>2. ThroughAt(x, b, i - 1, i - 1, d)
    BY <1>3, <2>1
  <2>3. CASE i \in Matches(b) => ~IsLarge(m)
    <3>1. r = acc
      <4>1. CASE i \in Matches(b)
        <5>1. Len(m) - 1 \in Nat /\ MinSize \in Nat
          BY <4>1, MatchGood, BoundsAssumption
        <5>2. Len(m) - 1 < MinSize \/ Stray \in ToSet(m)
          BY <2>3, <4>1, <5>1 DEF IsLarge
        <5>3. QED
          BY <4>1, <5>2 DEF Turn, Extract
      <4>2. CASE i \notin Matches(b)
        BY <4>2 DEF Turn
      <4>3. QED
        BY <4>1, <4>2
    <3>2. Through(x, b, i)
      BY <1>1, <2>2, <2>3, ThroughOne
    <3>3. QED
      BY <3>1, <3>2 DEF x
  <2>4. CASE i \in Matches(b) /\ IsLarge(m)
    <3>1. a \in Atoms /\ a.kind = "image"
      BY <1>1, AtomKinds
    <3>2. r.body = OneFor(a, m, x)
      <4>1. saves[i].how = "done"
        BY <2>4 DEF Failed, Failures, LargeMatches
      <4>2. Len(m) - 1 \in Nat /\ MinSize \in Nat
        BY <2>4, MatchGood, BoundsAssumption
      <4>3. ~(Len(m) - 1 < MinSize) /\ Stray \notin ToSet(m)
        BY <2>4, <4>2 DEF IsLarge
      <4>4. QED
        BY <2>4, <4>1, <4>3 DEF Turn, Extract, OneFor, x
    <3> HIDE DEF a
    <3>3. Through(OneFor(a, m, x), b, i)
      BY <1>1, <2>2, <2>4, <3>1, ThroughLarge
    <3>4. QED
      BY <3>2, <3>3
  <2>5. QED
    BY <2>3, <2>4
<1>6. QED
  BY <1>4, <1>5

\* When the loop has come to the end no large image is in the body.
LEMMA ThroughAll ==
  ASSUME NEW b \in Bodies, NEW x \in Seq(Atoms), Through(x, b, Len(b))
  PROVE  LargeMatches(x) = {}
<1>1. Len(b) \in Nat /\ Len(x) \in Nat /\ DOMAIN x = 1..Len(x)
  BY BodyTyped, LenProperties
<1>2. PICK e \in Len(b)..Len(b) : \E d \in 0..Len(x) : ThroughAt(x, b, Len(b), e, d)
  BY DEF Through
<1>3. PICK d \in 0..Len(x) : ThroughAt(x, b, Len(b), e, d)
  BY <1>2
<1>4. d = Len(x)
  BY <1>1, <1>2, <1>3 DEF ThroughAt
<1>5. ASSUME NEW k \in LargeMatches(x) PROVE FALSE
  <2>1. k \in 1..d /\ x[k].kind = "head" /\ EndOfImage(x, k) > k /\ IsLarge(Match(x, k))
    BY <1>1, <1>4 DEF LargeMatches, Matches
  <2>2. Inline(x, b, k)
    BY <1>3, <2>1 DEF ThroughAt
  <2>3. EndOfImage(x, k) # k
    BY <2>1
  <2>4. QED
    BY <2>1, <2>2, <2>3 DEF Inline
<1>6. QED
  BY <1>5

\* ExtractFromBody leaves no large image, when every file can be saved.
LEMMA ExtractsLarge ==
  ASSUME files \in FileSets, NEW seq \in Nat,
         NEW bodyType \in {"request", "response"}, NEW b \in Bodies, BrokenApart(b),
         NEW dates, NEW saves \in [LargeMatches(b) -> Savings(dates)], ~Failed(saves),
         NEW days, SavedOn(b, saves, days)
  PROVE  LargeMatches(ExtractFromBody(b, seq, bodyType, saves).body) = {}
<1> DEFINE V == SoundAccs(b, days, seq, bodyType)
           n == Len(b)
<1>1. PICK c : Turns(c, V, b, seq, bodyType, saves)
  BY SoundTurns
<1>2. V \subseteq Accs /\ n \in Nat /\ b \in Seq(Atoms)
  <2>1. b \in Seq(PlainAtoms) /\ PlainAtoms \subseteq Atoms
    BY BodyTyped DEF Atoms
  <2>2. QED
    BY <2>1, SeqMonotonic, LenProperties DEF SoundAccs
<1> HIDE DEF V
<1>3. /\ \A i \in 0..n : c[i] \in Accs
      /\ c[0] = Start(b) /\ \A i \in 1..n : c[i] = Turn(b, seq, bodyType, saves, c[i - 1], i)
      /\ c[n] = ExtractFromBody(b, seq, bodyType, saves)
  BY <1>1, <1>2 DEF Turns
<1> DEFINE S == {i \in 0..n : Through(c[i].body, b, i)}
<1>4. 0 \in S
  <2>1. c[0].body = b
    BY <1>3 DEF Start
  <2>2. ThroughAt(b, b, 0, 0, 0)
    <3>1. Len(b) = 0 + (Len(b) - 0)
      BY <1>2
    <3>2. \A t \in 1..(Len(b) - 0) : b[0 + t] = b[0 + t]
      OBVIOUS
    <3>3. \A j \in (0 + 1)..0 : j \notin Matches(b)
      OBVIOUS
    <3>4. \A k \in 1..0 : b[k].kind = "head" => Inline(b, b, k)
      OBVIOUS
    <3>5. QED
      BY <3>1, <3>2, <3>3, <3>4 DEF ThroughAt
  <2>3. 0 \in 0..Len(b)
    BY <1>2
  <2>4. Through(b, b, 0)
    BY <2>2, <2>3 DEF Through
  <2>5. QED
    BY <2>1, <2>3, <2>4
<1>5. ASSUME NEW i \in 1..n, i - 1 \in S PROVE i \in S
  <2>1. Through(c[i - 1].body, b, i - 1) /\ c[i - 1] \in Accs
    BY <1>3, <1>5
  <2>2. Through(Turn(b, seq, bodyType, saves, c[i - 1], i).body, b, i)
    BY <2>1, TurnThrough
  <2>3. QED
    BY <1>3, <2>2
<1> HIDE DEF S, n
<1>6. n \in S
  <2>1. \A i \in 0..n : i \in S
    BY <1>2, <1>4, <1>5, ScanInduction, Zenon
  <2>2. QED
    BY <1>2, <2>1
<1>7. Through(c[n].body, b, n) /\ c[n].body \in Seq(Atoms)
  BY <1>2, <1>3, <1>6 DEF S, Accs
<1>8. QED
  BY <1>3, <1>7, ThroughAll DEF n

\* No entry without failures has a large image, under way or recorded.
NothingLarge(e) == ~e.failed => \A part \in Parts(e) : LargeMatches(part.body) = {}
LargeInv ==
  /\ \A r \in Requests : NothingLarge(work[r])
  /\ \A k \in DOMAIN log : NothingLarge(log[k])

\* There is none in an entry nothing was extracted of yet.
LEMMA NoneInNoWork == \A n : NothingLarge([NoWork EXCEPT !.run = n]) /\ NothingLarge(NoWork)
<1>1. LargeMatches(<< >>) = {}
  BY DEF LargeMatches, Matches
<1>2. Part.body = << >>
  BY DEF Part
<1>3. \A n : LET w == [NoWork EXCEPT !.run = n] IN w.request = Part /\ w.response = Part
  BY DEF NoWork
<1>4. NoWork.request = Part /\ NoWork.response = Part
  BY DEF NoWork
<1>5. QED
  BY <1>1, <1>2, <1>3, <1>4 DEF NothingLarge, Parts

\* A part is extracted.
LEMMA ExtractLarge ==
  ASSUME MediaInv, LargeInv, \A b \in Bodies : BrokenApart(b), NEW r \in Requests,
         NEW bodyType \in {"request", "response"}, ExtractPart(r, bodyType)
  PROVE  LargeInv'
<1> DEFINE q == seqOf[r]
           w == work[r]
           w1 == work'[r]
<1>a. PICK body \in Bodies : \E now, saves : Extracted(r, bodyType, body, now, saves)
  BY ExtractedSome
<1>1. PICK now, saves : Extracted(r, bodyType, body, now, saves)
  BY <1>a
<1> DEFINE result == ExtractFromBody(body, q, bodyType, saves)
           part == [original |-> body, body |-> result.body, references |-> result.references]
           days == w.days \cup Dates(body, saves)
           fl == w.failed \/ Failed(saves)
           new == [[[w EXCEPT ![bodyType] = part] EXCEPT !.failed = fl] EXCEPT !.days = days]
<1>2. /\ work \in [Requests -> Works] /\ w \in Works /\ q \in Nat /\ day \in Nat
      /\ files \in FileSets
  BY DEF MediaInv, MediaTypeOK
<1>3. ~Failed(saves) => LargeMatches(result.body) = {}
  <2>1. SavedOn(body, saves, Dates(body, saves))
    BY <1>1, <1>2, DatesTyped
  <2>2. saves \in [LargeMatches(body) -> Savings(day..now)]
    BY <1>1 DEF Extracted
  <2>3. QED
    BY <1>2, <2>1, <2>2, ExtractsLarge
<1> HIDE DEF result
<1>4. part.body = result.body
  OBVIOUS
<1>5. log' = log /\ work' = [work EXCEPT ![r] = new]
  <2>1. /\ work' = [work EXCEPT ![r][bodyType] = part,
                                ![r].failed = @ \/ Failed(saves), ![r].days = @ \cup Dates(body, saves)]
        /\ log' = log
    BY <1>1 DEF result, Extracted
  <2> HIDE DEF part
  <2>2. QED
    BY <1>2, <2>1 DEF Works
<1> HIDE DEF part, days, fl
<1>6. /\ new.failed = fl
      /\ bodyType = "request" => new.request = part /\ new.response = w.response
      /\ bodyType = "response" => new.response = part /\ new.request = w.request
  <2> HIDE DEF w
  <2>1. CASE bodyType = "request"
    BY <1>2, <2>1 DEF Works
  <2>2. CASE bodyType = "response"
    BY <1>2, <2>2 DEF Works
  <2>3. QED
    BY <2>1, <2>2
<1> HIDE DEF new
<1>7. NothingLarge(new)
  <2> SUFFICES ASSUME ~new.failed PROVE \A p \in Parts(new) : LargeMatches(p.body) = {}
    BY DEF NothingLarge
  <2>1. ~w.failed /\ ~Failed(saves)
    BY <1>6 DEF fl
  <2>2. LargeMatches(w.request.body) = {} /\ LargeMatches(w.response.body) = {}
    BY <2>1 DEF LargeInv, NothingLarge, Parts
  <2>3. LargeMatches(part.body) = {}
    BY <1>3, <1>4, <2>1
  <2>4. QED
    BY <1>6, <2>2, <2>3 DEF Parts
<1>8. \A s \in Requests : work'[s] = IF s = r THEN new ELSE work[s]
  BY <1>2, <1>5
<1>9. QED
  BY <1>5, <1>7, <1>8 DEF LargeInv

\* Every step keeps them away.
LEMMA LargeStep ==
  ASSUME \A b \in Bodies : BrokenApart(b)
  PROVE  MediaInv /\ LargeInv /\ [Next]_vars => LargeInv'
<1> SUFFICES ASSUME MediaInv, LargeInv, [Next]_vars PROVE LargeInv'
  OBVIOUS
<1>1. work \in [Requests -> Works] /\ log \in Seq(Works)
  BY DEF MediaInv, MediaTypeOK
<1>2. ASSUME NEW r \in Requests, Number(r) PROVE LargeInv'
  <2>1. log' = log /\ work' = [work EXCEPT ![r].run = run] /\ stage[r] = "idle"
    BY <1>2 DEF Number, Goto
  <2>2. work[r] = NoWork
    BY <2>1 DEF MediaInv, WorkKept, Busy
  <2>3. \A s \in Requests : work'[s] = IF s = r THEN [NoWork EXCEPT !.run = run] ELSE work[s]
    BY <1>1, <2>1, <2>2
  <2>4. QED
    BY <2>1, <2>3, NoneInNoWork DEF LargeInv
<1>3. ASSUME NEW r \in Requests, ExtractRequest(r) \/ ExtractResponse(r) PROVE LargeInv'
  BY <1>3, ExtractLarge DEF ExtractRequest, ExtractResponse
<1>4. ASSUME NEW r \in Requests, Record(r) PROVE LargeInv'
  <2> DEFINE n == Len(log)
             w == work[r]
  <2>1. log' = Append(log, w) /\ work' = [work EXCEPT ![r] = NoWork]
    BY <1>4 DEF Record
  <2>2. w \in Works /\ NothingLarge(w)
    BY <1>1 DEF LargeInv
  <2> HIDE DEF w
  <2>3. /\ n \in Nat /\ DOMAIN log = 1..n /\ DOMAIN log' = 1..(n + 1)
        /\ \A i \in 1..n : log'[i] = log[i]
        /\ log'[n + 1] = w
    BY <1>1, <2>1, <2>2, AppendProperties, LenProperties
  <2> HIDE DEF n
  <2>4. ASSUME NEW k \in DOMAIN log' PROVE NothingLarge(log'[k])
    BY <2>2, <2>3, <2>4 DEF LargeInv
  <2>5. \A s \in Requests : work'[s] = IF s = r THEN NoWork ELSE work[s]
    BY <1>1, <2>1
  <2>6. QED
    BY <2>4, <2>5, NoneInNoWork DEF LargeInv
<1>5. CASE Restart
  <2>1. log' = log /\ \A r \in Requests : work'[r] = NoWork
    BY <1>5 DEF Restart
  <2>2. QED
    BY <2>1, NoneInNoWork DEF LargeInv
<1>6. CASE UNCHANGED << work, log >>
  BY <1>6 DEF LargeInv
<1>7. QED
  BY <1>2, <1>3, <1>4, <1>5, <1>6 DEF Next, Midnight, vars

\* Whatever images a body has, and however many alike, no large one stays in an
\* entry whose files could be saved, unless a broken one begins like it: then
\* the replacement hits the broken one.
THEOREM LargeImagesLeave ==
  ASSUME \A b \in Bodies : BrokenApart(b)
  PROVE  Spec => []LargeExtracted
<1>1. Init => LargeInv
  <2> SUFFICES ASSUME Init PROVE LargeInv
    OBVIOUS
  <2>1. work = [r \in Requests |-> NoWork] /\ log = << >>
    BY DEF Init
  <2>2. DOMAIN log = {} /\ \A r \in Requests : work[r] = NoWork
    BY <2>1
  <2>3. QED
    BY <2>2, NoneInNoWork DEF LargeInv
<1>2. MediaInv /\ LargeInv /\ [Next]_vars => LargeInv'
  BY LargeStep
<1>3. LargeInv => LargeExtracted
  BY DEF LargeInv, NothingLarge, LargeExtracted
<1>4. QED
  BY <1>1, <1>2, <1>3, MediaInit, MediaStep, PTL DEF Spec
=============================================================================
