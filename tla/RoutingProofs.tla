--------------------------- MODULE RoutingProofs -----------------------------
(***************************************************************************)
(* Requests go to the endpoint their path names, and keep the rest of the  *)
(* path, whatever endpoints and paths there are.                           *)
(***************************************************************************)
EXTENDS Routing, FoldTheorems

-----------------------------------------------------------------------------
(* Ends of sequences *)

\* A sequence with a last element is its front and that element.
LEMMA FrontLast ==
  ASSUME NEW S, NEW s \in Seq(S), s # << >>
  PROVE  Front(s) \in Seq(S) /\ Last(s) \in S /\ s = Append(Front(s), Last(s))
<1>1. Len(s) \in 1..Len(s) /\ SubSeq(s, 1, Len(s)) = s
  BY SubSeqFull, EmptySeq, LenProperties
<1>2. QED
  BY <1>1, PrefixStep DEF Front, Last

\* The front and the last of an appended sequence.
LEMMA FrontLastAppend ==
  ASSUME NEW S, NEW s \in Seq(S), NEW x \in S
  PROVE  Front(Append(s, x)) = s /\ Last(Append(s, x)) = x
<1>1. /\ Append(s, x) \in Seq(S) /\ Len(Append(s, x)) = Len(s) + 1 /\ Len(s) \in Nat
      /\ \A i \in 1..Len(s) : Append(s, x)[i] = s[i]
      /\ Append(s, x)[Len(s) + 1] = x
  BY AppendProperties, LenProperties
<1>2. Front(Append(s, x)) = SubSeq(Append(s, x), 1, Len(s))
  BY <1>1 DEF Front
<1>3. /\ SubSeq(Append(s, x), 1, Len(s)) \in Seq(S)
      /\ Len(SubSeq(Append(s, x), 1, Len(s))) = Len(s)
      /\ \A i \in 1..Len(s) : SubSeq(Append(s, x), 1, Len(s))[i] = s[i]
  BY <1>1
<1>4. SubSeq(Append(s, x), 1, Len(s)) = s
  BY <1>3, SeqEqual
<1>5. QED
  BY <1>1, <1>2, <1>4 DEF Last

\* Appending comes behind whatever is in front.
LEMMA ConcatAppend ==
  ASSUME NEW S, NEW r \in Seq(S), NEW s \in Seq(S), NEW x \in S
  PROVE  r \o Append(s, x) = Append(r \o s, x)
<1>1. <<x>> \in Seq(S) /\ r \o s \in Seq(S)
  BY ConcatProperties
<1>2. r \o (s \o <<x>>) = (r \o s) \o <<x>>
  BY <1>1, ConcatAssociative
<1>3. QED
  BY <1>1, <1>2, AppendIsConcat

-----------------------------------------------------------------------------
(* The pieces between slashes *)

NoPath == << >>
After(f, l, t) == IF t = "/" THEN Append(Append(f, l), NoPath) ELSE Append(f, Append(l, t))
Pieces(T) == {ss \in Seq(Seq(T)) : ss # << >>}
One == << << >> >>
TokenStep(T) == [x \in Pieces(T) \X T |-> NextToken(x[1], x[2])]

\* What the next token does to the pieces: a slash begins a piece, another
\* token goes on with the last one.
LEMMA NextTokenAppend ==
  ASSUME NEW T, NEW f \in Seq(Seq(T)), NEW l \in Seq(T), NEW t \in T
  PROVE  After(f, l, t) \in Pieces(T) /\ NextToken(Append(f, l), t) = After(f, l, t)
<1> DEFINE ST == Seq(T)
<1>1. Front(Append(f, l)) = f /\ Last(Append(f, l)) = l
  BY FrontLastAppend
<1>2. << >> \in ST /\ Append(l, t) \in ST
  BY AppendProperties
<1>3. f \in Seq(ST) /\ l \in ST
  OBVIOUS
<1> DEFINE none == NoPath
<1>4. none \in ST
  BY <1>2 DEF NoPath
<1> HIDE DEF ST, none
<1>5. /\ Append(f, l) \in Seq(ST) /\ Append(f, l) # << >>
      /\ Append(Append(f, l), none) \in Seq(ST) /\ Append(Append(f, l), none) # << >>
      /\ Append(f, Append(l, t)) \in Seq(ST) /\ Append(f, Append(l, t)) # << >>
  <2>1. Append(f, l) \in Seq(ST) /\ Append(f, l) # << >>
    BY <1>3, AppendProperties
  <2>2. Append(Append(f, l), none) \in Seq(ST) /\ Append(Append(f, l), none) # << >>
    BY <1>4, <2>1, AppendProperties
  <2>3. Append(f, Append(l, t)) \in Seq(ST) /\ Append(f, Append(l, t)) # << >>
    BY <1>2, <1>3, AppendProperties
  <2>4. QED
    BY <2>1, <2>2, <2>3
<1>6. NextToken(Append(f, l), t) = After(f, l, t)
  BY <1>1 DEF NextToken, After, NoPath
<1>7. After(f, l, t) \in Pieces(T)
  BY <1>5 DEF Pieces, ST, After, none
<1>8. QED
  BY <1>6, <1>7

\* Pieces stay pieces.
LEMMA TokenTyped ==
  ASSUME NEW T
  PROVE  TokenStep(T) \in [Pieces(T) \X T -> Pieces(T)]
<1>1. ASSUME NEW ss \in Pieces(T), NEW t \in T PROVE NextToken(ss, t) \in Pieces(T)
  <2>1. ss \in Seq(Seq(T)) /\ ss # << >>
    BY DEF Pieces
  <2>2. Front(ss) \in Seq(Seq(T)) /\ Last(ss) \in Seq(T) /\ ss = Append(Front(ss), Last(ss))
    BY <2>1, FrontLast
  <2>3. QED
    BY <2>2, NextTokenAppend
<1>2. QED
  BY <1>1 DEF TokenStep

\* No path is one empty piece.
LEMMA OneTyped ==
  ASSUME NEW T
  PROVE  One \in Pieces(T)
<1> DEFINE ST == Seq(T)
           none == << >>
<1>1. none \in ST
  OBVIOUS
<1> HIDE DEF ST, none
<1>2. <<none>> \in Seq(ST) /\ <<none>> # << >>
  BY <1>1
<1>3. QED
  BY <1>2 DEF One, Pieces, ST, none

\* Going through a path is the fold of its step.
LEMMA SegmentsFolded ==
  ASSUME NEW T, NEW path \in Seq(T)
  PROVE  Segments(path) = Folded(TokenStep(T), One, path)
<1> DEFINE n == Len(path)
           V == Pieces(T)
           step == TokenStep(T)
           Eq(g) == g = [t \in SUBSET DOMAIN path |->
                           IF t = {} THEN One ELSE NextToken(g[t \ {Max(t)}], path[Max(t)])]
           it == CHOOSE g : Eq(g)
<1>1. n \in Nat /\ DOMAIN path = 1..n /\ \A i \in 1..n : path[i] \in T
  BY LenProperties
<1>2. Segments(path) = it[DOMAIN path]
  BY Zenon DEF Segments, FoldLeft, MapThenFoldSet, One
<1>3. step \in [V \X T -> V]
  BY TokenTyped
<1>4. One \in V
  BY OneTyped
<1>5. \A v \in V, t \in T : step[<<v, t>>] = NextToken(v, t)
  BY DEF TokenStep
<1> HIDE DEF step, V
<1>6. Foldable(V, T, One, step, path)
  BY <1>3, <1>4 DEF Foldable
<1> PICK h \in [SUBSET (1..n) -> V] : Chosen(h, One, step, path)
  BY <1>6, FoldChoice, Zenon
<1> HIDE DEF n
<1>7. ASSUME NEW t \in SUBSET (1..n), t # {}
      PROVE  /\ Max(t) \in 1..n /\ path[Max(t)] \in T
             /\ h[t] = NextToken(h[t \ {Max(t)}], path[Max(t)])
  <2>1. Max(t) \in 1..n /\ h[t] = step[<<h[t \ {Max(t)}], path[Max(t)]>>]
    BY <1>7 DEF Chosen, n
  <2>2. h[t \ {Max(t)}] \in V
    OBVIOUS
  <2>3. QED
    BY <1>1, <1>5, <2>1, <2>2
<1>8. Eq(h)
  <2>1. h[{}] = One
    BY DEF Chosen
  <2>2. QED
    BY <1>1, <1>7, <2>1
<1>9. Eq(it)
  <2> HIDE DEF Eq
  <2> QED
    BY <1>8
<1> HIDE DEF it
<1>10. it[{}] = One
  BY <1>1, <1>9
<1>11. ASSUME NEW t \in SUBSET (1..n), t # {}, it[t \ {Max(t)}] \in V
       PROVE  it[t] = step[<<it[t \ {Max(t)}], path[Max(t)]>>]
  <2>1. it[t] = NextToken(it[t \ {Max(t)}], path[Max(t)])
    BY <1>1, <1>9, <1>11
  <2>2. QED
    BY <1>5, <1>7, <1>11, <2>1
<1>12. ChosenIn(it, V, One, step, path)
  BY <1>10, <1>11 DEF ChosenIn, n
<1>13. it[1..Len(path)] = Folded(step, One, path)
  BY <1>6, <1>12, FoldIsFolded
<1>14. QED
  BY <1>1, <1>2, <1>13 DEF step, n

\* The pieces of no path, and of a path with a token more.
LEMMA SegmentsAppend ==
  ASSUME NEW T, NEW path \in Seq(T)
  PROVE  /\ Segments(path) \in Seq(Seq(T)) /\ Segments(path) # << >>
         /\ Segments(<< >>) = << << >> >>
         /\ \A t \in T : Segments(Append(path, t)) = NextToken(Segments(path), t)
<1> DEFINE V == Pieces(T)
           step == TokenStep(T)
<1>1. step \in [V \X T -> V]
  BY TokenTyped
<1>2. One \in V
  BY OneTyped
<1>3. \A v \in V, t \in T : step[<<v, t>>] = NextToken(v, t)
  BY DEF TokenStep
<1>4. \A p \in Seq(T) : Segments(p) = Folded(step, One, p)
  BY SegmentsFolded
<1>5. Foldable(V, T, One, step, path)
  <2> HIDE DEF V, step
  <2> QED
    BY <1>1, <1>2 DEF Foldable
<1> HIDE DEF step
<1>6. /\ Folded(step, One, path) \in V /\ Folded(step, One, << >>) = One
      /\ \A t \in T : Folded(step, One, Append(path, t)) = step[<<Folded(step, One, path), t>>]
  <2> HIDE DEF V
  <2> QED
    BY <1>5, FoldedAppend
<1>7. ASSUME NEW t \in T PROVE Segments(Append(path, t)) = NextToken(Segments(path), t)
  <2>1. Append(path, t) \in Seq(T)
    BY AppendProperties
  <2> HIDE DEF V
  <2>2. QED
    BY <1>3, <1>4, <1>6, <2>1
<1>8. Segments(<< >>) = One
  <2>1. << >> \in Seq(T)
    OBVIOUS
  <2>2. QED
    BY <1>4, <1>6, <2>1
<1>9. Segments(path) \in V
  BY <1>4, <1>6
<1>10. Segments(path) \in Seq(Seq(T)) /\ Segments(path) # << >>
  BY <1>9 DEF Pieces
<1>11. QED
  BY <1>7, <1>8, <1>10 DEF One

-----------------------------------------------------------------------------
(* Where a path is cut *)

\* Pieces in front stay what they are.
LEMMA TokenBehind ==
  ASSUME NEW T, NEW r \in Seq(Seq(T)), NEW s \in Pieces(T), NEW t \in T
  PROVE  NextToken(r \o s, t) = r \o NextToken(s, t)
<1> DEFINE ST == Seq(T)
           fs == Front(s)
           ls == Last(s)
           none == NoPath
<1>1. fs \in Seq(ST) /\ ls \in ST /\ s = Append(fs, ls)
  BY FrontLast DEF Pieces
<1>2. none \in ST /\ Append(ls, t) \in ST
  BY <1>1, AppendProperties DEF NoPath
<1>3. r \in Seq(ST) /\ r \o fs \in Seq(ST)
  <2>1. r \in Seq(ST)
    OBVIOUS
  <2> HIDE DEF ST, fs
  <2>2. QED
    BY <1>1, <2>1, ConcatProperties
<1> HIDE DEF fs, ls
<1>4. /\ NextToken(s, t) = IF t = "/" THEN Append(s, none) ELSE Append(fs, Append(ls, t))
      /\ NextToken(Append(r \o fs, ls), t)
           = IF t = "/" THEN Append(Append(r \o fs, ls), none) ELSE Append(r \o fs, Append(ls, t))
  <2> DEFINE rfs == r \o fs
  <2>1. rfs \in Seq(Seq(T)) /\ fs \in Seq(Seq(T)) /\ ls \in Seq(T)
    BY <1>1, <1>3
  <2> HIDE DEF rfs
  <2>2. NextToken(Append(fs, ls), t) = After(fs, ls, t)
    BY <2>1, NextTokenAppend
  <2>3. NextToken(Append(rfs, ls), t) = After(rfs, ls, t)
    BY <2>1, NextTokenAppend
  <2>4. QED
    BY <1>1, <2>2, <2>3 DEF rfs, After
<1> HIDE DEF none, ST
<1>5. r \o s = Append(r \o fs, ls)
  BY <1>1, <1>3, ConcatAppend
<1>6. s \in Seq(ST)
  BY <1>1, AppendProperties
<1>7. r \o Append(s, none) = Append(r \o s, none)
  BY <1>2, <1>3, <1>6, ConcatAppend
<1>8. r \o Append(fs, Append(ls, t)) = Append(r \o fs, Append(ls, t))
  BY <1>1, <1>2, <1>3, ConcatAppend
<1>9. QED
  BY <1>4, <1>5, <1>7, <1>8

\* A slash separates the pieces in front of it from those behind it.
LEMMA SegmentsCut ==
  ASSUME NEW T, "/" \in T, NEW a \in Seq(T), NEW b \in Seq(T)
  PROVE  Segments(a \o (<<"/">> \o b)) = Segments(a) \o Segments(b)
<1> DEFINE n == Len(b)
           upTo(i) == SubSeq(b, 1, i)
           slash == <<"/">>
           d == Append(a, "/")
           P(i) == Segments(d \o upTo(i)) = Segments(a) \o Segments(upTo(i))
           S == {i \in 0..n : P(i)}
<1>1. n \in Nat /\ upTo(n) = b
  BY LenProperties, SubSeqFull
<1>2. d \in Seq(T) /\ slash \in Seq(T)
  BY AppendProperties
<1>3. d \o b = a \o (slash \o b)
  <2>1. d = a \o slash
    BY AppendIsConcat
  <2> HIDE DEF d, slash
  <2>2. QED
    BY <1>2, <2>1, ConcatAssociative
<1>4. \A p \in Seq(T) : Segments(p) \in Pieces(T) /\ Segments(p) \in Seq(Seq(T))
  BY SegmentsAppend DEF Pieces
<1>5. P(0)
  <2>1. upTo(0) = << >> /\ d \o << >> = d
    BY <1>2, SubSeqEmpty, ConcatEmptySeq
  <2>2. Segments(d) = NextToken(Segments(a), "/")
    BY SegmentsAppend
  <2> DEFINE none == << >>
             ST == Seq(T)
  <2>3. NextToken(Segments(a), "/") = Append(Segments(a), none)
    BY DEF NextToken
  <2>4. Segments(<< >>) = <<none>>
    BY SegmentsAppend
  <2>5. none \in ST /\ Segments(a) \in Seq(ST)
    BY <1>4
  <2>6. Append(Segments(a), none) = Segments(a) \o <<none>>
    <3> HIDE DEF none, ST
    <3> QED
      BY <2>5, AppendIsConcat
  <2>7. QED
    BY <2>1, <2>2, <2>3, <2>4, <2>6
<1>6. ASSUME NEW i \in 1..n, P(i - 1) PROVE P(i)
  <2>1. upTo(i - 1) \in Seq(T) /\ b[i] \in T /\ upTo(i) = Append(upTo(i - 1), b[i])
    BY PrefixStep
  <2> DEFINE p == upTo(i - 1)
  <2> HIDE DEF d, p, n
  <2>2. p \in Seq(T) /\ upTo(i) = Append(p, b[i]) /\ d \o p \in Seq(T)
    BY <1>2, <2>1, ConcatProperties DEF p
  <2>3. d \o upTo(i) = Append(d \o p, b[i])
    <3>1. d \o Append(p, b[i]) = Append(d \o p, b[i])
      BY <1>2, <2>1, <2>2, ConcatAppend
    <3>2. QED
      BY <2>2, <3>1
  <2>4. /\ Segments(Append(d \o p, b[i])) = NextToken(Segments(d \o p), b[i])
        /\ Segments(Append(p, b[i])) = NextToken(Segments(p), b[i])
    BY <2>1, <2>2, SegmentsAppend
  <2>5. Segments(d \o p) = Segments(a) \o Segments(p)
    BY <1>6 DEF p
  <2>6. Segments(a) \in Seq(Seq(T)) /\ Segments(p) \in Pieces(T)
    BY <1>4, <2>2
  <2>7. NextToken(Segments(a) \o Segments(p), b[i])
          = Segments(a) \o NextToken(Segments(p), b[i])
    BY <2>1, <2>6, TokenBehind
  <2>8. QED
    BY <2>2, <2>3, <2>4, <2>5, <2>7
<1>7. P(n)
  <2> HIDE DEF n, P
  <2>1. 0 \in S /\ \A i \in 1..n : i - 1 \in S => i \in S
    BY <1>1, <1>5, <1>6
  <2>2. \A i \in 0..n : i \in S
    <3> HIDE DEF S
    <3> QED
      BY <1>1, <2>1, ScanInduction, Zenon
  <2>3. QED
    BY <1>1, <2>2
<1>8. QED
  BY <1>1, <1>3, <1>7

\* Without a slash there is one piece.
LEMMA SegmentsWhole ==
  ASSUME NEW T, NEW p \in Seq(T), \A i \in 1..Len(p) : p[i] # "/"
  PROVE  Segments(p) = <<p>>
<1> DEFINE n == Len(p)
           P(i) == Segments(SubSeq(p, 1, i)) = <<SubSeq(p, 1, i)>>
           S == {i \in 0..n : P(i)}
<1>1. n \in Nat /\ SubSeq(p, 1, n) = p
  BY LenProperties, SubSeqFull
<1>2. P(0)
  <2>1. SubSeq(p, 1, 0) = << >>
    BY SubSeqEmpty
  <2>2. Segments(<< >>) = << << >> >>
    BY SegmentsAppend
  <2>3. QED
    BY <2>1, <2>2
<1>3. ASSUME NEW i \in 1..n, P(i - 1) PROVE P(i)
  <2> DEFINE q == SubSeq(p, 1, i - 1)
             none == << >>
             ST == Seq(T)
  <2>1. q \in ST /\ p[i] \in T /\ SubSeq(p, 1, i) = Append(q, p[i])
    BY PrefixStep
  <2> HIDE DEF q, n
  <2>2. Segments(Append(q, p[i])) = NextToken(<<q>>, p[i])
    BY <1>3, <2>1, SegmentsAppend DEF q
  <2>3. <<q>> = Append(none, q) /\ none \in Seq(ST)
    <3> HIDE DEF ST
    <3> QED
      OBVIOUS
  <2>4. p[i] # "/"
    BY DEF n
  <2>5. NextToken(Append(none, q), p[i]) = Append(none, Append(q, p[i]))
    <3> HIDE DEF none
    <3> QED
      BY <2>1, <2>3, <2>4, NextTokenAppend DEF After
  <2>6. Append(none, Append(q, p[i])) = <<Append(q, p[i])>>
    OBVIOUS
  <2>7. QED
    BY <2>1, <2>2, <2>3, <2>5, <2>6
<1>4. P(n)
  <2> HIDE DEF n, P
  <2>1. 0 \in S /\ \A i \in 1..n : i - 1 \in S => i \in S
    BY <1>1, <1>2, <1>3
  <2>2. \A i \in 0..n : i \in S
    <3> HIDE DEF S
    <3> QED
      BY <1>1, <2>1, ScanInduction, Zenon
  <2>3. QED
    BY <1>1, <2>2
<1>5. QED
  BY <1>1, <1>4

\* One behind one.
LEMMA ConcatPair ==
  ASSUME NEW x, NEW y
  PROVE  <<x>> \o <<y>> = <<x, y>>
<1> DEFINE S == {x, y}
<1>1. <<x>> \in Seq(S) /\ <<y>> \in Seq(S)
  OBVIOUS
<1>2. /\ <<x>> \o <<y>> \in Seq(S) /\ Len(<<x>> \o <<y>>) = 2
      /\ (<<x>> \o <<y>>)[1] = x /\ (<<x>> \o <<y>>)[2] = y
  BY <1>1, ConcatProperties
<1>3. <<x, y>> \in Seq(S) /\ Len(<<x, y>>) = 2 /\ <<x, y>>[1] = x /\ <<x, y>>[2] = y
  OBVIOUS
<1> DEFINE c == <<x>> \o <<y>>
           d == <<x, y>>
<1> HIDE DEF c, d, S
<1>4. /\ c \in Seq(S) /\ d \in Seq(S) /\ Len(c) = 2 /\ Len(d) = 2
      /\ c[1] = d[1] /\ c[2] = d[2]
  BY <1>2, <1>3 DEF c, d
<1>5. \A i \in 1..Len(c) : c[i] = d[i]
  BY <1>4
<1>6. c = d
  BY <1>4, <1>5, SeqEqual
<1>7. QED
  BY <1>6 DEF c, d

\* A path with a slash in front is that slash and its tail.
LEMMA LeadingSlash ==
  ASSUME NEW T, NEW path \in Seq(T), StartsWithSlash(path)
  PROVE  Tail(path) \in Seq(T) /\ path = <<"/">> \o Tail(path)
<1>1. path # << >> /\ path[1] = "/" /\ Len(path) \in Nat /\ Len(path) # 0
  BY LenProperties, EmptySeq DEF StartsWithSlash
<1>2. Tail(path) = SubSeq(path, 2, Len(path)) /\ Tail(path) \in Seq(T)
  BY <1>1, TailIsSubSeq, HeadTailProperties
<1>3. SubSeq(path, 1, Len(path)) = <<path[1]>> \o SubSeq(path, 1 + 1, Len(path))
  BY <1>1, SubSeqRecursiveFirst
<1>4. SubSeq(path, 1, Len(path)) = path
  BY SubSeqFull
<1>5. QED
  BY <1>1, <1>2, <1>3, <1>4

\* A path with a slash at k is what is in front of it, the slash, and the rest.
LEMMA CutAtSlash ==
  ASSUME NEW T, NEW p \in Seq(T), NEW k \in 1..Len(p), p[k] = "/"
  PROVE  /\ SubSeq(p, 1, k - 1) \in Seq(T) /\ SubSeq(p, k + 1, Len(p)) \in Seq(T)
         /\ SubSeq(p, k, Len(p)) = <<"/">> \o SubSeq(p, k + 1, Len(p))
         /\ p = SubSeq(p, 1, k - 1) \o SubSeq(p, k, Len(p))
<1>1. Len(p) \in Nat /\ \A i \in 1..Len(p) : p[i] \in T
  BY LenProperties
<1>2. SubSeq(p, 1, k - 1) \in Seq(T) /\ SubSeq(p, k + 1, Len(p)) \in Seq(T)
  BY <1>1
<1>3. SubSeq(p, k, Len(p)) = <<p[k]>> \o SubSeq(p, k + 1, Len(p))
  BY <1>1, SubSeqRecursiveFirst
<1>4. SubSeq(p, 1, k - 1) \o SubSeq(p, (k - 1) + 1, Len(p)) = SubSeq(p, 1, Len(p))
  BY <1>1, ConcatAdjacentSubSeq
<1>5. SubSeq(p, 1, Len(p)) = p /\ (k - 1) + 1 = k
  BY SubSeqFull
<1>6. QED
  BY <1>2, <1>3, <1>4, <1>5

\* The first slash, if there is one.
FirstSlash(p) == SelectInSeq(p, LAMBDA t : t = "/")

LEMMA FirstSlashFound ==
  ASSUME NEW T, NEW p \in Seq(T)
  PROVE  /\ FirstSlash(p) = 0 => \A i \in 1..Len(p) : p[i] # "/"
         /\ FirstSlash(p) # 0 => /\ FirstSlash(p) \in 1..Len(p)
                                 /\ p[FirstSlash(p)] = "/"
                                 /\ \A i \in 1..(FirstSlash(p) - 1) : p[i] # "/"
<1> DEFINE I == {i \in 1..Len(p) : p[i] = "/"}
<1>1. FirstSlash(p) = IF I # {} THEN Min(I) ELSE 0
  BY DEF FirstSlash, SelectInSeq
<1>2. Len(p) \in Nat /\ I \in SUBSET Nat
  BY LenProperties
<1>3. CASE I = {}
  BY <1>1, <1>3
<1>4. CASE I # {}
  <2>1. Min(I) \in I /\ \A y \in I : Min(I) <= y
    <3> HIDE DEF I
    <3> QED
      BY <1>2, <1>4, LeastElement
  <2> DEFINE k == Min(I)
  <2> HIDE DEF k
  <2>2. FirstSlash(p) = k
    BY <1>1, <1>4 DEF k
  <2>3. k \in 1..Len(p) /\ p[k] = "/" /\ \A y \in I : k <= y
    BY <2>1 DEF k
  <2>4. \A i \in 1..(k - 1) : p[i] # "/"
    BY <1>2, <2>3
  <2>5. QED
    BY <2>2, <2>3, <2>4
<1>5. QED
  BY <1>3, <1>4

-----------------------------------------------------------------------------
(* parseEndpoint and singleJoiningSlash *)

Behind(segments) ==
  IF Len(segments) = 2 THEN << << >> >> ELSE SubSeq(segments, 3, Len(segments))

Kept(base) ==
  LET segments == Segments(base) IN
  IF base # << >> /\ Last(segments) = << >> THEN Front(segments) ELSE segments

\* A slash in front is an empty piece in front.
LEMMA SegmentsLeading ==
  ASSUME NEW T, "/" \in T, NEW p \in Seq(T)
  PROVE  Segments(<<"/">> \o p) = << << >> >> \o Segments(p)
<1> DEFINE none == << >>
           q == <<"/">> \o p
<1>1. none \in Seq(T) /\ q \in Seq(T)
  BY ConcatProperties
<1>2. Segments(none \o q) = Segments(none) \o Segments(p)
  <2> HIDE DEF none
  <2> QED
    BY <1>1, SegmentsCut
<1>3. none \o q = q
  <2> HIDE DEF q
  <2> QED
    BY <1>1, ConcatEmptySeq
<1>4. Segments(none) = << << >> >>
  BY SegmentsAppend
<1>5. QED
  BY <1>2, <1>3, <1>4

\* Two pieces in front of others: the second, and what is behind it.
LEMMA BehindTwo ==
  ASSUME NEW S, NEW x \in S, NEW y \in S, NEW ss \in Seq(S), ss # << >>
  PROVE  LET all == <<x>> \o (<<y>> \o ss) IN
         /\ all[2] = y /\ Len(all) # 2 /\ SubSeq(all, 3, Len(all)) = ss
<1> DEFINE yss == <<y>> \o ss
           all == <<x>> \o yss
           n == Len(ss)
<1>1. n \in Nat /\ n # 0
  BY LenProperties, EmptySeq
<1>2. yss \in Seq(S) /\ Len(yss) = n + 1 /\ yss[1] = y /\ \A i \in 1..n : yss[i + 1] = ss[i]
  BY <1>1, ConcatProperties
<1> HIDE DEF yss, n
<1>3. all \in Seq(S) /\ Len(all) = n + 2 /\ \A i \in 1..(n + 1) : all[i + 1] = yss[i]
  BY <1>1, <1>2, ConcatProperties
<1> HIDE DEF all
<1>4. all[2] = y /\ \A i \in 1..n : all[i + 2] = ss[i]
  <2>1. all[1 + 1] = yss[1]
    BY <1>1, <1>3
  <2>2. ASSUME NEW i \in 1..n PROVE all[i + 2] = ss[i]
    <3>1. i + 1 \in 1..(n + 1) /\ (i + 1) + 1 = i + 2
      BY <1>1
    <3>2. QED
      BY <1>2, <1>3, <3>1
  <2>3. QED
    BY <1>2, <2>1, <2>2
<1>5. SubSeq(all, 3, Len(all)) = ss
  <2>1. \A i \in 3..(n + 2) : all[i] \in S
    BY <1>1, <1>3
  <2>2. /\ SubSeq(all, 3, n + 2) \in Seq(S) /\ Len(SubSeq(all, 3, n + 2)) = n
        /\ \A i \in 1..n : SubSeq(all, 3, n + 2)[i] = all[i + 2]
    BY <1>1, <2>1, SubSeqProperties
  <2>3. QED
    BY <1>1, <1>3, <1>4, <2>2, SeqEqual DEF n
<1>6. QED
  BY <1>1, <1>3, <1>4, <1>5 DEF all, yss

\* What parseEndpoint takes for the name is the first piece behind the leading
\* slash; what it leaves is a slash and the pieces behind that.
ParsedAt(path, name, rest, q) ==
  /\ Segments(path)[2] = name
  /\ rest = <<"/">> \o q
  /\ Behind(Segments(path)) = Segments(q)

LEMMA ParseKeeps ==
  ASSUME NEW T, "/" \in T, NEW path \in Seq(T), StartsWithSlash(path)
  PROVE  \E q \in Seq(T) : ParsedAt(path, ParseEndpoint(path).name, ParseEndpoint(path).rest, q)
<1> DEFINE p == Tail(path)
           k == FirstSlash(p)
           ST == Seq(T)
           none == << >>
<1>1. p \in Seq(T) /\ path = <<"/">> \o p
  BY LeadingSlash
<1>2. none \in ST
  OBVIOUS
<1>3. TrimSlash(path) = p
  BY DEF TrimSlash
<1>4. ParseEndpoint(path) = IF k = 0 THEN [name |-> p, rest |-> <<"/">>]
                            ELSE [name |-> SubSeq(p, 1, k - 1), rest |-> SubSeq(p, k, Len(p))]
  BY <1>3 DEF ParseEndpoint, FirstSlash
<1> HIDE DEF p
<1>5. Segments(path) = <<none>> \o Segments(p)
  BY <1>1, SegmentsLeading
<1>6. CASE k = 0
  <2>1. Segments(p) = <<p>>
    BY <1>1, <1>6, FirstSlashFound, SegmentsWhole
  <2>2. <<"/">> = <<"/">> \o none
    OBVIOUS
  <2>3. Segments(none) = <<none>>
    BY SegmentsAppend
  <2>4. Segments(path) = <<none, p>>
    <3>1. Segments(path) = <<none>> \o <<p>>
      BY <1>5, <2>1
    <3> HIDE DEF none
    <3>2. <<none>> \o <<p>> = <<none, p>>
      BY ConcatPair
    <3>3. QED
      BY <3>1, <3>2
  <2>5. Segments(path)[2] = p /\ Behind(Segments(path)) = <<none>>
    BY <2>4 DEF Behind
  <2>6. ParseEndpoint(path).name = p /\ ParseEndpoint(path).rest = <<"/">>
    BY <1>4, <1>6
  <2>7. ParsedAt(path, ParseEndpoint(path).name, ParseEndpoint(path).rest, none)
    BY <2>2, <2>3, <2>5, <2>6 DEF ParsedAt
  <2>8. QED
    BY <1>2, <2>7
<1>7. CASE k # 0
  <2> DEFINE name == SubSeq(p, 1, k - 1)
             q == SubSeq(p, k + 1, Len(p))
             rest == SubSeq(p, k, Len(p))
  <2>1. k \in 1..Len(p) /\ p[k] = "/" /\ \A i \in 1..(k - 1) : p[i] # "/"
    BY <1>1, <1>7, FirstSlashFound
  <2> HIDE DEF k
  <2>2. name \in ST /\ q \in ST /\ rest = <<"/">> \o q /\ p = name \o rest
    BY <1>1, <2>1, CutAtSlash
  <2>3. \A i \in 1..Len(name) : name[i] # "/"
    <3>1. Len(name) = k - 1 /\ \A i \in 1..(k - 1) : name[i] = p[i]
      BY <1>1, <2>1
    <3>2. QED
      BY <2>1, <3>1
  <2>4. ParseEndpoint(path).name = name /\ ParseEndpoint(path).rest = rest
    <3>1. ParseEndpoint(path) = [name |-> name, rest |-> rest]
      BY <1>4, <1>7, Zenon
    <3> HIDE DEF name, rest
    <3>2. QED
      BY <3>1
  <2> HIDE DEF name, q, rest
  <2>5. Segments(p) = Segments(name) \o Segments(q)
    BY <2>2, SegmentsCut
  <2>6. Segments(name) = <<name>>
    BY <2>2, <2>3, SegmentsWhole
  <2>7. Segments(q) \in Seq(ST) /\ Segments(q) # << >>
    BY <2>2, SegmentsAppend
  <2> DEFINE ss == Segments(q)
             all == <<none>> \o (<<name>> \o ss)
  <2>8. Segments(path) = all
    BY <1>5, <2>5, <2>6
  <2> HIDE DEF none, ST, ss
  <2>9. all[2] = name /\ Len(all) # 2 /\ SubSeq(all, 3, Len(all)) = ss
    BY <1>2, <2>2, <2>7, BehindTwo DEF ss
  <2>10. ParsedAt(path, name, rest, q)
    BY <2>2, <2>8, <2>9 DEF ParsedAt, Behind, ss
  <2>11. QED
    BY <2>2, <2>4, <2>10 DEF ST
<1>8. QED
  BY <1>6, <1>7

\* However the base path ends, joining keeps its pieces and those of the rest.
LEMMA JoinKeeps ==
  ASSUME NEW T, "/" \in T, NEW base \in Seq(T), NEW q \in Seq(T)
  PROVE  Segments(SingleJoiningSlash(base, <<"/">> \o q)) = Kept(base) \o Segments(q)
<1> DEFINE ST == Seq(T)
           none == << >>
           slash == <<"/">>
           r == slash \o q
           f == Front(base)
           sf == Segments(f)
<1>1. StartsWithSlash(r) /\ Tail(r) = q /\ r \in Seq(T)
  <2>1. slash \in Seq(T)
    OBVIOUS
  <2>2. r \in Seq(T) /\ r # << >> /\ r[1] = "/" /\ Len(r) = Len(q) + 1
        /\ \A i \in 1..Len(q) : r[i + 1] = q[i]
    BY <2>1, LenProperties, ConcatProperties
  <2>3. Tail(r) \in Seq(T) /\ Len(Tail(r)) = Len(q) /\ \A i \in 1..Len(q) : Tail(r)[i] = q[i]
    <3> HIDE DEF r
    <3> QED
      BY <2>2, HeadTailProperties, LenProperties
  <2>4. Tail(r) = q
    <3> HIDE DEF r
    <3> QED
      BY <2>3, SeqEqual
  <2>5. QED
    BY <2>2, <2>4 DEF StartsWithSlash
<1>2. SingleJoiningSlash(base, r) = IF base # << >> /\ Last(base) = "/" THEN base \o q ELSE base \o r
  <2> HIDE DEF r
  <2> QED
    BY <1>1 DEF SingleJoiningSlash
<1>3. Segments(base \o r) = Segments(base) \o Segments(q)
  BY SegmentsCut
<1>4. CASE base = << >>
  BY <1>2, <1>3, <1>4 DEF Kept
<1>5. ASSUME base # << >>
      PROVE  /\ f \in ST /\ Last(base) \in T /\ base = Append(f, Last(base))
             /\ sf \in Pieces(T) /\ sf \in Seq(ST)
             /\ Segments(base) = NextToken(sf, Last(base))
  <2>1. f \in ST /\ Last(base) \in T /\ base = Append(f, Last(base))
    BY <1>5, FrontLast
  <2> HIDE DEF f
  <2>2. Segments(Append(f, Last(base))) = NextToken(sf, Last(base))
    BY <2>1, SegmentsAppend
  <2>3. sf \in Seq(Seq(T)) /\ sf # << >>
    BY <2>1, SegmentsAppend
  <2>4. QED
    BY <2>1, <2>2, <2>3 DEF Pieces
<1> HIDE DEF sf
<1>6. CASE base # << >> /\ Last(base) = "/"
  <2>1. Segments(base) = Append(sf, none)
    BY <1>5, <1>6 DEF NextToken
  <2>2. Front(Append(sf, none)) = sf /\ Last(Append(sf, none)) = none
    <3>1. none \in ST /\ sf \in Seq(ST)
      BY <1>5, <1>6
    <3> HIDE DEF none, ST
    <3>2. QED
      BY <3>1, FrontLastAppend
  <2>3. Kept(base) = sf
    BY <1>6, <2>1, <2>2 DEF Kept
  <2> HIDE DEF f, r
  <2>4. base \o q = f \o (slash \o q)
    <3>1. f \in Seq(T) /\ slash \in Seq(T)
      BY <1>5, <1>6
    <3>2. base = f \o slash
      BY <1>5, <1>6, AppendIsConcat
    <3> HIDE DEF slash
    <3>3. QED
      BY <3>1, <3>2, ConcatAssociative
  <2>5. Segments(f \o (slash \o q)) = Segments(f) \o Segments(q)
    BY <1>5, <1>6, SegmentsCut
  <2>6. Segments(SingleJoiningSlash(base, r)) = Kept(base) \o Segments(q)
    BY <1>2, <1>6, <2>3, <2>4, <2>5 DEF sf
  <2>7. QED
    BY <2>6 DEF r
<1>7. CASE base # << >> /\ Last(base) # "/"
  <2> DEFINE l == Last(base)
             e == Append(Last(sf), l)
  <2>1. Front(sf) \in Seq(ST) /\ Last(sf) \in ST
    BY <1>5, <1>7, FrontLast DEF Pieces
  <2>2. e \in ST /\ e # << >>
    BY <1>5, <1>7, <2>1, AppendProperties
  <2>3. Segments(base) = Append(Front(sf), e)
    BY <1>5, <1>7 DEF NextToken
  <2>4. Last(Append(Front(sf), e)) = e
    <3> HIDE DEF e, ST
    <3> QED
      BY <2>1, <2>2, FrontLastAppend
  <2>5. Kept(base) = Segments(base)
    BY <2>2, <2>3, <2>4 DEF Kept
  <2> HIDE DEF r
  <2>6. Segments(SingleJoiningSlash(base, r)) = Kept(base) \o Segments(q)
    BY <1>2, <1>3, <1>7, <2>5
  <2>7. QED
    BY <2>6 DEF r
<1>8. QED
  BY <1>4, <1>6, <1>7

-----------------------------------------------------------------------------
(* Routing *)

\* The first endpoint with the name, of which there is at most one.
LEMMA EndpointFound ==
  ASSUME NEW endpoints, EndpointsTyped(endpoints), NEW name
  PROVE  /\ GetEndpoint(endpoints, name) = 0 =>
              \A k \in DOMAIN endpoints : endpoints[k].name # name
         /\ GetEndpoint(endpoints, name) # 0 =>
              /\ GetEndpoint(endpoints, name) \in DOMAIN endpoints
              /\ endpoints[GetEndpoint(endpoints, name)].name = name
<1> DEFINE I == {i \in 1..Len(endpoints) : endpoints[i].name = name}
<1>1. GetEndpoint(endpoints, name) = IF I # {} THEN Min(I) ELSE 0
  BY DEF GetEndpoint, SelectInSeq
<1>2. Len(endpoints) \in Nat /\ DOMAIN endpoints = 1..Len(endpoints) /\ I \in SUBSET Nat
  BY LenProperties DEF EndpointsTyped
<1>3. CASE I = {}
  BY <1>1, <1>2, <1>3
<1>4. CASE I # {}
  <2>1. Min(I) \in I
    <3> HIDE DEF I
    <3> QED
      BY <1>2, <1>4, LeastElement
  <2>2. QED
    BY <1>1, <1>2, <1>4, <2>1
<1>5. QED
  BY <1>3, <1>4

\* What the server decodes is still a path that begins with a slash.
LEMMA DecodedTyped ==
  ASSUME NEW path \in Seq(Tokens), StartsWithSlash(path)
  PROVE  Decoded(path) \in Seq(Tokens) /\ StartsWithSlash(Decoded(path))
<1>1. Len(path) \in Nat /\ DOMAIN path = 1..Len(path) /\ Len(path) # 0
  BY LenProperties, EmptySeq DEF StartsWithSlash
<1>2. "/" \in Tokens
  BY DEF Tokens
<1>3. \A k \in 1..Len(path) : path[k] \in Tokens
  BY LenProperties
<1>4. Decoded(path) = [k \in 1..Len(path) |-> IF path[k] = "%2F" THEN "/" ELSE path[k]]
  BY <1>1 DEF Decoded
<1>5. Decoded(path) \in [1..Len(path) -> Tokens]
  BY <1>2, <1>3, <1>4
<1>6. Decoded(path) \in Seq(Tokens) /\ Len(Decoded(path)) = Len(path)
  BY <1>1, <1>5, IsASeq, LenProperties
<1>7. Decoded(path)[1] = "/"
  BY <1>1, <1>4 DEF StartsWithSlash
<1>8. Decoded(path) # << >>
  BY <1>1, <1>6, EmptySeq
<1>9. QED
  BY <1>6, <1>7, <1>8 DEF StartsWithSlash

\* While it serves, the configuration is one that Validate accepts, and the
\* outcome is that of a path.
RoutingInv ==
  /\ file \in Files
  /\ phase \in {"stopped", "serving", "failed"}
  /\ phase # "serving" => outcome = NoOutcome
  /\ phase = "serving" =>
       /\ Validate(cfg) /\ EndpointsTyped(cfg.endpoints)
       /\ \/ outcome = NoOutcome
          \/ \E path \in Paths, bodyRead \in BOOLEAN :
               outcome = Route(cfg.endpoints, path, bodyRead)

Parsed(path) == ParseEndpoint(Decoded(path))
EndpointOf(path) == GetEndpoint(cfg.endpoints, Parsed(path).name)
TargetOf(path) == cfg.endpoints[EndpointOf(path)].target

\* The outcome of a path, as far as the properties look at it.
RoutedAs(path) ==
  /\ outcome.path = path
  /\ outcome.status = 404 => EndpointOf(path) = 0
  /\ outcome.status = 200 =>
       /\ EndpointOf(path) # 0
       /\ outcome.host = TargetOf(path).host
       /\ outcome.sent = SingleJoiningSlash(TargetOf(path).base, Parsed(path).rest)
       /\ outcome.audited = Parsed(path).rest

LEMMA RouteCases ==
  ASSUME NEW path, NEW bodyRead \in BOOLEAN, outcome = Route(cfg.endpoints, path, bodyRead)
  PROVE  RoutedAs(path)
<1> DEFINE k == EndpointOf(path)
           host == TargetOf(path).host
           rest == Parsed(path).rest
           sent == SingleJoiningSlash(TargetOf(path).base, rest)
           Answer(status) == [NoOutcome EXCEPT !.path = path, !.status = status]
           good == [Answer(200) EXCEPT !.host = host, !.sent = sent, !.audited = rest]
<1>1. \/ outcome = Answer(400)
      \/ k = 0 /\ outcome = Answer(404)
      \/ outcome = Answer(500)
      \/ k # 0 /\ outcome = good
  BY Zenon DEF Route, Parsed, EndpointOf, TargetOf
<1>2. \A s \in {200, 400, 404, 500} : Answer(s).path = path /\ Answer(s).status = s
  BY DEF NoOutcome
<1> HIDE DEF k, host, rest, sent
<1>3. /\ good.path = path /\ good.status = 200 /\ good.host = host
      /\ good.sent = sent /\ good.audited = rest
  BY DEF NoOutcome
<1> HIDE DEF Answer, good
<1>4. CASE outcome = good /\ k # 0
  BY <1>3, <1>4 DEF RoutedAs, k, host, rest, sent
<1>5. CASE outcome = Answer(400)
  BY <1>2, <1>5 DEF RoutedAs
<1>6. CASE outcome = Answer(500)
  BY <1>2, <1>6 DEF RoutedAs
<1>7. CASE outcome = Answer(404) /\ k = 0
  BY <1>2, <1>7 DEF RoutedAs, k
<1>8. QED
  BY <1>1, <1>4, <1>5, <1>6, <1>7

\* The invariant holds at the start.
LEMMA RoutingInit == Init => RoutingInv
  BY DEF Init, RoutingInv

\* Start loads the endpoints of the file, and serves them if Validate accepts
\* them; after that only the outcome changes.
LEMMA RoutingStep == RoutingInv /\ [Next]_vars => RoutingInv'
<1> SUFFICES ASSUME RoutingInv, [Next]_vars PROVE RoutingInv'
  OBVIOUS
<1> USE DEF RoutingInv
<1>1. CASE Start
  <2>1. /\ file' = file /\ file \in Files /\ outcome' = outcome /\ outcome = NoOutcome
        /\ cfg' = Loaded /\ phase' = IF Validate(Loaded) THEN "serving" ELSE "failed"
    BY <1>1 DEF Start
  <2>2. Loaded.endpoints = file.endpoints
    BY DEF Loaded
  <2>3. EndpointsTyped(Loaded.endpoints)
    BY <2>1, <2>2, FilesAssumption, Zenon DEF EndpointsTyped
  <2>4. CASE Validate(Loaded)
    <3>1. Validate(cfg)' /\ EndpointsTyped(cfg.endpoints)'
      BY <2>1, <2>3, <2>4, Zenon DEF Validate, EndpointsTyped
    <3>2. QED
      BY <2>1, <2>4, <3>1
  <2>5. CASE ~Validate(Loaded)
    BY <2>1, <2>5
  <2>6. QED
    BY <2>4, <2>5
<1>2. CASE ServeHTTP
  <2>1. /\ phase = "serving" /\ phase' = phase /\ file' = file /\ cfg' = cfg
        /\ \E path \in Paths, bodyRead \in BOOLEAN : outcome' = Route(cfg.endpoints, path, bodyRead)
    BY <1>2 DEF ServeHTTP
  <2>2. Validate(cfg)' /\ EndpointsTyped(cfg.endpoints)'
    BY <2>1, Zenon DEF Validate, EndpointsTyped
  <2>3. \E path \in Paths, bodyRead \in BOOLEAN : outcome' = Route(cfg'.endpoints, path, bodyRead)
    BY <2>1, Zenon
  <2>4. QED
    BY <2>1, <2>2, <2>3
<1>3. CASE UNCHANGED vars
  <2>1. phase' = phase /\ file' = file /\ cfg' = cfg /\ outcome' = outcome
    BY <1>3 DEF vars
  <2>2. Validate(cfg)' = Validate(cfg) /\ EndpointsTyped(cfg.endpoints)' = EndpointsTyped(cfg.endpoints)
    BY <2>1, Zenon DEF Validate, EndpointsTyped
  <2>3. QED
    BY <2>1, <2>2
<1>4. QED
  BY <1>1, <1>2, <1>3 DEF Next

\* What an outcome is the outcome of.
LEMMA OutcomeOfPath ==
  ASSUME RoutingInv, outcome.status \in {200, 404}
  PROVE  /\ Validate(cfg) /\ EndpointsTyped(cfg.endpoints)
         /\ \E path \in Paths : RoutedAs(path)
<1>1. NoOutcome.status = 0
  BY DEF NoOutcome
<1>2. outcome # NoOutcome /\ phase = "serving"
  BY <1>1 DEF RoutingInv
<1>3. PICK path \in Paths, bodyRead \in BOOLEAN : outcome = Route(cfg.endpoints, path, bodyRead)
  BY <1>2 DEF RoutingInv
<1>4. RoutedAs(path)
  BY <1>3, RouteCases
<1>5. QED
  BY <1>2, <1>4 DEF RoutingInv

\* What ParsedAt says of the path of a request.
LEMMA RequestParsed ==
  ASSUME NEW path \in Paths
  PROVE  \E q \in Seq(Tokens) : ParsedAt(Decoded(path), Parsed(path).name, Parsed(path).rest, q)
<1>1. path \in Seq(Tokens) /\ StartsWithSlash(path) /\ "/" \in Tokens
  BY PathsAssumption DEF Tokens
<1>2. Decoded(path) \in Seq(Tokens) /\ StartsWithSlash(Decoded(path))
  BY <1>1, DecodedTyped
<1>3. QED
  BY <1>1, <1>2, ParseKeeps DEF Parsed

\* A request goes to the endpoint its first segment names, whichever order the
\* endpoints have: parseEndpoint takes that segment, and Validate accepts no
\* second endpoint of the name.
LEMMA RoutedByNameHolds == RoutingInv => RoutedByName
<1> SUFFICES ASSUME RoutingInv, outcome.status \in {200, 404}
             PROVE  RoutedByName
  BY DEF RoutedByName
<1>1. Validate(cfg) /\ EndpointsTyped(cfg.endpoints)
  BY OutcomeOfPath
<1>2. PICK path \in Paths : RoutedAs(path)
  BY OutcomeOfPath
<1>3. Segments(Decoded(path))[2] = Parsed(path).name /\ outcome.path = path
  BY <1>2, RequestParsed DEF ParsedAt, RoutedAs
<1>4. ASSUME NEW k \in DOMAIN cfg.endpoints, cfg.endpoints[k].name = Parsed(path).name
      PROVE  Served /\ cfg.endpoints[k].target.host = outcome.host
  <2>1. /\ EndpointOf(path) # 0 /\ EndpointOf(path) \in DOMAIN cfg.endpoints
        /\ cfg.endpoints[EndpointOf(path)].name = Parsed(path).name
    BY <1>1, <1>4, EndpointFound DEF EndpointOf
  <2>2. EndpointOf(path) = k
    BY <1>1, <1>4, <2>1 DEF Validate
  <2>3. QED
    BY <1>2, <2>1, <2>2 DEF RoutedAs, Served, TargetOf
<1>5. QED
  BY <1>3, <1>4 DEF RoutedByName

\* What is sent and what is recorded have the segments the path has.
LEMMA PathKeptHolds == RoutingInv => PathKept
<1> SUFFICES ASSUME RoutingInv, Served
             PROVE  PathKept
  BY DEF PathKept
<1>1. Validate(cfg) /\ EndpointsTyped(cfg.endpoints) /\ \E path \in Paths : RoutedAs(path)
  BY OutcomeOfPath DEF Served
<1>2. PICK path \in Paths : RoutedAs(path)
  BY <1>1
<1>3. PICK q \in Seq(Tokens) : ParsedAt(Decoded(path), Parsed(path).name, Parsed(path).rest, q)
  BY RequestParsed
<1> DEFINE rest == Parsed(path).rest
           base == TargetOf(path).base
<1>4. /\ outcome.path = path /\ EndpointOf(path) # 0
      /\ outcome.sent = SingleJoiningSlash(base, rest) /\ outcome.audited = rest
  BY <1>2 DEF RoutedAs, Served
<1>5. Segments(Decoded(path))[2] = Parsed(path).name /\ rest = <<"/">> \o q
        /\ Behind(Segments(Decoded(path))) = Segments(q)
  BY <1>3 DEF ParsedAt
<1>6. base \in Seq(Tokens)
  <2> DEFINE k == EndpointOf(path)
             endpoints == cfg.endpoints
  <2>1. k \in DOMAIN endpoints
    BY <1>1, <1>4, EndpointFound DEF EndpointOf
  <2>2. endpoints[k].target # None
    BY <1>1, <2>1 DEF Validate
  <2>3. endpoints[k] \in ToSet(endpoints)
    BY <2>1 DEF ToSet
  <2>4. endpoints[k].target.base \in Seq(Tokens)
    BY <1>1, <2>2, <2>3 DEF EndpointsTyped
  <2>5. QED
    BY <2>4 DEF TargetOf
<1> HIDE DEF rest, base
<1>7. "/" \in Tokens
  BY DEF Tokens
<1>8. Segments(outcome.sent) = Kept(base) \o Segments(q)
  BY <1>4, <1>5, <1>6, <1>7, JoinKeeps
<1>9. Segments(outcome.audited) = << << >> >> \o Segments(q)
  BY <1>4, <1>5, <1>7, SegmentsLeading
<1>10. /\ Segments(outcome.sent) = Kept(base) \o Behind(Segments(Decoded(outcome.path)))
       /\ Segments(outcome.audited) = << << >> >> \o Behind(Segments(Decoded(outcome.path)))
  BY <1>4, <1>5, <1>8, <1>9
<1>11. base = cfg.endpoints[GetEndpoint(cfg.endpoints, Segments(Decoded(outcome.path))[2])].target.base
  BY <1>4, <1>5 DEF base, TargetOf, EndpointOf
<1>12. QED
  BY <1>10, <1>11, Zenon DEF PathKept, Kept, Behind

-----------------------------------------------------------------------------
(* Theorems *)

\* Each endpoint that has the first segment of a path as its name has the host
\* the request was sent to (ServeHTTP, parseEndpoint, GetEndpoint, Validate).
THEOREM RoutesByName == Spec => []RoutedByName
<1>1. Spec => []RoutingInv
  BY RoutingInit, RoutingStep, PTL DEF Spec
<1>2. QED
  BY <1>1, RoutedByNameHolds, PTL

\* No segment of a path is lost, added or merged on its way to the target or
\* into the entry, whatever slashes it and the base path have (parseEndpoint,
\* singleJoiningSlash).
THEOREM PathsArriveWhole == Spec => []PathKept
<1>1. Spec => []RoutingInv
  BY RoutingInit, RoutingStep, PTL DEF Spec
<1>2. QED
  BY <1>1, PathKeptHolds, PTL
=============================================================================
