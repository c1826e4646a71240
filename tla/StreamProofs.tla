----------------------------- MODULE StreamProofs ------------------------------
(***************************************************************************)
(* Theorems: what is rebuilt of a captured stream agrees with what the     *)
(* upstream sent, for streams of every length, wherever the capture ends.  *)
(* The invariant compares the fold over the captured lines with the        *)
(* history of what was said, step by step; a capture that was cut has a    *)
(* beginning of it.                                                        *)
(***************************************************************************)
EXTENDS Stream, FoldTheorems, TLAPS

Pieces == Nat \X Nat
Calls == [id : Seq({"call"}), args : Seq(Nat)]
Labels == {"none", "cmpl", "delta", "noDelta", "scalar", "assistant"}
Reasons == {"none", "stop"}

Lines == Events(Pieces, Calls, Labels, Reasons)
Bodies == Responses(Pieces, Calls, Labels, Reasons)
Sayings == [role : Labels, content : Seq(Pieces), calls : Seq(Calls),
            finish : Reasons, usage : BOOLEAN]

-----------------------------------------------------------------------------
(* Prefixes and arguments *)

\* A sequence begins what goes on from it.
LEMMA PrefixConcat ==
  ASSUME NEW X, NEW s \in Seq(X), NEW t \in Seq(X)
  PROVE  IsPrefix(s, s \o t)
<1>1. Len(s) \in Nat /\ Len(t) \in Nat /\ Len(s \o t) = Len(s) + Len(t)
  BY ConcatProperties
<1>2. SubSeq(s \o t, 1, Len(s)) = SubSeq(s, 1, Len(s))
  <2>1. CASE Len(s) = 0
    BY <2>1, SubSeqEmpty
  <2>2. CASE Len(s) # 0
    <3>1. 1 \in 1..Len(s) /\ Len(s) \in 1..Len(s)
      BY <1>1, <2>2
    <3>2. QED
      BY <3>1, SubSeqOfConcat1
  <2>3. QED
    BY <2>1, <2>2
<1>3. QED
  BY <1>1, <1>2 DEF IsPrefix

\* It still does when that goes on.
LEMMA PrefixGrows ==
  ASSUME NEW X, NEW s \in Seq(X), NEW t \in Seq(X), NEW u \in Seq(X), IsPrefix(s, t)
  PROVE  IsPrefix(s, t \o u)
<1>1. /\ Len(s) \in Nat /\ Len(t) \in Nat /\ Len(u) \in Nat
      /\ Len(t \o u) = Len(t) + Len(u)
      /\ Len(s) <= Len(t) /\ SubSeq(s, 1, Len(s)) = SubSeq(t, 1, Len(s))
  BY ConcatProperties DEF IsPrefix
<1>2. SubSeq(t \o u, 1, Len(s)) = SubSeq(t, 1, Len(s))
  <2>1. CASE Len(s) = 0
    BY <2>1, SubSeqEmpty
  <2>2. CASE Len(s) # 0
    <3>1. 1 \in 1..Len(t) /\ Len(s) \in 1..Len(t)
      BY <1>1, <2>2
    <3>2. QED
      BY <3>1, SubSeqOfConcat1
  <2>3. QED
    BY <2>1, <2>2
<1>3. QED
  BY <1>1, <1>2 DEF IsPrefix

\* The arguments of no call, and of one call more.
LEMMA ArgumentsAppend ==
  ASSUME NEW calls \in Seq(Calls)
  PROVE  /\ Arguments(calls) \in Seq(Nat)
         /\ Arguments(<< >>) = << >>
         /\ \A c \in Calls : Arguments(Append(calls, c)) = Arguments(calls) \o c.args
<1> DEFINE Of(s) == [k \in DOMAIN s |-> s[k].args]
<1>1. \A c \in Calls : c.args \in Seq(Nat)
  BY DEF Calls
<1>2. ASSUME NEW s \in Seq(Calls)
      PROVE  /\ Of(s) \in Seq(Seq(Nat)) /\ Len(Of(s)) = Len(s)
             /\ Arguments(s) = FlattenSeq(Of(s))
  <2> DEFINE C == Calls
             Q == Seq(Nat)
  <2>1. s \in Seq(C) /\ \A c \in C : c.args \in Q
    BY <1>1
  <2> HIDE DEF C, Q
  <2>2. Of(s) \in Seq(Q) /\ Len(Of(s)) = Len(s)
    BY <2>1
  <2>3. QED
    BY <2>2 DEF Arguments, Q
<1>3. Arguments(calls) \in Seq(Nat)
  BY <1>2, FlattenAppend
<1>4. Arguments(<< >>) = << >>
  <2>1. Of(<< >>) = << >>
    OBVIOUS
  <2>2. QED
    BY <1>2, <2>1, FlattenAppend DEF Arguments
<1>5. ASSUME NEW c \in Calls
      PROVE  Arguments(Append(calls, c)) = Arguments(calls) \o c.args
  <2> DEFINE s == Append(calls, c)
  <2>1. /\ s \in Seq(Calls) /\ Len(s) = Len(calls) + 1 /\ s[Len(calls) + 1] = c
        /\ \A k \in 1..Len(calls) : s[k] = calls[k]
    BY AppendProperties
  <2>2. Of(s) = Append(Of(calls), c.args)
    <3> DEFINE t == Append(Of(calls), c.args)
    <3> HIDE DEF s
    <3>1. /\ t \in Seq(Seq(Nat)) /\ Len(t) = Len(calls) + 1 /\ t[Len(calls) + 1] = c.args
          /\ \A k \in 1..Len(calls) : t[k] = Of(calls)[k]
      BY <1>1, <1>2, AppendProperties
    <3>2. Of(s) \in Seq(Seq(Nat)) /\ Len(Of(s)) = Len(calls) + 1
      BY <1>2, <2>1
    <3>3. \A k \in 1..(Len(calls) + 1) : Of(s)[k] = s[k].args
      BY <2>1
    <3>4. \A k \in 1..Len(calls) : Of(calls)[k] = calls[k].args
      OBVIOUS
    <3> HIDE DEF t, Of
    <3>5. \A k \in 1..(Len(calls) + 1) : Of(s)[k] = t[k]
      <4> SUFFICES ASSUME NEW k \in 1..(Len(calls) + 1) PROVE Of(s)[k] = t[k]
        OBVIOUS
      <4>1. CASE k = Len(calls) + 1
        BY <2>1, <3>1, <3>3, <4>1
      <4>2. CASE k # Len(calls) + 1
        <5>1. k \in 1..Len(calls)
          BY <4>2
        <5>2. QED
          BY <2>1, <3>1, <3>3, <3>4, <5>1
      <4>3. QED
        BY <4>1, <4>2
    <3>6. Of(s) = t
      BY <3>1, <3>2, <3>5, SeqEqual
    <3>7. QED
      BY <3>6 DEF t
  <2> HIDE DEF s, Of
  <2>3. FlattenSeq(Append(Of(calls), c.args)) = FlattenSeq(Of(calls)) \o c.args
    BY <1>1, <1>2, FlattenAppend
  <2>4. QED
    BY <1>2, <2>1, <2>2, <2>3 DEF s
<1>6. QED
  BY <1>3, <1>4, <1>5

\* The arguments of two sequences of calls, one after the other.
LEMMA ArgumentsConcat ==
  ASSUME NEW calls \in Seq(Calls), NEW tail \in Seq(Calls)
  PROVE  Arguments(calls \o tail) = Arguments(calls) \o Arguments(tail)
<1> DEFINE n == Len(tail)
           Upto(i) == SubSeq(tail, 1, i)
           S == {i \in 0..n : Arguments(calls \o Upto(i)) = Arguments(calls) \o Arguments(Upto(i))}
<1>1. n \in Nat /\ \A i \in 1..n : tail[i] \in Calls
  BY LenProperties
<1>2. \A s \in Seq(Calls) : Arguments(s) \in Seq(Nat)
  BY ArgumentsAppend
<1>3. 0 \in S
  <2>1. Upto(0) = << >>
    BY SubSeqEmpty
  <2>2. calls \o << >> = calls /\ Arguments(<< >>) = << >>
    BY ConcatEmptySeq, ArgumentsAppend
  <2>3. Arguments(calls) \o << >> = Arguments(calls)
    BY <1>2, ConcatEmptySeq
  <2> HIDE DEF Upto
  <2>4. Arguments(calls \o Upto(0)) = Arguments(calls) \o Arguments(Upto(0))
    BY <2>1, <2>2, <2>3
  <2>5. QED
    BY <1>1, <2>4
<1>4. ASSUME NEW i \in 1..n, i - 1 \in S PROVE i \in S
  <2> DEFINE u == Upto(i - 1)
             c == tail[i]
  <2>1. c \in Calls /\ i \in 0..n
    BY <1>1
  <2>2. u \in Seq(Calls)
    <3>1. \A k \in 1..(i - 1) : tail[k] \in Calls
      BY <1>1
    <3>2. QED
      BY <1>1, <3>1, SubSeqProperties
  <2>3. Upto(i) = u \o <<c>>
    <3>1. 1 \in 1..Len(tail) /\ i \in 1..Len(tail)
      BY <1>1
    <3>2. QED
      BY <3>1, SubSeqRecursiveSecond
  <2>4. Arguments(calls \o u) = Arguments(calls) \o Arguments(u)
    BY <1>4
  <2> HIDE DEF n, Upto, u, c
  <2>5. Upto(i) = Append(u, c)
    BY <2>1, <2>2, <2>3, AppendIsConcat
  <2>6. calls \o u \in Seq(Calls)
    BY <2>2, ConcatProperties
  <2>7. calls \o Upto(i) = Append(calls \o u, c)
    <3>1. <<c>> \in Seq(Calls)
      BY <2>1
    <3> DEFINE w == <<c>>
    <3> HIDE DEF w
    <3>2. calls \o (u \o w) = (calls \o u) \o w
      BY <2>2, <3>1, ConcatAssociative DEF w
    <3>3. QED
      BY <2>1, <2>3, <2>6, <3>2, AppendIsConcat DEF w
  <2>8. /\ Arguments(calls \o Upto(i)) = (Arguments(calls) \o Arguments(u)) \o c.args
        /\ Arguments(Upto(i)) = Arguments(u) \o c.args
    BY <2>1, <2>2, <2>4, <2>5, <2>6, <2>7, ArgumentsAppend
  <2>9. (Arguments(calls) \o Arguments(u)) \o c.args
          = Arguments(calls) \o (Arguments(u) \o c.args)
    <3>1. c.args \in Seq(Nat)
      BY <2>1 DEF Calls
    <3> DEFINE q == c.args
               r == Arguments(calls)
               s == Arguments(u)
    <3>2. q \in Seq(Nat) /\ r \in Seq(Nat) /\ s \in Seq(Nat)
      BY <1>2, <2>2, <3>1
    <3> HIDE DEF q, r, s
    <3>3. (r \o s) \o q = r \o (s \o q)
      BY <3>2, ConcatAssociative
    <3>4. QED
      BY <3>3 DEF q, r, s
  <2>10. QED
    BY <2>1, <2>8, <2>9
<1>5. n \in S
  <2>1. \A i \in 0..n : i \in S
    <3> HIDE DEF S, n
    <3> QED
      BY <1>1, <1>3, <1>4, ScanInduction, Zenon
  <2>2. QED
    BY <1>1, <2>1
<1>6. Upto(n) = tail
  BY SubSeqFull
<1> HIDE DEF Upto, n
<1>7. QED
  BY <1>5, <1>6

\* A piece more of the last call's arguments comes after all the others.
LEMMA ArgumentsMore ==
  ASSUME NEW calls \in Seq(Calls), calls # << >>, NEW x \in Nat
  PROVE  LET more == [calls EXCEPT ![Len(calls)].args = Append(@, x)] IN
         /\ more \in Seq(Calls)
         /\ Arguments(more) = Arguments(calls) \o <<x>>
<1> DEFINE more == [calls EXCEPT ![Len(calls)].args = Append(@, x)]
<1>1. PICK front \in Seq(Calls), c \in Calls : calls = Append(front, c)
  BY SequenceEmptyOrAppend
<1> DEFINE d == [c EXCEPT !.args = Append(@, x)]
<1>2. c.args \in Seq(Nat)
  BY DEF Calls
<1>3. /\ Append(c.args, x) \in Seq(Nat)
      /\ Append(c.args, x) = c.args \o <<x>>
  BY <1>2, AppendProperties, AppendIsConcat
<1>4. d \in Calls /\ d.args = c.args \o <<x>>
  BY <1>3 DEF Calls
<1>5. more = Append(front, d)
  <2> DEFINE n == Len(front) + 1
  <2>1. /\ calls \in Seq(Calls) /\ Len(calls) = n /\ calls[n] = c /\ n \in Nat \ {0}
        /\ \A k \in 1..Len(front) : calls[k] = front[k]
    BY <1>1, AppendProperties
  <2>2. /\ Append(front, d) \in Seq(Calls) /\ Len(Append(front, d)) = n
        /\ Append(front, d)[n] = d
        /\ \A k \in 1..Len(front) : Append(front, d)[k] = front[k]
    BY <1>4, AppendProperties
  <2>3. DOMAIN calls = 1..n
    BY <2>1
  <2>4. more = [k \in 1..n |-> IF k = n THEN d ELSE calls[k]]
    BY <2>1, <2>3
  <2> HIDE DEF more, d
  <2>5. ASSUME NEW k \in 1..n PROVE more[k] = Append(front, d)[k]
    <3>1. CASE k = n
      BY <2>2, <2>4, <3>1
    <3>2. CASE k # n
      <4>1. k \in 1..Len(front)
        BY <2>1, <3>2
      <4>2. QED
        BY <2>1, <2>2, <2>4, <3>2, <4>1
    <3>3. QED
      BY <3>1, <3>2
  <2>6. more \in Seq(Calls) /\ Len(more) = n
    <3>1. \A k \in 1..n : (IF k = n THEN d ELSE calls[k]) \in Calls
      BY <1>4, <2>1
    <3> DEFINE C == Calls
    <3> HIDE DEF C
    <3>2. \A k \in 1..n : (IF k = n THEN d ELSE calls[k]) \in C
      BY <3>1 DEF C
    <3>3. more \in Seq(C) /\ Len(more) = n
      BY <2>1, <2>4, <3>2
    <3>4. QED
      BY <3>3 DEF C
  <2>7. QED
    BY <2>2, <2>5, <2>6, SeqEqual
<1>6. Arguments(more) = Arguments(front) \o (c.args \o <<x>>)
  BY <1>4, <1>5, ArgumentsAppend
<1>7. Arguments(calls) = Arguments(front) \o c.args
  BY <1>1, ArgumentsAppend
<1>8. (Arguments(front) \o c.args) \o <<x>> = Arguments(front) \o (c.args \o <<x>>)
  <2> DEFINE r == Arguments(front)
             s == c.args
             t == <<x>>
  <2>1. r \in Seq(Nat) /\ s \in Seq(Nat) /\ t \in Seq(Nat)
    BY <1>2, ArgumentsAppend
  <2> HIDE DEF r, s, t
  <2>2. (r \o s) \o t = r \o (s \o t)
    BY <2>1, ConcatAssociative
  <2>3. QED
    BY <2>2 DEF r, s, t
<1>9. more \in Seq(Calls)
  BY <1>4, <1>5, AppendProperties
<1> HIDE DEF more
<1>10. QED
  BY <1>6, <1>7, <1>8, <1>9 DEF more

-----------------------------------------------------------------------------
(* The invariant *)

TypeOK ==
  /\ phase \in {"open", "finished", "over"} /\ sent \in Nat
  /\ said \in Sayings /\ lines \in Seq(Lines) /\ cut \in BOOLEAN
  /\ Legacy => said.calls = << >>

OneChat == Wanted = {0} /\ ~Legacy

TextKept == OneChat => Agrees(Gathered(lines).content, said.content)

CallsKept == Agrees(Arguments(Gathered(lines).calls), Arguments(said.calls))

FinishKept ==
  ~Legacy => /\ Gathered(lines).finish # "none" => said.finish = Gathered(lines).finish
             /\ ~cut => Gathered(lines).finish = said.finish

StreamInv == TypeOK /\ TextKept /\ CallsKept /\ FinishKept

\* What is gathered of lines is a body.
LEMMA GatheredTyped ==
  ASSUME NEW s \in Seq(Lines)
  PROVE  /\ Gathered(s) \in Bodies
         /\ Gathered(s).content \in Seq(Pieces)
         /\ Gathered(s).calls \in Seq(Calls)
         /\ Gathered(s).finish \in Reasons
<1> DEFINE P == Pieces
           C == Calls
           S == Labels
           F == Reasons
<1>1. "none" \in S /\ "none" \in F
  BY DEF Labels, Reasons
<1>2. s \in Seq(Events(P, C, S, F))
  BY DEF Lines
<1> HIDE DEF P, C, S, F
<1>3. Bare \in [data : BOOLEAN, id : S, choices : S, role : S, content : Seq(P), text : Seq(P),
               calls : Seq(C), finish : F, usage : BOOLEAN]
  BY <1>1 DEF Bare
<1>4. Bare \in Events(P, C, S, F)
  BY <1>3 DEF Events
<1>5. Gathered(s) \in Responses(P, C, S, F)
  BY <1>1, <1>2, <1>4, GatheredAppend
<1>6. QED
  BY <1>5 DEF Bodies, Responses, P, C, S, F

\* A line more adds what it has.
LEMMA LineAdds ==
  ASSUME NEW s \in Seq(Lines), NEW x \in Lines
  PROVE  /\ Gathered(Append(s, x)).content = Gathered(s).content \o TextOf(x)
         /\ Gathered(Append(s, x)).calls = Gathered(s).calls \o CallsOf(x)
         /\ Gathered(Append(s, x)).finish = LastNonEmpty(Gathered(s).finish, ReasonOf(x))
         /\ TextOf(x) \in Seq(Pieces) /\ CallsOf(x) \in Seq(Calls)
         /\ ReasonOf(x) \in Reasons
<1>1. "none" \in Labels /\ "none" \in Reasons
  BY DEF Labels, Reasons
<1>2. QED
  BY <1>1, GatheredLine DEF Lines

\* A step that says what it emits keeps the invariant, whether the line is
\* captured or comes after the cut.
LEMMA EmitKeeps ==
  ASSUME StreamInv, NEW x \in Lines, Emit(x),
         phase' \in {"open", "finished", "over"}, said' \in Sayings,
         Legacy => said'.calls = << >>,
         OneChat => said'.content = said.content \o TextOf(x),
         Arguments(said'.calls) = Arguments(said.calls) \o Arguments(CallsOf(x)),
         ~Legacy => said'.finish = LastNonEmpty(said.finish, ReasonOf(x))
  PROVE  StreamInv'
<1> DEFINE g == Gathered(lines)
           h == Gathered(lines')
<1>1. TypeOK /\ TextKept /\ CallsKept /\ FinishKept
  BY DEF StreamInv
<1>2. /\ lines' \in Seq(Lines) /\ sent' \in Nat /\ cut' = cut
      /\ cut => lines' = lines
      /\ ~cut => /\ h.content = g.content \o TextOf(x)
                 /\ h.calls = g.calls \o CallsOf(x)
                 /\ h.finish = LastNonEmpty(g.finish, ReasonOf(x))
  <2>1. lines \in Seq(Lines) /\ sent \in Nat
    BY <1>1 DEF TypeOK
  <2>2. sent' = sent + 1 /\ cut' = cut /\ lines' = IF cut THEN lines ELSE Append(lines, x)
    BY DEF Emit
  <2>3. lines' \in Seq(Lines)
    BY <2>1, <2>2, AppendProperties
  <2>4. ~cut => lines' = Append(lines, x)
    BY <2>2
  <2>5. /\ Gathered(Append(lines, x)).content = g.content \o TextOf(x)
        /\ Gathered(Append(lines, x)).calls = g.calls \o CallsOf(x)
        /\ Gathered(Append(lines, x)).finish = LastNonEmpty(g.finish, ReasonOf(x))
    BY <2>1, LineAdds
  <2>6. ~cut => h = Gathered(Append(lines, x))
    BY <2>4
  <2> HIDE DEF g, h
  <2>7. QED
    BY <2>1, <2>2, <2>3, <2>5, <2>6
<1>3. /\ lines \in Seq(Lines) /\ cut \in BOOLEAN
      /\ said.content \in Seq(Pieces) /\ said.calls \in Seq(Calls) /\ said.finish \in Reasons
  BY <1>1 DEF TypeOK, Sayings
<1>4. g.content \in Seq(Pieces) /\ g.calls \in Seq(Calls) /\ g.finish \in Reasons
  BY <1>3, GatheredTyped
<1>5. TextOf(x) \in Seq(Pieces) /\ CallsOf(x) \in Seq(Calls) /\ ReasonOf(x) \in Reasons
  BY <1>3, LineAdds
<1>6. cut => h = g
  BY <1>2
<1> HIDE DEF g, h
<1>7. TypeOK'
  BY <1>1, <1>2 DEF TypeOK
<1>8. TextKept'
  <2>1. SUFFICES ASSUME OneChat
                 PROVE  IF cut THEN IsPrefix(h.content, said'.content)
                               ELSE h.content = said'.content
    BY <1>2 DEF TextKept, Agrees, OneChat, h
  <2>2. IF cut THEN IsPrefix(g.content, said.content) ELSE g.content = said.content
    BY <1>1, <2>1 DEF TextKept, Agrees, g
  <2>3. said'.content = said.content \o TextOf(x)
    BY <2>1
  <2>4. CASE cut
    BY <1>3, <1>4, <1>5, <1>6, <2>2, <2>3, <2>4, PrefixGrows
  <2>5. CASE ~cut
    BY <1>2, <2>2, <2>3, <2>5
  <2>6. QED
    BY <1>3, <2>4, <2>5
<1>9. CallsKept'
  <2>1. SUFFICES IF cut THEN IsPrefix(Arguments(h.calls), Arguments(said'.calls))
                        ELSE Arguments(h.calls) = Arguments(said'.calls)
    BY <1>2 DEF CallsKept, Agrees, h
  <2>2. IF cut THEN IsPrefix(Arguments(g.calls), Arguments(said.calls))
               ELSE Arguments(g.calls) = Arguments(said.calls)
    BY <1>1 DEF CallsKept, Agrees, g
  <2>3. /\ Arguments(g.calls) \in Seq(Nat) /\ Arguments(said.calls) \in Seq(Nat)
        /\ Arguments(CallsOf(x)) \in Seq(Nat)
    BY <1>3, <1>4, <1>5, ArgumentsAppend
  <2>4. CASE cut
    <3>1. IsPrefix(Arguments(g.calls), Arguments(said.calls) \o Arguments(CallsOf(x)))
      BY <2>2, <2>3, <2>4, PrefixGrows
    <3>2. QED
      BY <1>6, <2>4, <3>1
  <2>5. CASE ~cut
    <3>1. Arguments(g.calls \o CallsOf(x)) = Arguments(g.calls) \o Arguments(CallsOf(x))
      BY <1>4, <1>5, ArgumentsConcat
    <3>2. QED
      BY <1>2, <2>2, <2>5, <3>1
  <2>6. QED
    BY <1>3, <2>4, <2>5
<1>10. FinishKept'
  <2>1. SUFFICES ASSUME ~Legacy
                 PROVE  /\ h.finish # "none" => said'.finish = h.finish
                        /\ ~cut => h.finish = said'.finish
    BY <1>2 DEF FinishKept, h
  <2>2. /\ g.finish # "none" => said.finish = g.finish
        /\ ~cut => g.finish = said.finish
    BY <1>1, <2>1 DEF FinishKept, g
  <2>3. said'.finish = LastNonEmpty(said.finish, ReasonOf(x))
    BY <2>1
  <2>4. QED
    BY <1>2, <1>4, <1>5, <1>6, <2>2, <2>3 DEF LastNonEmpty, Reasons
<1>11. QED
  BY <1>7, <1>8, <1>9, <1>10 DEF StreamInv

-----------------------------------------------------------------------------
(* The lines an upstream sends *)

\* An object without fields, a chunk of choice 0, and noise.
LEMMA LinesTyped ==
  /\ Bare \in Lines /\ Noise \in Lines /\ Chunk \in Lines /\ Scalar("cmpl") \in Lines
  /\ ~Counts(Bare) /\ ~Counts(Noise) /\ ~Counts(Scalar("cmpl"))
  /\ Chunk.data /\ Chunk.choices = IF Legacy THEN "noDelta" ELSE "delta"
  /\ Chunk.content = << >> /\ Chunk.calls = << >> /\ Chunk.finish = "none"
<1> DEFINE nothing == << >>
<1>1. nothing \in Seq(Pieces) /\ nothing \in Seq(Calls)
  OBVIOUS
<1>2. Bare = [data |-> TRUE, id |-> "none", choices |-> "none", role |-> "none",
              content |-> nothing, text |-> nothing, calls |-> nothing,
              finish |-> "none", usage |-> FALSE]
  BY DEF Bare
<1> HIDE DEF nothing
<1>3. Bare \in Lines
  BY <1>1, <1>2 DEF Lines, Events, Labels, Reasons
<1>4. Noise \in Lines /\ ~Counts(Noise)
  BY <1>3 DEF Noise, Counts, Lines, Events
<1>5. ~Counts(Bare)
  BY <1>2 DEF Counts
<1>6. Scalar("cmpl") \in Lines /\ ~Counts(Scalar("cmpl"))
  BY <1>3 DEF Scalar, Counts, Lines, Events, Labels
<1>7. Chunk \in Lines /\ Chunk.choices = IF Legacy THEN "noDelta" ELSE "delta"
  BY <1>3 DEF Chunk, Delta, NoDelta, Lines, Events, Labels
<1>8. /\ Chunk.data = Bare.data /\ Chunk.content = Bare.content
      /\ Chunk.calls = Bare.calls /\ Chunk.finish = Bare.finish
  BY <1>3 DEF Chunk, Delta, NoDelta, Lines, Events
<1>9. Bare.data /\ Bare.content = << >> /\ Bare.calls = << >> /\ Bare.finish = "none"
  BY <1>2 DEF nothing
<1>10. QED
  BY <1>3, <1>4, <1>5, <1>6, <1>7, <1>8, <1>9

\* A line that does not count changes nothing, if the upstream said nothing
\* that the body should have.
LEMMA QuietKeeps ==
  ASSUME StreamInv, NEW x \in Lines, Emit(x), ~Counts(x),
         phase' \in {"open", "finished", "over"}, said' \in Sayings,
         said'.content = said.content, said'.calls = said.calls,
         said'.finish = said.finish
  PROVE  StreamInv'
<1>1. /\ said.content \in Seq(Pieces) /\ said.calls \in Seq(Calls)
      /\ Legacy => said.calls = << >>
  BY DEF StreamInv, TypeOK, Sayings
<1>2. TextOf(x) = << >> /\ CallsOf(x) = << >> /\ ReasonOf(x) = "none"
  BY DEF TextOf, CallsOf, ReasonOf
<1>3. Arguments(said.calls) \in Seq(Nat) /\ Arguments(<< >>) = << >>
  BY <1>1, ArgumentsAppend
<1>4. said.content \o << >> = said.content
  BY <1>1, ConcatEmptySeq
<1>5. Arguments(said.calls) \o << >> = Arguments(said.calls)
  BY <1>3, ConcatEmptySeq
<1>6. LastNonEmpty(said.finish, "none") = said.finish
  BY DEF LastNonEmpty
<1>7. QED
  BY <1>1, <1>2, <1>3, <1>4, <1>5, <1>6, EmitKeeps

\* The upstream's first step.
LEMMA StreamInit ==
  Init => StreamInv
<1> SUFFICES ASSUME Init PROVE StreamInv
  OBVIOUS
<1> DEFINE nothing == << >>
<1>1. /\ phase = "open" /\ sent = 0 /\ lines = nothing /\ cut = FALSE
      /\ said = [role |-> "none", content |-> nothing, calls |-> nothing,
                 finish |-> "none", usage |-> FALSE]
  BY DEF Init
<1>2. nothing \in Seq(Pieces) /\ nothing \in Seq(Calls) /\ nothing \in Seq(Lines)
  OBVIOUS
<1>3. Gathered(lines).content = nothing /\ Gathered(lines).calls = nothing
      /\ Gathered(lines).finish = "none"
  <2>1. "none" \in Labels /\ "none" \in Reasons /\ Bare \in Lines
    BY LinesTyped DEF Labels, Reasons
  <2>2. Gathered(<< >>) = Blank
    BY <1>2, <2>1, GatheredAppend DEF Lines
  <2>3. Gathered(lines) = Blank
    BY <1>1, <2>2
  <2>4. /\ Blank.content = NotJSON(<< >>).content /\ Blank.calls = NotJSON(<< >>).calls
        /\ Blank.finish = NotJSON(<< >>).finish
    BY DEF Blank, NotJSON
  <2>5. /\ NotJSON(<< >>).content = nothing /\ NotJSON(<< >>).calls = nothing
        /\ NotJSON(<< >>).finish = "none"
    BY DEF NotJSON
  <2>6. QED
    BY <2>3, <2>4, <2>5
<1> HIDE DEF nothing
<1>4. said.content = nothing /\ said.calls = nothing /\ said.finish = "none"
  BY <1>1
<1>5. TypeOK
  BY <1>1, <1>2, <1>4 DEF TypeOK, Sayings, Labels, Reasons, nothing
<1>6. QED
  BY <1>1, <1>3, <1>4, <1>5 DEF StreamInv, TextKept, CallsKept, FinishKept, Agrees

-----------------------------------------------------------------------------
(* The steps *)

\* No call adds no argument, no text adds nothing.
LEMMA NothingAdded ==
  ASSUME TypeOK
  PROVE  /\ said.content \in Seq(Pieces) /\ said.calls \in Seq(Calls)
         /\ said.finish \in Reasons /\ said \in Sayings /\ sent \in Nat
         /\ said.content \o << >> = said.content
         /\ Arguments(said.calls) \o Arguments(<< >>) = Arguments(said.calls)
         /\ LastNonEmpty(said.finish, "none") = said.finish
<1>1. /\ said.content \in Seq(Pieces) /\ said.calls \in Seq(Calls)
      /\ said.finish \in Reasons /\ said \in Sayings /\ sent \in Nat
  BY DEF TypeOK, Sayings
<1>2. Arguments(said.calls) \in Seq(Nat) /\ Arguments(<< >>) = << >>
  BY <1>1, ArgumentsAppend
<1>3. said.content \o << >> = said.content
  BY <1>1, ConcatEmptySeq
<1>4. Arguments(said.calls) \o << >> = Arguments(said.calls)
  BY <1>2, ConcatEmptySeq
<1>5. LastNonEmpty(said.finish, "none") = said.finish
  BY DEF LastNonEmpty
<1>6. QED
  BY <1>1, <1>2, <1>3, <1>4, <1>5

LEMMA SayKeeps ==
  ASSUME StreamInv, NEW c \in Wanted, Say(c)
  PROVE  StreamInv'
<1> DEFINE piece == << c, sent + 1 >>
           role == IF said.role = "none" THEN "assistant" ELSE "none"
           x == IF Legacy THEN [Chunk EXCEPT !.text = <<piece>>]
                ELSE [Chunk EXCEPT !.role = role, !.content = <<piece>>]
           text == Append(said.content, piece)
<1>1. TypeOK
  BY DEF StreamInv
<1>2. /\ said.content \in Seq(Pieces) /\ said.calls \in Seq(Calls)
      /\ said.finish \in Reasons /\ said \in Sayings /\ sent \in Nat
      /\ said.content \o << >> = said.content
      /\ Arguments(said.calls) \o Arguments(<< >>) = Arguments(said.calls)
      /\ LastNonEmpty(said.finish, "none") = said.finish
  BY <1>1, NothingAdded
<1>3. piece \in Pieces /\ role \in Labels
  BY <1>2, WantedAssumption DEF Pieces, Labels
<1>4. <<piece>> \in Seq(Pieces)
  BY <1>3
<1>5. /\ phase' = "open" /\ Emit(x)
      /\ said' = IF c = 0 THEN [said EXCEPT !.role = "assistant", !.content = text] ELSE said
  BY <1>1 DEF Say, TypeOK
<1>6. text \in Seq(Pieces) /\ text = said.content \o <<piece>>
  BY <1>2, <1>3, AppendProperties, AppendIsConcat
<1>7. /\ Chunk \in Lines /\ Chunk.data
      /\ Chunk.choices = IF Legacy THEN "noDelta" ELSE "delta"
      /\ Chunk.content = << >> /\ Chunk.calls = << >> /\ Chunk.finish = "none"
  BY LinesTyped
<1> DEFINE w == <<piece>>
<1>8. w \in Seq(Pieces)
  BY <1>4
<1>9. x = IF Legacy THEN [Chunk EXCEPT !.text = w]
          ELSE [Chunk EXCEPT !.role = role, !.content = w]
  OBVIOUS
<1>10. OneChat => c = 0
  BY DEF OneChat
<1>11. text = said.content \o w
  BY <1>6
<1> HIDE DEF x, w, role, text, piece
<1>12. /\ x \in Lines
       /\ Legacy => ~Counts(x)
       /\ ~Legacy => Counts(x) /\ x.content = w
       /\ x.calls = << >> /\ x.finish = "none"
  BY <1>3, <1>7, <1>8, <1>9 DEF Counts, Lines, Events
<1>13. CallsOf(x) = << >> /\ ReasonOf(x) = "none" /\ (~Legacy => TextOf(x) = w)
  BY <1>12 DEF CallsOf, ReasonOf, TextOf
<1>14. /\ said' \in Sayings
       /\ said'.calls = said.calls /\ said'.finish = said.finish
       /\ OneChat => said'.content = said.content \o w
  BY <1>2, <1>5, <1>6, <1>10, <1>11 DEF Sayings, Labels
<1>15. Legacy => said'.calls = << >>
  BY <1>1, <1>14 DEF TypeOK
<1>16. OneChat => said'.content = said.content \o TextOf(x)
  BY <1>13, <1>14 DEF OneChat
<1>17. QED
  BY <1>2, <1>5, <1>12, <1>13, <1>14, <1>15, <1>16, EmitKeeps

LEMMA CallToolKeeps ==
  ASSUME StreamInv, CallTool
  PROVE  StreamInv'
<1> DEFINE call == [id |-> <<"call">>, args |-> <<sent + 1>>]
           w == <<call>>
           x == [Chunk EXCEPT !.role = "assistant", !.calls = w]
           calls == Append(said.calls, call)
<1>1. TypeOK
  BY DEF StreamInv
<1>2. /\ said.content \in Seq(Pieces) /\ said.calls \in Seq(Calls)
      /\ said.finish \in Reasons /\ said \in Sayings /\ sent \in Nat
      /\ said.content \o << >> = said.content
      /\ LastNonEmpty(said.finish, "none") = said.finish
  BY <1>1, NothingAdded
<1>3. call \in Calls
  <2>1. <<"call">> \in Seq({"call"}) /\ <<sent + 1>> \in Seq(Nat)
    BY <1>2
  <2>2. QED
    BY <2>1 DEF Calls
<1>4. /\ phase' = "open" /\ Emit(x) /\ ~Legacy
      /\ said' = [said EXCEPT !.role = "assistant", !.calls = calls]
  BY DEF CallTool
<1> HIDE DEF call
<1>5. w \in Seq(Calls) /\ calls \in Seq(Calls) /\ calls = said.calls \o w
  BY <1>2, <1>3, AppendProperties, AppendIsConcat
<1>6. /\ Chunk \in Lines /\ Chunk.data
      /\ Chunk.choices = IF Legacy THEN "noDelta" ELSE "delta"
      /\ Chunk.content = << >> /\ Chunk.calls = << >> /\ Chunk.finish = "none"
  BY LinesTyped
<1> HIDE DEF w, calls
<1>7. /\ x \in Lines /\ Counts(x)
      /\ x.content = << >> /\ x.calls = w /\ x.finish = "none"
  BY <1>4, <1>5, <1>6 DEF Counts, Lines, Events, Labels
<1> HIDE DEF x
<1>8. CallsOf(x) = w /\ ReasonOf(x) = "none" /\ TextOf(x) = << >>
  BY <1>7 DEF CallsOf, ReasonOf, TextOf
<1>9. /\ said' \in Sayings /\ said'.calls = calls
      /\ said'.content = said.content /\ said'.finish = said.finish
  BY <1>2, <1>4, <1>5 DEF Sayings, Labels
<1>10. Arguments(said'.calls) = Arguments(said.calls) \o Arguments(CallsOf(x))
  BY <1>2, <1>5, <1>8, <1>9, ArgumentsConcat
<1>11. QED
  BY <1>2, <1>4, <1>7, <1>8, <1>9, <1>10, EmitKeeps

LEMMA ContinueCallKeeps ==
  ASSUME StreamInv, ContinueCall
  PROVE  StreamInv'
<1> DEFINE a == <<sent + 1>>
           fragment == [id |-> << >>, args |-> a]
           w == <<fragment>>
           x == [Chunk EXCEPT !.calls = w]
           calls == [said.calls EXCEPT ![Len(said.calls)].args = Append(@, sent + 1)]
<1>1. TypeOK
  BY DEF StreamInv
<1>2. /\ said.content \in Seq(Pieces) /\ said.calls \in Seq(Calls)
      /\ said.finish \in Reasons /\ said \in Sayings /\ sent \in Nat
      /\ said.content \o << >> = said.content
      /\ LastNonEmpty(said.finish, "none") = said.finish
  BY <1>1, NothingAdded
<1>3. /\ phase' = "open" /\ Emit(x) /\ said.calls # << >>
      /\ said' = [said EXCEPT !.calls = calls]
  BY DEF ContinueCall
<1>4. ~Legacy
  BY <1>1, <1>3 DEF TypeOK
<1>5. a \in Seq(Nat) /\ sent + 1 \in Nat
  BY <1>2
<1>6. calls \in Seq(Calls) /\ Arguments(calls) = Arguments(said.calls) \o a
  BY <1>2, <1>3, <1>5, ArgumentsMore
<1>7. fragment \in Calls /\ fragment.args = a
  <2>1. << >> \in Seq({"call"})
    OBVIOUS
  <2> HIDE DEF a
  <2>2. QED
    BY <1>5, <2>1 DEF Calls
<1> HIDE DEF a, fragment, calls
<1>8. w \in Seq(Calls) /\ Arguments(w) = a
  <2>1. << >> \in Seq(Calls) /\ w = Append(<< >>, fragment) /\ w \in Seq(Calls)
    BY <1>7
  <2>2. Arguments(w) = << >> \o a
    BY <1>7, <2>1, ArgumentsAppend
  <2>3. QED
    BY <1>5, <2>1, <2>2, ConcatEmptySeq
<1>9. /\ Chunk \in Lines /\ Chunk.data
      /\ Chunk.choices = IF Legacy THEN "noDelta" ELSE "delta"
      /\ Chunk.content = << >> /\ Chunk.calls = << >> /\ Chunk.finish = "none"
  BY LinesTyped
<1> HIDE DEF w
<1>10. /\ x \in Lines /\ Counts(x)
       /\ x.content = << >> /\ x.calls = w /\ x.finish = "none"
  BY <1>4, <1>8, <1>9 DEF Counts, Lines, Events
<1> HIDE DEF x
<1>11. CallsOf(x) = w /\ ReasonOf(x) = "none" /\ TextOf(x) = << >>
  BY <1>10 DEF CallsOf, ReasonOf, TextOf
<1>12. /\ said' \in Sayings /\ said'.calls = calls
       /\ said'.content = said.content /\ said'.finish = said.finish
  BY <1>2, <1>3, <1>6 DEF Sayings
<1>13. Arguments(said'.calls) = Arguments(said.calls) \o Arguments(CallsOf(x))
  BY <1>6, <1>8, <1>11, <1>12
<1>14. QED
  BY <1>2, <1>3, <1>4, <1>10, <1>11, <1>12, <1>13, EmitKeeps

LEMMA FinishKeeps ==
  ASSUME StreamInv, Finish
  PROVE  StreamInv'
<1>1. TypeOK
  BY DEF StreamInv
<1>2. /\ said.content \in Seq(Pieces) /\ said.calls \in Seq(Calls)
      /\ said.finish \in Reasons /\ said \in Sayings
      /\ said.content \o << >> = said.content
      /\ Arguments(said.calls) \o Arguments(<< >>) = Arguments(said.calls)
  BY <1>1, NothingAdded
<1>3. PICK withUsage \in BOOLEAN :
        /\ Emit([Chunk EXCEPT !.finish = "stop", !.usage = withUsage])
        /\ said' = [said EXCEPT !.finish = "stop", !.usage = withUsage]
  BY DEF Finish
<1> DEFINE x == [Chunk EXCEPT !.finish = "stop", !.usage = withUsage]
<1>4. phase' = "finished"
  BY DEF Finish
<1>5. /\ Chunk \in Lines /\ Chunk.data
      /\ Chunk.choices = IF Legacy THEN "noDelta" ELSE "delta"
      /\ Chunk.content = << >> /\ Chunk.calls = << >> /\ Chunk.finish = "none"
  BY LinesTyped
<1>6. /\ x \in Lines /\ (Counts(x) <=> ~Legacy)
      /\ x.content = << >> /\ x.calls = << >> /\ x.finish = "stop"
  BY <1>5 DEF Counts, Lines, Events, Reasons
<1>7. /\ said' \in Sayings /\ said'.calls = said.calls
      /\ said'.content = said.content /\ said'.finish = "stop"
  BY <1>2, <1>3 DEF Sayings, Reasons
<1>8. Emit(x)
  BY <1>3
<1> HIDE DEF x
<1>9. CallsOf(x) = << >> /\ TextOf(x) = << >> /\ (~Legacy => ReasonOf(x) = "stop")
  BY <1>6 DEF CallsOf, ReasonOf, TextOf
<1>10. LastNonEmpty(said.finish, "stop") = "stop"
  BY DEF LastNonEmpty
<1>11. Legacy => said'.calls = << >>
  BY <1>1, <1>7 DEF TypeOK
<1>12. QED
  BY <1>2, <1>4, <1>6, <1>7, <1>8, <1>9, <1>10, <1>11, EmitKeeps

\* Usage, noise and failure are lines of which nothing is read.
LEMMA QuietStepsKeep ==
  ASSUME StreamInv, Usage \/ SendNoise \/ Fail
  PROVE  StreamInv'
<1>1. TypeOK
  BY DEF StreamInv
<1>2. said \in Sayings /\ phase \in {"open", "finished", "over"}
  BY <1>1 DEF TypeOK
<1>3. CASE Usage
  <2> DEFINE x == [Bare EXCEPT !.id = "cmpl", !.usage = TRUE]
  <2>1. /\ Emit(x) /\ said' = [said EXCEPT !.usage = TRUE] /\ phase' = "over"
    BY <1>3 DEF Usage
  <2>2. x \in Lines /\ ~Counts(x)
    BY LinesTyped DEF Counts, Lines, Events, Labels
  <2>3. /\ said' \in Sayings /\ said'.calls = said.calls
        /\ said'.content = said.content /\ said'.finish = said.finish
    BY <1>2, <2>1 DEF Sayings
  <2> HIDE DEF x
  <2>4. QED
    BY <2>1, <2>2, <2>3, QuietKeeps
<1>4. CASE SendNoise
  <2>1. Emit(Noise) /\ said' = said /\ phase' = phase
    BY <1>4 DEF SendNoise
  <2>2. QED
    BY <1>2, <2>1, LinesTyped, QuietKeeps
<1>5. CASE Fail
  <2>1. (Emit(Bare) \/ Emit(Scalar("cmpl"))) /\ said' = said /\ phase' = "over"
    BY <1>5 DEF Fail
  <2>2. QED
    BY <1>2, <2>1, LinesTyped, QuietKeeps
<1>6. QED
  BY <1>3, <1>4, <1>5

\* The cut leaves what was captured, or all but the last line.
LEMMA CutKeeps ==
  ASSUME StreamInv, Cut
  PROVE  StreamInv'
<1>1. TypeOK /\ TextKept /\ CallsKept /\ FinishKept
  BY DEF StreamInv
<1>2. /\ ~cut /\ lines # << >> /\ cut' = TRUE
      /\ lines' = Append(lines, Noise) \/ lines' = Append(Front(lines), Noise)
      /\ phase' = phase /\ sent' = sent /\ said' = said
  BY DEF Cut
<1>3. /\ lines \in Seq(Lines) /\ said.content \in Seq(Pieces) /\ said.calls \in Seq(Calls)
      /\ Noise \in Lines /\ ~Counts(Noise)
  BY <1>1, LinesTyped DEF TypeOK, Sayings
<1>4. PICK f \in Seq(Lines), y \in Lines : lines = Append(f, y)
  BY <1>2, <1>3, SequenceEmptyOrAppend
<1>5. Front(lines) = f
  <2>1. Len(lines) = Len(f) + 1 /\ Len(f) \in Nat /\ \A i \in 1..Len(f) : lines[i] = f[i]
    BY <1>4, AppendProperties
  <2>2. Front(lines) = SubSeq(lines, 1, Len(f))
    BY <2>1 DEF Front
  <2>3. \A i \in 1..Len(f) : lines[i] \in Lines
    BY <1>3, <2>1
  <2>4. /\ SubSeq(lines, 1, Len(f)) \in Seq(Lines) /\ Len(SubSeq(lines, 1, Len(f))) = Len(f)
        /\ \A i \in 1..Len(f) : SubSeq(lines, 1, Len(f))[i] = lines[i]
    BY <2>1, <2>3, SubSeqProperties
  <2>5. QED
    BY <2>1, <2>2, <2>4, SeqEqual
<1> DEFINE g == Gathered(lines)
           b == Gathered(f)
           h == Gathered(lines')
<1>6. /\ g.content = b.content \o TextOf(y) /\ g.calls = b.calls \o CallsOf(y)
      /\ g.finish = LastNonEmpty(b.finish, ReasonOf(y))
      /\ TextOf(y) \in Seq(Pieces) /\ CallsOf(y) \in Seq(Calls) /\ ReasonOf(y) \in Reasons
  BY <1>4, LineAdds
<1>7. /\ b.content \in Seq(Pieces) /\ b.calls \in Seq(Calls) /\ b.finish \in Reasons
      /\ g.content \in Seq(Pieces) /\ g.calls \in Seq(Calls) /\ g.finish \in Reasons
  BY <1>3, <1>4, GatheredTyped
<1>8. \/ h.content = g.content /\ h.calls = g.calls /\ h.finish = g.finish
      \/ h.content = b.content /\ h.calls = b.calls /\ h.finish = b.finish
  <2>1. ASSUME NEW s \in Seq(Lines)
        PROVE  /\ Gathered(Append(s, Noise)).content = Gathered(s).content
               /\ Gathered(Append(s, Noise)).calls = Gathered(s).calls
               /\ Gathered(Append(s, Noise)).finish = Gathered(s).finish
    <3>1. TextOf(Noise) = << >> /\ CallsOf(Noise) = << >> /\ ReasonOf(Noise) = "none"
      BY <1>3 DEF TextOf, CallsOf, ReasonOf
    <3>2. /\ Gathered(Append(s, Noise)).content = Gathered(s).content \o << >>
          /\ Gathered(Append(s, Noise)).calls = Gathered(s).calls \o << >>
          /\ Gathered(Append(s, Noise)).finish = LastNonEmpty(Gathered(s).finish, "none")
      BY <1>3, <3>1, LineAdds
    <3>3. Gathered(s).content \in Seq(Pieces) /\ Gathered(s).calls \in Seq(Calls)
      BY GatheredTyped
    <3>4. /\ Gathered(s).content \o << >> = Gathered(s).content
          /\ Gathered(s).calls \o << >> = Gathered(s).calls
      BY <3>3, ConcatEmptySeq
    <3>5. QED
      BY <3>2, <3>4 DEF LastNonEmpty
  <2>2. QED
    BY <1>2, <1>3, <1>5, <2>1
<1>9. lines' \in Seq(Lines)
  <2>1. Append(lines, Noise) \in Seq(Lines) /\ Append(f, Noise) \in Seq(Lines)
    BY <1>3, AppendProperties
  <2>2. QED
    BY <1>2, <1>5, <2>1
<1> HIDE DEF g, b, h
<1>10. TypeOK'
  BY <1>1, <1>2, <1>9 DEF TypeOK
<1>11. TextKept'
  <2>1. SUFFICES ASSUME OneChat PROVE IsPrefix(h.content, said.content)
    BY <1>2 DEF TextKept, Agrees, OneChat, h
  <2>2. g.content = said.content
    BY <1>1, <1>2, <2>1 DEF TextKept, Agrees, g
  <2>3. IsPrefix(b.content, g.content)
    BY <1>6, <1>7, PrefixConcat
  <2>4. IsPrefix(g.content, g.content)
    <3>1. << >> \in Seq(Pieces) /\ g.content \o << >> = g.content
      BY <1>7, ConcatEmptySeq
    <3>2. QED
      BY <1>7, <3>1, PrefixConcat
  <2>5. QED
    BY <1>8, <2>2, <2>3, <2>4
<1>12. CallsKept'
  <2>1. SUFFICES IsPrefix(Arguments(h.calls), Arguments(said.calls))
    BY <1>2 DEF CallsKept, Agrees, h
  <2>2. Arguments(g.calls) = Arguments(said.calls)
    BY <1>1, <1>2 DEF CallsKept, Agrees, g
  <2> DEFINE r == Arguments(b.calls)
             s == Arguments(CallsOf(y))
             q == Arguments(g.calls)
  <2>3. r \in Seq(Nat) /\ s \in Seq(Nat) /\ q \in Seq(Nat)
    BY <1>6, <1>7, ArgumentsAppend
  <2>4. q = r \o s
    BY <1>6, <1>7, ArgumentsConcat
  <2> HIDE DEF r, s, q
  <2>5. IsPrefix(r, q)
    BY <2>3, <2>4, PrefixConcat
  <2>6. IsPrefix(q, q)
    <3>1. << >> \in Seq(Nat) /\ q \o << >> = q
      BY <2>3, ConcatEmptySeq
    <3>2. QED
      BY <2>3, <3>1, PrefixConcat
  <2>7. h.calls = g.calls \/ h.calls = b.calls
    BY <1>8
  <2>8. QED
    BY <2>2, <2>5, <2>6, <2>7 DEF r, q
<1>13. FinishKept'
  <2>1. SUFFICES ASSUME ~Legacy, h.finish # "none" PROVE said.finish = h.finish
    BY <1>2 DEF FinishKept, h
  <2>2. g.finish = said.finish
    BY <1>1, <1>2, <2>1 DEF FinishKept, g
  <2>3. QED
    BY <1>6, <1>7, <1>8, <2>1, <2>2 DEF LastNonEmpty, Reasons
<1>14. QED
  BY <1>10, <1>11, <1>12, <1>13 DEF StreamInv

LEMMA StreamStep ==
  StreamInv /\ [Next]_vars => StreamInv'
<1> SUFFICES ASSUME StreamInv, [Next]_vars PROVE StreamInv'
  OBVIOUS
<1>1. ASSUME NEW c \in Wanted, Say(c) PROVE StreamInv'
  BY <1>1, SayKeeps
<1>2. CASE CallTool
  BY <1>2, CallToolKeeps
<1>3. CASE ContinueCall
  BY <1>3, ContinueCallKeeps
<1>4. CASE Finish
  BY <1>4, FinishKeeps
<1>5. CASE Usage \/ SendNoise \/ Fail
  BY <1>5, QuietStepsKeep
<1>6. CASE Cut
  BY <1>6, CutKeeps
<1>7. CASE UNCHANGED vars
  BY <1>7 DEF vars, StreamInv, TypeOK, TextKept, CallsKept, FinishKept, Agrees
<1>8. QED
  BY <1>1, <1>2, <1>3, <1>4, <1>5, <1>6, <1>7 DEF Next

\* The capture and the history of what was said keep their types, and what is
\* gathered of the one agrees with the other.
THEOREM StreamInvariant == Spec => []StreamInv
<1>1. Init => StreamInv
  BY StreamInit
<1>2. StreamInv /\ [Next]_vars => StreamInv'
  BY StreamStep
<1>3. QED
  BY <1>1, <1>2, PTL DEF Spec

\* The recorded response is what was gathered, without the calls beside a text.
LEMMA RecordedGathered ==
  ASSUME TypeOK, Rebuilt
  PROVE  /\ Recorded.content = Gathered(lines).content
         /\ Recorded.finish = Gathered(lines).finish
         /\ Recorded.content = << >> => Recorded.calls = Gathered(lines).calls
<1> DEFINE g == Gathered(lines)
<1>1. Recorded = Message(g)
  BY ReconstructShows DEF Rebuilt, Recorded
<1>2. g \in Bodies
  BY GatheredTyped DEF TypeOK
<1> HIDE DEF g
<1>3. /\ Message(g).content = g.content /\ Message(g).finish = g.finish
      /\ g.content = << >> => Message(g).calls = g.calls
  BY <1>2 DEF Message, Bodies, Responses
<1>4. QED
  BY <1>1, <1>3 DEF g

\* The recorded text of a chat with one choice is what the upstream said, each
\* piece once and in its order, up to where the capture was cut (the loop of
\* reconstructOpenAIStream over whatever parseSSEChunks leaves).
THEOREM TextRebuilt ==
  ASSUME Wanted = {0}, ~Legacy
  PROVE  Spec => []ContentRebuilt
<1>1. ASSUME StreamInv PROVE ContentRebuilt
  <2>1. SUFFICES ASSUME Rebuilt PROVE Agrees(Recorded.content, said.content)
    BY DEF ContentRebuilt
  <2>2. Recorded.content = Gathered(lines).content
    BY <1>1, <2>1, RecordedGathered DEF StreamInv
  <2>3. QED
    BY <1>1, <2>2 DEF StreamInv, TextKept, OneChat
<1>2. QED
  BY <1>1, StreamInvariant, PTL

\* If the message has no text beside the calls, no piece of their arguments is
\* lost, repeated or moved, however they are fragmented and however many choices
\* the client asked for.
THEOREM ArgumentsRebuilt == Spec => []ArgumentsKept
<1>1. ASSUME StreamInv PROVE ArgumentsKept
  <2>1. SUFFICES ASSUME Rebuilt, Recorded.content = << >>
                 PROVE  Agrees(Arguments(Recorded.calls), Arguments(said.calls))
    BY DEF ArgumentsKept
  <2>2. Recorded.calls = Gathered(lines).calls
    BY <1>1, <2>1, RecordedGathered DEF StreamInv
  <2>3. QED
    BY <1>1, <2>2 DEF StreamInv, CallsKept
<1>2. QED
  BY <1>1, StreamInvariant, PTL

\* An entry of a chat looks finished only if the stream was, and does if it was
\* and nothing was cut.
THEOREM ReasonRebuilt ==
  ASSUME ~Legacy
  PROVE  Spec => []FinishRebuilt
<1>1. ASSUME StreamInv PROVE FinishRebuilt
  <2>1. SUFFICES ASSUME Rebuilt
                 PROVE  /\ Recorded.finish # "none" => said.finish = Recorded.finish
                        /\ ~cut => Recorded.finish = said.finish
    BY DEF FinishRebuilt
  <2>2. Recorded.finish = Gathered(lines).finish
    BY <1>1, <2>1, RecordedGathered DEF StreamInv
  <2>3. QED
    BY <1>1, <2>2 DEF StreamInv, FinishKept
<1>2. QED
  BY <1>1, StreamInvariant, PTL
=============================================================================
