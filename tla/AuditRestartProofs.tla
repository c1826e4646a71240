------------------------- MODULE AuditRestartProofs -------------------------
(***************************************************************************)
(* Theorems about the verifier and about AuditRestart.                     *)
(*                                                                         *)
(* The scan of verifyLog accepts a file exactly when the file reads as one *)
(* chain, for every file of lines and torn parts, of any length and with   *)
(* anything in its lines.  For any number of runs, with kills in any state *)
(* and writes that fail in any of their three ways: each run's lines are a *)
(* chain, no entry is recorded twice, a kill loses no more than the        *)
(* channel and the pending map hold, and the verifier decides the file.    *)
(***************************************************************************)
EXTENDS AuditRestart, AuditWorkerProofs, FoldTheorems

-----------------------------------------------------------------------------
(* The verifier *)

\* What a file can consist of.
Parts == Lines \cup {Torn}

ExitCodes == {ExitSuccess, ExitChainBroken, ExitDataTampered, ExitParseError, ExitScanError}

ScanStates == [exit : ExitCodes, known : BOOLEAN, expected : Digests,
               errors : Nat, torn : BOOLEAN]

-----------------------------------------------------------------------------
(* The two folds, part by part *)

\* What the branches of the scan return.
LEMMA UnparsableTyped ==
  ASSUME NEW v \in ScanStates
  PROVE  Unparsable(v) \in ScanStates
<1> DEFINE e == v.errors + 1
           x == IF e > MaxParseErrors THEN ExitParseError ELSE v.exit
<1>1. e \in Nat /\ x \in ExitCodes
  BY DEF ScanStates, ExitCodes
<1>2. Unparsable(v) = [v EXCEPT !.errors = e, !.torn = FALSE, !.exit = x]
  BY DEF Unparsable
<1>3. QED
  <2> HIDE DEF e, x
  <2> QED
    BY <1>1, <1>2 DEF ScanStates

\* The scan keeps its type.
LEMMA ScanTyped ==
  ASSUME NEW v \in ScanStates, NEW part \in Parts
  PROVE  ScanPart(v, part) \in ScanStates
<1>1. CASE part \in Lines
  <2>1. part.hash \in Digests /\ part.kind = "line"
    BY <1>1 DEF Lines
  <2>2. /\ [v EXCEPT !.exit = ExitScanError] \in ScanStates
        /\ [v EXCEPT !.exit = ExitChainBroken] \in ScanStates
        /\ [v EXCEPT !.exit = ExitDataTampered] \in ScanStates
        /\ [v EXCEPT !.known = TRUE, !.expected = part.hash] \in ScanStates
    BY <2>1 DEF ScanStates, ExitCodes
  <2>3. QED
    BY <2>1, <2>2, UnparsableTyped DEF ScanPart
<1>2. CASE part = Torn
  <2>1. part.kind = "torn" /\ [v EXCEPT !.torn = TRUE] \in ScanStates
    BY <1>2 DEF ScanStates, Torn
  <2>2. QED
    BY <2>1 DEF ScanPart
<1>3. QED
  BY <1>1, <1>2 DEF Parts

LEMMA ScanStartTyped == ScanStart \in ScanStates
  BY DEF ScanStart, ScanStates, ExitCodes, Digests, Genesis

\* The state of the scan after each part of the file, and after the last one.
LEMMA ScanSteps ==
  ASSUME NEW log \in Seq(Parts)
  PROVE  \E f \in [0..Len(log) -> ScanStates] :
           /\ f[0] = ScanStart
           /\ \A i \in 1..Len(log) : f[i] = ScanPart(f[i - 1], log[i])
           /\ FoldLeft(ScanPart, ScanStart, log) = f[Len(log)]
<1> DEFINE n == Len(log)
           step == [x \in ScanStates \X (1..n) |-> ScanPart(x[1], log[x[2]])]
           Eq(g) == g = [t \in SUBSET DOMAIN log |->
                           IF t = {} THEN ScanStart ELSE ScanPart(g[t \ {Max(t)}], log[Max(t)])]
           it == CHOOSE g : Eq(g)
<1>1. n \in Nat /\ DOMAIN log = 1..n /\ \A i \in 1..n : log[i] \in Parts
  BY LenProperties
<1>2. FoldLeft(ScanPart, ScanStart, log) = it[DOMAIN log]
  BY Zenon DEF FoldLeft, MapThenFoldSet
<1>3. step \in [ScanStates \X (1..n) -> ScanStates]
  BY <1>1, ScanTyped
<1>4. PICK h \in [SUBSET (1..n) -> ScanStates] : IsFold(h, n, ScanStart, step)
  <2> HIDE DEF n, step
  <2> QED
    BY <1>1, <1>3, ScanStartTyped, FoldExists, Zenon
<1>5. Eq(h)
  <2> HIDE DEF n
  <2>1. ASSUME NEW t \in SUBSET (1..n), t # {}
        PROVE  step[<<h[t \ {Max(t)}], Max(t)>>] = ScanPart(h[t \ {Max(t)}], log[Max(t)])
    <3>1. Max(t) \in 1..n
      BY <1>1, <2>1, GreatestElement
    <3>2. h[t \ {Max(t)}] \in ScanStates
      OBVIOUS
    <3> HIDE DEF ScanStates
    <3>3. QED
      BY <3>1, <3>2
  <2> HIDE DEF step
  <2>2. h = [t \in SUBSET DOMAIN log |->
               IF t = {} THEN ScanStart ELSE step[<<h[t \ {Max(t)}], Max(t)>>]]
    BY <1>1, <1>4 DEF IsFold
  <2>3. QED
    BY <1>1, <2>1, <2>2
<1>6. Eq(it)
  <2> HIDE DEF Eq
  <2> QED
    BY <1>5
<1>7. it[1..0] = ScanStart /\ \A i \in 1..n : it[1..i] = ScanPart(it[1..(i - 1)], log[i])
  <2> HIDE DEF it, n
  <2>1. 1..0 = {}
    OBVIOUS
  <2>2. it[{}] = ScanStart
    BY <1>6
  <2>3. ASSUME NEW i \in 1..n PROVE it[1..i] = ScanPart(it[1..(i - 1)], log[i])
    <3>1. (1..i) \in SUBSET DOMAIN log /\ i \in 1..i
      BY <1>1
    <3>2. it[1..i] = ScanPart(it[(1..i) \ {Max(1..i)}], log[Max(1..i)])
      BY <1>6, <3>1
    <3>3. Max(1..i) = i /\ (1..i) \ {Max(1..i)} = 1..(i - 1)
      BY <1>1, IntervalMax
    <3>4. QED
      BY <3>2, <3>3
  <2>4. QED
    BY <2>1, <2>2, <2>3
<1> DEFINE f == [i \in 0..n |-> it[1..i]]
<1>8. f[0] = ScanStart /\ \A i \in 1..n : f[i] = ScanPart(f[i - 1], log[i])
  <2> HIDE DEF it, n
  <2> QED
    BY <1>1, <1>7
<1>9. \A i \in 0..n : f[i] \in ScanStates
  <2> DEFINE S == {i \in 0..n : f[i] \in ScanStates}
  <2> HIDE DEF it, n, f
  <2>1. 0 \in S
    BY <1>1, <1>8, ScanStartTyped
  <2>2. ASSUME NEW i \in 1..n, i - 1 \in S PROVE i \in S
    BY <1>1, <1>8, <2>2, ScanTyped
  <2>3. \A i \in 0..n : i \in S
    <3> HIDE DEF S
    <3> QED
      BY <1>1, <2>1, <2>2, ScanInduction, Zenon
  <2>4. QED
    BY <2>3
<1>10. FoldLeft(ScanPart, ScanStart, log) = f[n]
  <2> HIDE DEF it, n
  <2> QED
    BY <1>1, <1>2
<1>11. f \in [0..n -> ScanStates]
  <2> HIDE DEF it, n
  <2> QED
    BY <1>9
<1>12. QED
  <2> HIDE DEF f
  <2> QED
    BY <1>8, <1>10, <1>11

\* Part i is a line of its own: no torn part stands before it.
Readable(log, i) == log[i].kind = "line" /\ (i > 1 => log[i - 1].kind = "line")

ReadNext(log, out, i) == IF Readable(log, i) THEN Append(out, log[i]) ELSE out

\* The lines parsed after each part of the file, and after the last one.
LEMMA ParsedSteps ==
  ASSUME NEW log \in Seq(Parts)
  PROVE  \E f \in [0..Len(log) -> Seq(Lines)] :
           /\ f[0] = << >>
           /\ \A i \in 1..Len(log) : f[i] = ReadNext(log, f[i - 1], i)
           /\ ParsedLines(log) = f[Len(log)]
<1> DEFINE n == Len(log)
           index == [i \in 1..n |-> i]
           step == [x \in Seq(Lines) \X (1..n) |-> ReadNext(log, x[1], x[2])]
           Eq(g) == g = [t \in SUBSET DOMAIN index |->
                           IF t = {} THEN << >>
                           ELSE IF /\ log[index[Max(t)]].kind = "line"
                                   /\ (index[Max(t)] > 1 =>
                                         log[index[Max(t)] - 1].kind = "line")
                                THEN Append(g[t \ {Max(t)}], log[index[Max(t)]])
                                ELSE g[t \ {Max(t)}]]
           it == CHOOSE g : Eq(g)
<1>1. n \in Nat /\ \A i \in 1..n : log[i] \in Parts
  BY LenProperties
<1>2. ParsedLines(log) = it[DOMAIN index]
  BY Zenon DEF ParsedLines, FoldLeft, MapThenFoldSet
<1>3. ASSUME NEW out \in Seq(Lines), NEW i \in 1..n
      PROVE  ReadNext(log, out, i) \in Seq(Lines)
  <2>1. CASE Readable(log, i)
    <3>1. log[i] \in Lines
      BY <1>1, <2>1 DEF Readable, Parts, Torn
    <3>2. QED
      BY <2>1, <3>1, AppendProperties DEF ReadNext
  <2>2. QED
    BY <2>1 DEF ReadNext
<1>4. step \in [Seq(Lines) \X (1..n) -> Seq(Lines)]
  BY <1>3
<1>5. << >> \in Seq(Lines)
  OBVIOUS
<1>6. PICK h \in [SUBSET (1..n) -> Seq(Lines)] : IsFold(h, n, << >>, step)
  <2> HIDE DEF n, step
  <2> QED
    BY <1>1, <1>4, <1>5, FoldExists, Zenon
<1>7. ASSUME NEW g
      PROVE  Eq(g) <=> g = [t \in SUBSET (1..n) |->
                              IF t = {} THEN << >> ELSE ReadNext(log, g[t \ {Max(t)}], Max(t))]
  <2> HIDE DEF n
  <2>1. DOMAIN index = 1..n
    OBVIOUS
  <2>2. ASSUME NEW t \in SUBSET (1..n), t # {} PROVE index[Max(t)] = Max(t)
    BY <1>1, <2>2, GreatestElement
  <2> HIDE DEF index
  <2>3. QED
    BY <2>1, <2>2 DEF ReadNext, Readable
<1>8. Eq(h)
  <2> HIDE DEF n, Eq
  <2>1. ASSUME NEW t \in SUBSET (1..n), t # {}
        PROVE  step[<<h[t \ {Max(t)}], Max(t)>>] = ReadNext(log, h[t \ {Max(t)}], Max(t))
    <3>1. Max(t) \in 1..n
      BY <1>1, <2>1, GreatestElement
    <3>2. h[t \ {Max(t)}] \in Seq(Lines)
      OBVIOUS
    <3>3. QED
      BY <3>1, <3>2
  <2> HIDE DEF step
  <2>2. h = [t \in SUBSET (1..n) |->
               IF t = {} THEN << >> ELSE step[<<h[t \ {Max(t)}], Max(t)>>]]
    BY <1>6 DEF IsFold
  <2>3. QED
    BY <1>7, <2>1, <2>2
<1>9. it = [t \in SUBSET (1..n) |->
              IF t = {} THEN << >> ELSE ReadNext(log, it[t \ {Max(t)}], Max(t))]
  <2> HIDE DEF Eq, n
  <2>1. Eq(it)
    BY <1>8
  <2>2. QED
    BY <1>7, <2>1
<1>10. it[1..0] = << >> /\ \A i \in 1..n : it[1..i] = ReadNext(log, it[1..(i - 1)], i)
  <2> HIDE DEF it, n
  <2>1. 1..0 = {}
    OBVIOUS
  <2>2. it[{}] = << >>
    BY <1>9
  <2>3. ASSUME NEW i \in 1..n PROVE it[1..i] = ReadNext(log, it[1..(i - 1)], i)
    <3>1. (1..i) \in SUBSET (1..n) /\ i \in 1..i
      BY <1>1
    <3>2. it[1..i] = ReadNext(log, it[(1..i) \ {Max(1..i)}], Max(1..i))
      BY <1>9, <3>1
    <3>3. Max(1..i) = i /\ (1..i) \ {Max(1..i)} = 1..(i - 1)
      BY <1>1, IntervalMax
    <3>4. QED
      BY <3>2, <3>3
  <2>4. QED
    BY <2>1, <2>2, <2>3
<1> DEFINE f == [i \in 0..n |-> it[1..i]]
<1>11. f[0] = << >> /\ \A i \in 1..n : f[i] = ReadNext(log, f[i - 1], i)
  <2> HIDE DEF it, n
  <2> QED
    BY <1>1, <1>10
<1>12. f \in [0..n -> Seq(Lines)]
  <2> DEFINE S == {i \in 0..n : f[i] \in Seq(Lines)}
  <2> HIDE DEF it, n, f
  <2>1. 0 \in S
    <3>1. f[0] \in Seq(Lines)
      BY <1>5, <1>11, Zenon
    <3>2. QED
      BY <1>1, <3>1
  <2>2. ASSUME NEW i \in 1..n, i - 1 \in S PROVE i \in S
    BY <1>1, <1>3, <1>11, <2>2
  <2>3. \A i \in 0..n : i \in S
    <3> HIDE DEF S
    <3> QED
      BY <1>1, <2>1, <2>2, ScanInduction, Zenon
  <2>4. QED
    BY <2>3 DEF f
<1>13. ParsedLines(log) = f[n]
  <2> HIDE DEF it, n
  <2>1. DOMAIN index = 1..n
    OBVIOUS
  <2>2. QED
    BY <1>1, <1>2, <2>1
<1>14. QED
  <2> HIDE DEF f
  <2> QED
    BY <1>11, <1>12, <1>13

-----------------------------------------------------------------------------
(* What the scan knows of the parts it has seen *)

\* No line among the first i parts is too long.
LongFree(log, i) == \A j \in 1..i : log[j].kind = "line" => log[j].req \notin LongLines

\* Each line has the digest that calculateHash gets, and continues the one
\* before it.
Sound(lines) ==
  \A k \in 1..Len(lines) :
    /\ CalculatedHash(lines[k]) = lines[k].hash
    /\ k > 1 => lines[k].prev = lines[k - 1].hash

\* The torn parts that took a line with them, the line among the first i parts.
Swallowed(log, i) ==
  { j \in 1..(i - 1) : log[j].kind = "torn" /\ log[j + 1].kind = "line" }

Few(log, i) == Cardinality(Swallowed(log, i)) <= MaxParseErrors

\* The scan has not exited exactly when nothing is wrong so far, and then what
\* it keeps is about the last part and the last line it parsed.
ScanInv(log, v, lines, i) ==
  /\ v.exit = ExitSuccess <=> LongFree(log, i) /\ Sound(lines) /\ Few(log, i)
  /\ v.exit = ExitSuccess =>
       /\ v.torn <=> i > 0 /\ log[i].kind = "torn"
       /\ v.errors = Cardinality(Swallowed(log, i))
       /\ v.known <=> lines # << >>
       /\ lines # << >> => v.expected = lines[Len(lines)].hash

\* A further line is sound if it continues the last.
LEMMA SoundAppend ==
  ASSUME NEW lines \in Seq(Lines), NEW x \in Lines
  PROVE  Sound(Append(lines, x)) <=>
           /\ Sound(lines) /\ CalculatedHash(x) = x.hash
           /\ lines # << >> => x.prev = lines[Len(lines)].hash
<1> DEFINE n == Len(lines)
           longer == Append(lines, x)
<1>1. /\ n \in Nat /\ Len(longer) = n + 1
      /\ \A k \in 1..n : longer[k] = lines[k]
      /\ longer[n + 1] = x
      /\ lines # << >> <=> n > 0
  BY LenProperties, AppendProperties, EmptySeq
<1> HIDE DEF n, longer
<1>2. ASSUME Sound(longer)
      PROVE  /\ Sound(lines) /\ CalculatedHash(x) = x.hash
             /\ n > 0 => x.prev = lines[n].hash
  <2>1. n + 1 \in 1..Len(longer) /\ (n + 1) - 1 = n
    BY <1>1
  <2>2. CalculatedHash(x) = x.hash /\ (n > 0 => x.prev = longer[n].hash)
    BY <1>1, <1>2, <2>1 DEF Sound
  <2>3. n > 0 => longer[n] = lines[n]
    BY <1>1
  <2>4. ASSUME NEW k \in 1..n
        PROVE  /\ CalculatedHash(lines[k]) = lines[k].hash
               /\ k > 1 => lines[k].prev = lines[k - 1].hash
    <3>1. k \in 1..Len(longer) /\ longer[k] = lines[k]
          /\ (k > 1 => longer[k - 1] = lines[k - 1])
      BY <1>1
    <3>2. QED
      BY <1>2, <3>1 DEF Sound
  <2>5. Sound(lines)
    BY <2>4 DEF Sound, n
  <2>6. QED
    BY <2>2, <2>3, <2>5
<1>3. ASSUME Sound(lines), CalculatedHash(x) = x.hash, n > 0 => x.prev = lines[n].hash
      PROVE  Sound(longer)
  <2> SUFFICES ASSUME NEW k \in 1..Len(longer)
               PROVE  /\ CalculatedHash(longer[k]) = longer[k].hash
                      /\ k > 1 => longer[k].prev = longer[k - 1].hash
    BY DEF Sound
  <2>1. CASE k = n + 1
    <3>1. k > 1 => n > 0 /\ k - 1 = n /\ longer[n] = lines[n]
      BY <1>1, <2>1
    <3>2. QED
      BY <1>1, <1>3, <2>1, <3>1
  <2>2. CASE k # n + 1
    <3>1. k \in 1..n /\ longer[k] = lines[k] /\ (k > 1 => longer[k - 1] = lines[k - 1])
      BY <1>1, <2>2
    <3>2. QED
      BY <1>3, <3>1 DEF Sound, n
  <2>3. QED
    BY <2>1, <2>2
<1>4. QED
  BY <1>1, <1>2, <1>3 DEF n, longer

\* The torn parts that take a line with them, one part further.
LEMMA SwallowedNext ==
  ASSUME NEW log \in Seq(Parts), NEW i \in 1..Len(log)
  PROVE  /\ Cardinality(Swallowed(log, i - 1)) \in Nat
         /\ Cardinality(Swallowed(log, i)) =
              IF log[i].kind = "line" /\ i > 1 /\ log[i - 1].kind = "torn"
              THEN Cardinality(Swallowed(log, i - 1)) + 1
              ELSE Cardinality(Swallowed(log, i - 1))
<1>0. i \in Nat /\ i >= 1
  BY LenProperties
<1>1. IsFiniteSet(Swallowed(log, i - 1))
  <2>1. Swallowed(log, i - 1) \subseteq Nat /\ \A j \in Swallowed(log, i - 1) : j <= i
    BY <1>0 DEF Swallowed
  <2>2. QED
    BY <1>0, <2>1, FS_BoundedSetOfNaturals
<1>2. i - 1 \notin Swallowed(log, i - 1)
  BY <1>0 DEF Swallowed
<1>3. CASE log[i].kind = "line" /\ i > 1 /\ log[i - 1].kind = "torn"
  <2>1. Swallowed(log, i) = Swallowed(log, i - 1) \cup {i - 1}
    BY <1>0, <1>3 DEF Swallowed
  <2>2. QED
    BY <1>1, <1>2, <1>3, <2>1, FS_AddElement, FS_CardinalityType
<1>4. CASE ~(log[i].kind = "line" /\ i > 1 /\ log[i - 1].kind = "torn")
  <2>1. Swallowed(log, i) = Swallowed(log, i - 1)
    BY <1>0, <1>4 DEF Swallowed
  <2>2. QED
    BY <1>1, <1>4, <2>1, FS_CardinalityType
<1>5. QED
  BY <1>3, <1>4

\* The next part keeps what the scan knows.
LEMMA ScanInvStep ==
  ASSUME NEW log \in Seq(Parts), NEW i \in 1..Len(log), NEW v \in ScanStates,
         NEW lines \in Seq(Lines), ScanInv(log, v, lines, i - 1)
  PROVE  ScanInv(log, ScanPart(v, log[i]), ReadNext(log, lines, i), i)
<1> DEFINE w == ScanPart(v, log[i])
           longer == ReadNext(log, lines, i)
           c == Cardinality(Swallowed(log, i - 1))
           d == Cardinality(Swallowed(log, i))
<1>1. /\ i \in Nat /\ i >= 1 /\ log[i] \in Parts
      /\ i > 1 => log[i - 1] \in Parts
  BY LenProperties
<1>2. \A j \in {i - 1, i} : j >= 1 => log[j].kind \in {"line", "torn"}
  BY <1>1 DEF Parts, Lines, Torn
<1>3. /\ c \in Nat
      /\ d = IF log[i].kind = "line" /\ i > 1 /\ log[i - 1].kind = "torn" THEN c + 1 ELSE c
  BY SwallowedNext
<1> HIDE DEF c, d
<1>4. LongFree(log, i) <=>
        LongFree(log, i - 1) /\ (log[i].kind = "line" => log[i].req \notin LongLines)
  BY <1>1 DEF LongFree
<1>5. ASSUME Readable(log, i)
      PROVE  /\ longer # << >> /\ longer[Len(longer)] = log[i]
             /\ Sound(longer) <=>
                  /\ Sound(lines) /\ CalculatedHash(log[i]) = log[i].hash
                  /\ lines # << >> => log[i].prev = lines[Len(lines)].hash
  <2>1. log[i] \in Lines /\ longer = Append(lines, log[i])
    BY <1>1, <1>5 DEF Readable, ReadNext, Parts, Torn
  <2>2. longer # << >> /\ longer[Len(longer)] = log[i]
    BY <2>1, AppendProperties, LenProperties, EmptySeq
  <2>3. QED
    BY <2>1, <2>2, SoundAppend
<1>6. ~Readable(log, i) => longer = lines
  BY DEF ReadNext
<1>7. Few(log, i - 1) <=> c <= MaxParseErrors
  BY DEF Few, c
<1>8. Few(log, i) <=> d <= MaxParseErrors
  BY DEF Few, d
<1>9. Readable(log, i) <=> log[i].kind = "line" /\ (i > 1 => log[i - 1].kind = "line")
  BY DEF Readable
<1>10. /\ v.exit = ExitSuccess <=> LongFree(log, i - 1) /\ Sound(lines) /\ Few(log, i - 1)
       /\ v.exit = ExitSuccess =>
            /\ v.torn <=> i - 1 > 0 /\ log[i - 1].kind = "torn"
            /\ v.errors = c
            /\ v.known <=> lines # << >>
            /\ lines # << >> => v.expected = lines[Len(lines)].hash
  BY DEF ScanInv, c
<1> HIDE DEF longer
<1> SUFFICES /\ w.exit = ExitSuccess <=> LongFree(log, i) /\ Sound(longer) /\ Few(log, i)
             /\ w.exit = ExitSuccess =>
                  /\ w.torn <=> i > 0 /\ log[i].kind = "torn"
                  /\ w.errors = d
                  /\ w.known <=> longer # << >>
                  /\ longer # << >> => w.expected = longer[Len(longer)].hash
  BY DEF ScanInv, d, longer
<1>11. CASE v.exit # ExitSuccess
  <2>1. w = v
    BY <1>11 DEF ScanPart
  <2>2. Sound(longer) => Sound(lines)
    BY <1>5, <1>6
  <2>3. d <= MaxParseErrors => c <= MaxParseErrors
    BY <1>3, MaxParseErrorsAssumption
  <2>4. QED
    BY <1>4, <1>7, <1>8, <1>10, <1>11, <2>1, <2>2, <2>3
<1>12. CASE v.exit = ExitSuccess /\ log[i].kind = "torn"
  <2>1. w = [v EXCEPT !.torn = TRUE]
    BY <1>12 DEF ScanPart
  <2>2. /\ w.exit = v.exit /\ w.torn = TRUE /\ w.errors = v.errors
        /\ w.known = v.known /\ w.expected = v.expected
    BY <2>1 DEF ScanStates
  <2>3. d = c /\ longer = lines
    BY <1>3, <1>6, <1>9, <1>12
  <2>4. QED
    BY <1>1, <1>4, <1>7, <1>8, <1>10, <1>12, <2>2, <2>3
<1>13. CASE v.exit = ExitSuccess /\ log[i].kind = "line" /\ log[i].req \in LongLines
  <2>1. w = [v EXCEPT !.exit = ExitScanError]
    BY <1>13 DEF ScanPart
  <2>2. w.exit # ExitSuccess
    BY <2>1 DEF ScanStates, ExitScanError, ExitSuccess
  <2>3. QED
    BY <1>4, <1>13, <2>2
<1>14. CASE /\ v.exit = ExitSuccess /\ log[i].kind = "line" /\ log[i].req \notin LongLines
            /\ v.torn
  <2>1. w = Unparsable(v)
    BY <1>14 DEF ScanPart
  <2>2. /\ w.exit = IF v.errors + 1 > MaxParseErrors THEN ExitParseError ELSE v.exit
        /\ w.torn = FALSE /\ w.errors = v.errors + 1
        /\ w.known = v.known /\ w.expected = v.expected
    BY <2>1 DEF Unparsable, ScanStates
  <2>3. i > 1 /\ log[i - 1].kind = "torn"
    BY <1>1, <1>10, <1>14
  <2>4. d = c + 1 /\ longer = lines
    BY <1>3, <1>6, <1>9, <1>14, <2>3
  <2>5. w.exit = ExitSuccess <=> d <= MaxParseErrors
    <3> HIDE DEF w
    <3>1. v.errors + 1 = d /\ d \in Int /\ v.exit = ExitSuccess
      BY <1>3, <1>10, <1>14, <2>4
    <3>2. w.exit = IF d > MaxParseErrors THEN ExitParseError ELSE ExitSuccess
      BY <2>2, <3>1
    <3>3. ExitParseError # ExitSuccess
      BY DEF ExitParseError, ExitSuccess
    <3>4. QED
      BY <3>1, <3>2, <3>3, MaxParseErrorsAssumption
  <2>6. QED
    BY <1>1, <1>4, <1>8, <1>10, <1>14, <2>2, <2>4, <2>5
<1>15. CASE /\ v.exit = ExitSuccess /\ log[i].kind = "line" /\ log[i].req \notin LongLines
            /\ ~v.torn
  <2>1. w = IF v.known /\ log[i].prev # v.expected THEN [v EXCEPT !.exit = ExitChainBroken]
            ELSE IF CalculatedHash(log[i]) # log[i].hash THEN [v EXCEPT !.exit = ExitDataTampered]
            ELSE [v EXCEPT !.known = TRUE, !.expected = log[i].hash]
    BY <1>15 DEF ScanPart
  <2>2. Readable(log, i) /\ d = c
    BY <1>1, <1>2, <1>3, <1>9, <1>10, <1>15
  <2>3. (v.known => log[i].prev = v.expected) <=>
          (lines # << >> => log[i].prev = lines[Len(lines)].hash)
    BY <1>10, <1>15
  <2>4. CASE v.known /\ log[i].prev # v.expected
    <3>1. w.exit = ExitChainBroken
      BY <2>1, <2>4 DEF ScanStates
    <3>2. QED
      BY <1>5, <2>2, <2>3, <2>4, <3>1 DEF ExitChainBroken, ExitSuccess
  <2>5. CASE ~(v.known /\ log[i].prev # v.expected) /\ CalculatedHash(log[i]) # log[i].hash
    <3>1. w.exit = ExitDataTampered
      BY <2>1, <2>5 DEF ScanStates
    <3>2. QED
      BY <1>5, <2>2, <2>5, <3>1 DEF ExitDataTampered, ExitSuccess
  <2>6. CASE ~(v.known /\ log[i].prev # v.expected) /\ CalculatedHash(log[i]) = log[i].hash
    <3>1. w = [v EXCEPT !.known = TRUE, !.expected = log[i].hash]
      BY <2>1, <2>6
    <3>2. /\ w.exit = v.exit /\ w.torn = v.torn /\ w.errors = v.errors
          /\ w.known = TRUE /\ w.expected = log[i].hash
      BY <3>1 DEF ScanStates
    <3>3. QED
      BY <1>1, <1>4, <1>5, <1>7, <1>8, <1>10, <1>15, <2>2, <2>3, <2>6, <3>2
  <2>7. QED
    BY <2>4, <2>5, <2>6
<1>16. QED
  BY <1>1, <1>2, <1>11, <1>12, <1>13, <1>14, <1>15

-----------------------------------------------------------------------------
(* What verifyLog decides *)

\* The torn parts that cannot be parsed: those that took a line with them, and
\* the last part, if it is torn.
LEMMA UnparsableCount ==
  ASSUME NEW log \in Seq(Parts)
  PROVE  UnparsableLines(log) =
           Cardinality(Swallowed(log, Len(log))) +
             (IF Len(log) > 0 /\ log[Len(log)].kind = "torn" THEN 1 ELSE 0)
<1> DEFINE n == Len(log)
           all == { i \in 1..n : log[i].kind = "torn" /\ (i < n => log[i + 1].kind = "line") }
<1>1. n \in Nat
  BY LenProperties
<1> HIDE DEF n
<1>2. UnparsableLines(log) = Cardinality(all)
  BY DEF UnparsableLines, n
<1>3. IsFiniteSet(Swallowed(log, n)) /\ n \notin Swallowed(log, n)
  <2>1. /\ Swallowed(log, n) \subseteq Nat /\ \A j \in Swallowed(log, n) : j <= n
        /\ n \notin Swallowed(log, n)
    BY <1>1 DEF Swallowed
  <2>2. QED
    BY <1>1, <2>1, FS_BoundedSetOfNaturals
<1>4. Cardinality(Swallowed(log, n)) \in Nat
  BY <1>3, FS_CardinalityType
<1>5. CASE n > 0 /\ log[n].kind = "torn"
  <2>1. all = Swallowed(log, n) \cup {n}
    BY <1>1, <1>5 DEF Swallowed
  <2>2. Cardinality(all) = Cardinality(Swallowed(log, n)) + 1
    BY <1>3, <2>1, FS_AddElement
  <2>3. QED
    BY <1>2, <1>5, <2>2 DEF n
<1>6. CASE ~(n > 0 /\ log[n].kind = "torn")
  <2>1. all = Swallowed(log, n)
    <3>1. \A i \in all : i < n
      BY <1>1, <1>6
    <3>2. QED
      BY <1>1, <3>1 DEF Swallowed
  <2>2. UnparsableLines(log) = Cardinality(Swallowed(log, n)) + 0
    <3> HIDE DEF all
    <3>1. UnparsableLines(log) = Cardinality(Swallowed(log, n))
      BY <1>2, <2>1
    <3>2. QED
      BY <1>4, <3>1
  <2>3. QED
    BY <1>6, <2>2 DEF n
<1>7. QED
  BY <1>5, <1>6

\* verifyLog accepts a file exactly if no line is too long, the lines it parses
\* continue each other with the digests it calculates, and few are unparsable.
LEMMA VerifierAccepts ==
  ASSUME NEW log \in Seq(Parts)
  PROVE  VerifyLog(log) = ExitSuccess <=>
           /\ LongFree(log, Len(log)) /\ Sound(ParsedLines(log))
           /\ UnparsableLines(log) <= MaxParseErrors
<1> DEFINE n == Len(log)
<1>1. n \in Nat
  BY LenProperties
<1>2. PICK f \in [0..n -> ScanStates] :
        /\ f[0] = ScanStart
        /\ \A i \in 1..n : f[i] = ScanPart(f[i - 1], log[i])
        /\ FoldLeft(ScanPart, ScanStart, log) = f[n]
  BY ScanSteps
<1>3. PICK p \in [0..n -> Seq(Lines)] :
        /\ p[0] = << >>
        /\ \A i \in 1..n : p[i] = ReadNext(log, p[i - 1], i)
        /\ ParsedLines(log) = p[n]
  BY ParsedSteps
<1> DEFINE S == {i \in 0..n : ScanInv(log, f[i], p[i], i)}
<1>4. 0 \in S
  <2>1. f[0].exit = ExitSuccess /\ ~f[0].torn /\ ~f[0].known /\ f[0].errors = 0
    BY <1>2 DEF ScanStart
  <2>2. Len(p[0]) = 0 /\ p[0] = << >>
    BY <1>3
  <2>3. LongFree(log, 0) /\ Sound(p[0])
    BY <2>2 DEF LongFree, Sound
  <2>4. Swallowed(log, 0) = {}
    BY DEF Swallowed
  <2>5. Cardinality(Swallowed(log, 0)) = 0
    BY <2>4, FS_EmptySet
  <2>6. Few(log, 0)
    BY <2>5, MaxParseErrorsAssumption DEF Few
  <2>7. QED
    BY <1>1, <2>1, <2>2, <2>3, <2>5, <2>6 DEF ScanInv
<1>5. ASSUME NEW i \in 1..n, i - 1 \in S PROVE i \in S
  <2>1. f[i - 1] \in ScanStates /\ p[i - 1] \in Seq(Lines)
    <3> HIDE DEF n
    <3>1. i - 1 \in 0..n
      BY <1>1
    <3>2. QED
      BY <1>2, <1>3, <3>1
  <2>2. ScanInv(log, f[i - 1], p[i - 1], i - 1)
    BY <1>5
  <2>3. ScanInv(log, ScanPart(f[i - 1], log[i]), ReadNext(log, p[i - 1], i), i)
    BY <2>1, <2>2, ScanInvStep
  <2>4. ScanInv(log, f[i], p[i], i)
    BY <1>2, <1>3, <2>3
  <2>5. QED
    BY <1>1, <2>4
<1>6. ScanInv(log, f[n], p[n], n)
  <2>1. \A i \in 0..n : i \in S
    <3> HIDE DEF S, n
    <3> QED
      BY <1>1, <1>4, <1>5, ScanInduction, Zenon
  <2>2. QED
    BY <1>1, <2>1
<1> DEFINE v == f[n]
           c == Cardinality(Swallowed(log, n))
<1>7. v \in ScanStates
  BY <1>1
<1>8. VerifyLog(log) = IF v.exit = ExitSuccess /\ v.torn THEN Unparsable(v).exit ELSE v.exit
  BY <1>2 DEF VerifyLog
<1>9. UnparsableLines(log) = c + (IF n > 0 /\ log[n].kind = "torn" THEN 1 ELSE 0)
  BY UnparsableCount
<1>10. /\ v.exit = ExitSuccess <=>
            LongFree(log, n) /\ Sound(ParsedLines(log)) /\ c <= MaxParseErrors
       /\ v.exit = ExitSuccess =>
            /\ v.torn <=> n > 0 /\ log[n].kind = "torn"
            /\ v.errors = c
  BY <1>3, <1>6 DEF ScanInv, Few
<1>11. c \in Int
  <2>1. Swallowed(log, n) \subseteq Nat /\ \A j \in Swallowed(log, n) : j <= n
    BY <1>1 DEF Swallowed
  <2>2. IsFiniteSet(Swallowed(log, n))
    BY <1>1, <2>1, FS_BoundedSetOfNaturals
  <2>3. QED
    BY <2>2, FS_CardinalityType
<1> HIDE DEF v, c, n
<1>12. CASE v.exit = ExitSuccess /\ v.torn
  <2>1. Unparsable(v).exit = IF v.errors + 1 > MaxParseErrors THEN ExitParseError ELSE v.exit
    BY <1>7 DEF Unparsable, ScanStates
  <2>2. UnparsableLines(log) = c + 1 /\ v.errors = c
    BY <1>9, <1>10, <1>12
  <2>3. ExitParseError # ExitSuccess
    BY DEF ExitParseError, ExitSuccess
  <2>4. VerifyLog(log) = ExitSuccess <=> c + 1 <= MaxParseErrors
    BY <1>8, <1>11, <1>12, <2>1, <2>2, <2>3, MaxParseErrorsAssumption
  <2>5. QED
    BY <1>10, <1>12, <2>2, <2>4 DEF n
<1>13. CASE v.exit = ExitSuccess /\ ~v.torn
  <2>1. UnparsableLines(log) = c
    BY <1>9, <1>10, <1>11, <1>13
  <2>2. VerifyLog(log) = ExitSuccess
    BY <1>8, <1>13
  <2>3. QED
    BY <1>10, <1>13, <2>1, <2>2 DEF n
<1>14. CASE v.exit # ExitSuccess
  <2>1. VerifyLog(log) # ExitSuccess
    BY <1>8, <1>14
  <2>2. UnparsableLines(log) <= MaxParseErrors => c <= MaxParseErrors
    BY <1>9, <1>11, MaxParseErrorsAssumption
  <2>3. QED
    BY <1>10, <1>14, <2>1, <2>2 DEF n
<1>15. QED
  BY <1>12, <1>13, <1>14

\* The token for what json.Marshal puts in the place of bytes is no request.
SubstituteDistinct == NotUTF8 # {} => "replaced" \notin Requests

\* The digest that calculateHash gets is the worker's, but for a body that is
\* not UTF-8: then it is none that a line can have.
LEMMA CalculatedHashOK ==
  ASSUME SubstituteDistinct, NEW line \in Lines
  PROVE  CalculatedHash(line) = line.hash <=>
           line.hash = Hash(line.req, line.prev) /\ line.req \notin NotUTF8
<1>1. line.hash \in Seq(Requests) /\ line.prev \in Seq(Requests) /\ line.req \in Requests
  BY DEF Lines, Digests
<1>2. CASE line.req \notin NotUTF8
  BY <1>2 DEF CalculatedHash
<1>3. CASE line.req \in NotUTF8
  <2>1. "replaced" \notin Requests
    BY <1>3 DEF SubstituteDistinct
  <2>2. ASSUME line.hash = Append(line.prev, "replaced") PROVE FALSE
    <3>1. Len(line.prev) \in Nat
      BY <1>1, LenProperties
    <3>2. line.hash[Len(line.prev) + 1] = "replaced" /\ Len(line.hash) = Len(line.prev) + 1
      BY <1>1, <2>2
    <3>3. line.hash[Len(line.prev) + 1] \in Requests
      BY <1>1, <3>1, <3>2, LenProperties
    <3>4. QED
      BY <2>1, <3>2, <3>3
  <2>3. QED
    BY <1>3, <2>2 DEF CalculatedHash, Hash
<1>4. QED
  BY <1>2, <1>3

\* The lines of a file of lines.
LEMMA LineParts ==
  ASSUME NEW log \in Seq(Lines)
  PROVE  /\ Len(log) \in Nat /\ (log # << >> <=> Len(log) > 0)
         /\ \A i \in 1..Len(log) : log[i] \in Lines /\ log[i].kind = "line"
<1>1. Len(log) \in Nat /\ (log # << >> <=> Len(log) > 0)
  BY LenProperties, EmptySeq
<1>2. \A i \in 1..Len(log) : log[i] \in Lines
  BY LenProperties
<1>3. \A x \in Lines : x.kind = "line"
  BY DEF Lines
<1>4. QED
  BY <1>1, <1>2, <1>3

\* A file without torn parts is a file of lines.
LEMMA FileOfLines ==
  ASSUME NEW log \in Seq(Parts), \A i \in 1..Len(log) : log[i].kind = "line"
  PROVE  log \in Seq(Lines)
<1>1. Len(log) \in Nat /\ \A i \in 1..Len(log) : log[i] \in Parts
  BY LenProperties
<1>2. \A i \in 1..Len(log) : log[i] \in Lines
  BY <1>1 DEF Parts, Torn
<1>3. log = [i \in 1..Len(log) |-> log[i]]
  BY LenProperties
<1>4. QED
  BY <1>1, <1>2, <1>3, IsASeq

\* No parsed line is about a body that json.Marshal alters.
AllUTF8(log) ==
  \A k \in 1..Len(ParsedLines(log)) : ParsedLines(log)[k].req \notin NotUTF8

\* verifyLog exits with success exactly for the files that read as one chain
\* and have no body outside UTF-8, for every file, whatever was done to it.
THEOREM VerifierExact ==
  ASSUME SubstituteDistinct, NEW log \in Seq(Parts)
  PROVE  VerifyLog(log) = ExitSuccess <=> ReadsAsChain(log) /\ AllUTF8(log)
<1> DEFINE lines == ParsedLines(log)
<1>1. lines \in Seq(Lines)
  <2>1. Len(log) \in Nat
    BY LenProperties
  <2>2. QED
    BY <2>1, ParsedSteps
<1>2. /\ Len(lines) \in Nat /\ (lines # << >> <=> Len(lines) > 0)
      /\ \A k \in 1..Len(lines) : lines[k] \in Lines /\ lines[k].kind = "line"
  BY <1>1, LineParts
<1> HIDE DEF lines
<1>3. Sound(lines) <=>
        /\ lines # << >> => Chained(lines, lines[1].prev)
        /\ \A k \in 1..Len(lines) : lines[k].req \notin NotUTF8
  <2>1. ASSUME NEW k \in 1..Len(lines)
        PROVE  CalculatedHash(lines[k]) = lines[k].hash <=>
                 /\ lines[k].hash = Hash(lines[k].req, lines[k].prev)
                 /\ lines[k].req \notin NotUTF8
    BY <1>2, CalculatedHashOK
  <2>2. ASSUME NEW k \in 1..Len(lines)
        PROVE  (k > 1 => lines[k].prev = lines[k - 1].hash) <=>
                 lines[k].prev = IF k = 1 THEN lines[1].prev ELSE lines[k - 1].hash
    BY <1>2
  <2>3. Sound(lines) <=>
          \A k \in 1..Len(lines) :
            /\ lines[k].hash = Hash(lines[k].req, lines[k].prev)
            /\ lines[k].req \notin NotUTF8
            /\ lines[k].prev = IF k = 1 THEN lines[1].prev ELSE lines[k - 1].hash
    BY <2>1, <2>2 DEF Sound
  <2>4. Chained(lines, lines[1].prev) <=>
          \A k \in 1..Len(lines) :
            /\ lines[k].prev = IF k = 1 THEN lines[1].prev ELSE lines[k - 1].hash
            /\ lines[k].hash = Hash(lines[k].req, lines[k].prev)
    BY <1>2 DEF Chained
  <2>5. lines = << >> => 1..Len(lines) = {}
    BY <1>2
  <2>6. QED
    BY <2>3, <2>4, <2>5
<1>4. VerifyLog(log) = ExitSuccess <=>
        LongFree(log, Len(log)) /\ Sound(lines) /\ UnparsableLines(log) <= MaxParseErrors
  BY VerifierAccepts DEF lines
<1>5. ReadsAsChain(log) <=>
        /\ LongFree(log, Len(log))
        /\ lines # << >> => Chained(lines, lines[1].prev)
        /\ UnparsableLines(log) <= MaxParseErrors
  BY DEF ReadsAsChain, LongFree, lines
<1>6. AllUTF8(log) <=> \A k \in 1..Len(lines) : lines[k].req \notin NotUTF8
  BY DEF AllUTF8, lines
<1>7. QED
  BY <1>3, <1>4, <1>5, <1>6

-----------------------------------------------------------------------------
(* Files without torn parts, and edits of them *)

\* Of a file of lines every line is parsed.
LEMMA WholeParsed ==
  ASSUME NEW log \in Seq(Lines)
  PROVE  log \in Seq(Parts) /\ ParsedLines(log) = log /\ UnparsableLines(log) = 0
<1> DEFINE n == Len(log)
<1>1. n \in Nat /\ \A i \in 1..n : log[i] \in Lines /\ log[i].kind = "line"
  BY LineParts
<1>2. log \in Seq(Parts)
  BY DEF Parts
<1>3. PICK p \in [0..n -> Seq(Lines)] :
        /\ p[0] = << >>
        /\ \A i \in 1..n : p[i] = ReadNext(log, p[i - 1], i)
        /\ ParsedLines(log) = p[n]
  BY <1>2, ParsedSteps
<1> DEFINE S == {i \in 0..n : Len(p[i]) = i /\ \A k \in 1..i : p[i][k] = log[k]}
<1>4. 0 \in S
  <2>1. Len(p[0]) = 0
    BY <1>3
  <2>2. QED
    BY <1>1, <2>1
<1>5. ASSUME NEW i \in 1..n, i - 1 \in S PROVE i \in S
  <2>1. p[i] = Append(p[i - 1], log[i])
    <3>1. Readable(log, i)
      <4>1. i > 1 => i - 1 \in 1..n
        BY <1>1
      <4>2. QED
        BY <1>1, <4>1 DEF Readable
    <3>2. QED
      BY <1>3, <3>1 DEF ReadNext
  <2>2. p[i - 1] \in Seq(Lines) /\ log[i] \in Lines /\ i - 1 \in Nat
    <3> HIDE DEF n
    <3>1. i - 1 \in 0..n
      BY <1>1
    <3>2. QED
      BY <1>1, <1>3, <3>1
  <2>3. Len(p[i - 1]) = i - 1 /\ \A k \in 1..(i - 1) : p[i - 1][k] = log[k]
    BY <1>5
  <2>4. /\ Len(p[i]) = i /\ p[i][i] = log[i]
        /\ \A k \in 1..(i - 1) : p[i][k] = p[i - 1][k]
    BY <2>1, <2>2, <2>3, AppendProperties
  <2>5. \A k \in 1..i : p[i][k] = log[k]
    BY <2>3, <2>4
  <2>6. QED
    BY <2>4, <2>5
<1>6. Len(p[n]) = n /\ \A k \in 1..n : p[n][k] = log[k]
  <2>1. \A i \in 0..n : i \in S
    <3> HIDE DEF S, n
    <3> QED
      BY <1>1, <1>4, <1>5, ScanInduction, Zenon
  <2>2. QED
    BY <1>1, <2>1
<1>7. p[n] = log
  <2>1. p[n] \in Seq(Lines)
    BY <1>1
  <2>2. QED
    BY <1>6, <2>1, SeqEqual
<1>8. UnparsableLines(log) = 0
  <2>1. { i \in 1..n : log[i].kind = "torn" /\ (i < n => log[i + 1].kind = "line") } = {}
    BY <1>1
  <2>2. QED
    BY <2>1, FS_EmptySet DEF UnparsableLines
<1>9. QED
  BY <1>2, <1>3, <1>7, <1>8

\* Of a file of lines that is one chain, whatever digest it starts from, the
\* verifier accepts all that are short enough for it and in UTF-8.
THEOREM ChainAccepted ==
  ASSUME SubstituteDistinct, NEW log \in Seq(Lines), NEW start, Chained(log, start),
         \A i \in 1..Len(log) : log[i].req \notin LongLines \cup NotUTF8
  PROVE  VerifyLog(log) = ExitSuccess
<1>1. /\ log \in Seq(Parts) /\ ParsedLines(log) = log /\ UnparsableLines(log) = 0
  BY WholeParsed
<1>2. log # << >> => Chained(log, log[1].prev)
  BY LenProperties, EmptySeq DEF Chained
<1>3. ReadsAsChain(log) /\ AllUTF8(log)
  BY <1>1, <1>2, MaxParseErrorsAssumption DEF ReadsAsChain, AllUTF8
<1>4. QED
  BY <1>1, <1>3, VerifierExact

\* A digest differs from the one it was made from, and tells the last entry.
LEMMA DigestGrows ==
  ASSUME NEW d \in Digests, NEW r \in Requests, NEW q
  PROVE  /\ Hash(r, d) \in Digests /\ Len(d) \in Nat /\ Len(Hash(r, d)) = Len(d) + 1
         /\ Hash(q, d) = Hash(r, d) => q = r
  BY AppendProperties, LenProperties DEF Digests, Hash

\* The links of a chain of lines, by the lengths of their digests.
LEMMA ChainLinks ==
  ASSUME NEW log \in Seq(Lines), NEW start, Chained(log, start), NEW i \in 1..Len(log)
  PROVE  /\ log[i] \in Lines /\ log[i].prev \in Digests /\ log[i].req \in Requests
         /\ Len(log[i].prev) \in Nat /\ Len(log[i].hash) = Len(log[i].prev) + 1
         /\ log[i].hash = Hash(log[i].req, log[i].prev)
         /\ i > 1 => log[i].prev = log[i - 1].hash
<1>1. log[i] \in Lines
  BY LineParts
<1>2. log[i].prev \in Digests /\ log[i].req \in Requests
  BY <1>1 DEF Lines
<1>3. log[i].hash = Hash(log[i].req, log[i].prev) /\ (i > 1 => log[i].prev = log[i - 1].hash)
  BY LineParts DEF Chained
<1>4. QED
  BY <1>1, <1>2, <1>3, DigestGrows

\* What each kind of edit does: the result is lines again, and where it differs
\* two neighbours are not those of the file, or one line has another request.
LEMMA EditsShape ==
  ASSUME NEW log \in Seq(Lines), NEW e \in HashedEdits(log)
  PROVE  /\ e \in Seq(Lines)
         /\ \/ \E i \in 1..Len(log) : \E q \in Requests \ {log[i].req} :
                 /\ i \in 1..Len(e) /\ e[i].req = q
                 /\ e[i].prev = log[i].prev /\ e[i].hash = log[i].hash
            \/ \E i \in 2..(Len(log) - 1) :
                 i \in 1..Len(e) /\ e[i - 1] = log[i - 1] /\ e[i] = log[i + 1]
            \/ \E i \in 1..Len(log) :
                 i + 1 \in 1..Len(e) /\ e[i] = log[i] /\ e[i + 1] = log[i]
            \/ \E i \in 1..(Len(log) - 1) :
                 i + 1 \in 1..Len(e) /\ e[i] = log[i + 1] /\ e[i + 1] = log[i]
<1> DEFINE n == Len(log)
<1>1. n \in Nat /\ \A i \in 1..n : log[i] \in Lines
  BY LineParts
<1>2. ASSUME NEW i \in 1..n, NEW q \in Requests \ {log[i].req}, e = [log EXCEPT ![i].req = q]
      PROVE  /\ e \in Seq(Lines)
             /\ i \in 1..Len(e) /\ e[i].req = q
             /\ e[i].prev = log[i].prev /\ e[i].hash = log[i].hash
  <2> DEFINE line == [log[i] EXCEPT !.req = q]
  <2>1. line \in Lines /\ line.req = q /\ line.prev = log[i].prev /\ line.hash = log[i].hash
    BY <1>1 DEF Lines
  <2>2. e = [log EXCEPT ![i] = line]
    BY <1>2
  <2> HIDE DEF line
  <2>3. e \in Seq(Lines) /\ Len(e) = n /\ e[i] = line
    BY <1>1, <2>1, <2>2, ExceptSeq
  <2>4. QED
    BY <2>1, <2>3
<1>3. ASSUME NEW i \in 2..(n - 1), e = RemoveAt(log, i)
      PROVE  /\ e \in Seq(Lines)
             /\ i \in 1..Len(e) /\ e[i - 1] = log[i - 1] /\ e[i] = log[i + 1]
  <2> DEFINE a == SubSeq(log, 1, i - 1)
             b == SubSeq(log, i + 1, n)
  <2>1. /\ a \in Seq(Lines) /\ Len(a) = i - 1 /\ a[i - 1] = log[i - 1]
        /\ b \in Seq(Lines) /\ Len(b) = n - i /\ b[1] = log[i + 1]
    <3> HIDE DEF n
    <3>1. /\ i \in Int /\ n \in Nat /\ 2 <= i /\ i <= n - 1
          /\ \A k \in 1..(i - 1) : log[k] \in Lines
          /\ \A k \in (i + 1)..n : log[k] \in Lines
      BY <1>1
    <3>2. /\ a \in Seq(Lines) /\ Len(a) = i - 1
          /\ \A k \in 1..(i - 1) : a[k] = log[1 + k - 1]
      BY <3>1, SubSeqProperties
    <3>3. /\ b \in Seq(Lines) /\ Len(b) = n - i
          /\ \A k \in 1..(n - i) : b[k] = log[(i + 1) + k - 1]
      BY <3>1, SubSeqProperties
    <3>4. i - 1 \in 1..(i - 1) /\ 1 \in 1..(n - i)
      BY <3>1
    <3>5. QED
      BY <3>1, <3>2, <3>3, <3>4
  <2>2. e = a \o b
    BY <1>3 DEF RemoveAt
  <2> HIDE DEF a, b
  <2>3. e \in Seq(Lines) /\ Len(e) = Len(a) + Len(b)
    BY <2>1, <2>2, ConcatProperties
  <2>4. \A k \in 1..Len(a) : e[k] = a[k]
    BY <2>1, <2>2, ConcatProperties
  <2>5. \A k \in (Len(a) + 1)..(Len(a) + Len(b)) : e[k] = b[k - Len(a)]
    BY <2>1, <2>2, ConcatProperties
  <2>6. e[i - 1] = log[i - 1]
    BY <1>1, <2>1, <2>4
  <2>7. i \in (Len(a) + 1)..(Len(a) + Len(b)) /\ i - Len(a) = 1
    BY <1>1, <2>1
  <2>8. e[i] = log[i + 1]
    BY <2>1, <2>5, <2>7
  <2>9. QED
    BY <1>1, <2>1, <2>3, <2>6, <2>8
<1>4. ASSUME NEW i \in 1..n, e = InsertAt(log, i + 1, log[i])
      PROVE  /\ e \in Seq(Lines)
             /\ i + 1 \in 1..Len(e) /\ e[i] = log[i] /\ e[i + 1] = log[i]
  <2> DEFINE a == SubSeq(log, 1, (i + 1) - 1)
             b == SubSeq(log, i + 1, n)
             c == a \o <<log[i]>>
  <2>1. /\ a \in Seq(Lines) /\ Len(a) = i /\ a[i] = log[i]
        /\ b \in Seq(Lines) /\ Len(b) = n - i
    BY <1>1, SubSeqProperties
  <2>2. e = c \o b
    BY <1>4 DEF InsertAt
  <2> HIDE DEF a, b
  <2>3. /\ c \in Seq(Lines) /\ Len(c) = i + 1 /\ c[i] = log[i] /\ c[i + 1] = log[i]
    <3>1. /\ <<log[i]>> \in Seq(Lines) /\ Len(<<log[i]>>) = 1 /\ <<log[i]>>[1] = log[i]
      BY <1>1
    <3>2. QED
      BY <1>1, <2>1, <3>1, ConcatProperties
  <2> HIDE DEF c
  <2>4. e \in Seq(Lines) /\ Len(e) = Len(c) + Len(b)
    BY <2>1, <2>2, <2>3, ConcatProperties
  <2>5. \A k \in 1..Len(c) : e[k] = c[k]
    BY <2>1, <2>2, <2>3, ConcatProperties
  <2>6. QED
    BY <1>1, <2>1, <2>3, <2>4, <2>5
<1>5. ASSUME NEW i \in 1..(n - 1), e = [log EXCEPT ![i] = log[i + 1], ![i + 1] = log[i]]
      PROVE  /\ e \in Seq(Lines)
             /\ i + 1 \in 1..Len(e) /\ e[i] = log[i + 1] /\ e[i + 1] = log[i]
  <2>1. i \in 1..n /\ i + 1 \in 1..n /\ i # i + 1
    BY <1>1
  <2>2. /\ e \in Seq(Lines) /\ Len(e) = n
        /\ e[i] = log[i + 1] /\ e[i + 1] = log[i]
    BY <1>1, <1>5, <2>1, ExceptSeq
  <2>3. QED
    BY <2>1, <2>2
<1>6. QED
  BY <1>1, <1>2, <1>3, <1>4, <1>5 DEF HashedEdits

\* An edit breaks a chain: somewhere a line is not hashed right, or does not
\* continue the line before it.
LEMMA EditsBreak ==
  ASSUME NEW log \in Seq(Lines), NEW start, Chained(log, start), NEW e \in HashedEdits(log)
  PROVE  \E k \in 1..Len(e) :
           \/ e[k].hash # Hash(e[k].req, e[k].prev)
           \/ k > 1 /\ e[k].prev # e[k - 1].hash
<1> DEFINE Broken(k) == \/ e[k].hash # Hash(e[k].req, e[k].prev)
                        \/ k > 1 /\ e[k].prev # e[k - 1].hash
<1>1. Len(log) \in Nat
  BY LineParts
<1>2. ASSUME NEW i \in 1..Len(log), NEW q \in Requests \ {log[i].req}, e[i].req = q,
             e[i].prev = log[i].prev, e[i].hash = log[i].hash
      PROVE  Broken(i)
  <2>1. /\ log[i].prev \in Digests /\ log[i].req \in Requests
        /\ log[i].hash = Hash(log[i].req, log[i].prev)
    BY ChainLinks
  <2>2. Hash(q, log[i].prev) # Hash(log[i].req, log[i].prev)
    BY <2>1, DigestGrows
  <2>3. QED
    BY <1>2, <2>1, <2>2
<1>3. ASSUME NEW i \in 2..(Len(log) - 1), e[i - 1] = log[i - 1], e[i] = log[i + 1]
      PROVE  Broken(i)
  <2>1. i \in 1..Len(log) /\ i + 1 \in 1..Len(log) /\ (i + 1) - 1 = i /\ i > 1 /\ i + 1 > 1
    BY <1>1
  <2>2. /\ log[i + 1].prev = log[i].hash
        /\ log[i].prev = log[i - 1].hash
        /\ Len(log[i].prev) \in Nat /\ Len(log[i].hash) = Len(log[i].prev) + 1
    BY <2>1, ChainLinks
  <2>3. log[i + 1].prev # log[i - 1].hash
    BY <2>2
  <2>4. QED
    BY <1>3, <2>1, <2>3
<1>4. ASSUME NEW i \in 1..Len(log), e[i] = log[i], e[i + 1] = log[i]
      PROVE  Broken(i + 1)
  <2>1. i + 1 > 1 /\ (i + 1) - 1 = i
    BY <1>1
  <2>2. log[i].prev # log[i].hash
    BY ChainLinks
  <2>3. QED
    BY <1>4, <2>1, <2>2
<1>5. ASSUME NEW i \in 1..(Len(log) - 1), e[i] = log[i + 1], e[i + 1] = log[i]
      PROVE  Broken(i + 1)
  <2>1. i \in 1..Len(log) /\ i + 1 \in 1..Len(log) /\ (i + 1) - 1 = i /\ i + 1 > 1
    BY <1>1
  <2>2. /\ log[i + 1].prev = log[i].hash
        /\ Len(log[i].prev) \in Nat /\ Len(log[i].hash) = Len(log[i].prev) + 1
        /\ Len(log[i + 1].hash) = Len(log[i + 1].prev) + 1
    BY <2>1, ChainLinks
  <2>3. log[i].prev # log[i + 1].hash
    BY <2>2
  <2>4. QED
    BY <1>5, <2>1, <2>3
<1> HIDE DEF Broken
<1>6. \E k \in 1..Len(e) : Broken(k)
  BY <1>1, <1>2, <1>3, <1>4, <1>5, EditsShape
<1>7. QED
  BY <1>6 DEF Broken

\* Of a file that is one chain the verifier refuses every edit of what is
\* hashed, whatever the lines are about.
THEOREM EditsRefused ==
  ASSUME SubstituteDistinct, NEW log \in Seq(Lines), NEW start, Chained(log, start),
         NEW e \in HashedEdits(log)
  PROVE  VerifyLog(e) # ExitSuccess
<1>1. e \in Seq(Lines)
  BY EditsShape
<1>2. PICK k \in 1..Len(e) :
        \/ e[k].hash # Hash(e[k].req, e[k].prev)
        \/ k > 1 /\ e[k].prev # e[k - 1].hash
  BY EditsBreak
<1>3. Len(e) \in Nat /\ e # << >>
  BY <1>1, <1>2, LineParts
<1>4. ~Chained(e, e[1].prev)
  BY <1>2, <1>3 DEF Chained
<1>5. e \in Seq(Parts) /\ ParsedLines(e) = e
  BY <1>1, WholeParsed
<1>6. ~ReadsAsChain(e)
  BY <1>3, <1>4, <1>5 DEF ReadsAsChain
<1>7. QED
  BY <1>5, <1>6, VerifierExact

\* An edit of what no digest covers leaves a file of lines, each as it was to the
\* digests.
LEMMA UnhashedEditsShape ==
  ASSUME NEW log \in Seq(Lines), NEW e \in UnhashedEdits(log)
  PROVE  /\ e \in Seq(Lines) /\ Len(e) = Len(log)
         /\ \A k \in 1..Len(log) : /\ e[k].kind = log[k].kind /\ e[k].req = log[k].req
                                   /\ e[k].prev = log[k].prev /\ e[k].hash = log[k].hash
<1> DEFINE n == Len(log)
<1>1. n \in Nat /\ \A i \in 1..n : log[i] \in Lines
  BY LineParts
<1>2. PICK i \in 1..n : e = [log EXCEPT ![i].seq = log[i].seq + 1]
  BY DEF UnhashedEdits
<1> DEFINE line == [log[i] EXCEPT !.seq = log[i].seq + 1]
<1>3. /\ line \in Lines /\ line.kind = log[i].kind /\ line.req = log[i].req
      /\ line.prev = log[i].prev /\ line.hash = log[i].hash
  BY <1>1 DEF Lines
<1>4. e = [log EXCEPT ![i] = line]
  BY <1>2
<1> HIDE DEF line
<1>5. e \in Seq(Lines) /\ Len(e) = n /\ e[i] = line
  BY <1>1, <1>3, <1>4, ExceptSeq
<1>6. \A k \in 1..n : k # i => e[k] = log[k]
  BY <1>4, LenProperties
<1>7. QED
  BY <1>3, <1>5, <1>6

\* And the verifier does not see it: a chain is accepted with any such edit.
THEOREM UnhashedEditsPass ==
  ASSUME SubstituteDistinct, NEW log \in Seq(Lines), NEW start, Chained(log, start),
         \A i \in 1..Len(log) : log[i].req \notin LongLines \cup NotUTF8,
         NEW e \in UnhashedEdits(log)
  PROVE  VerifyLog(e) = ExitSuccess
<1>1. /\ e \in Seq(Lines) /\ Len(e) = Len(log) /\ Len(log) \in Nat
      /\ \A k \in 1..Len(log) : /\ e[k].kind = log[k].kind /\ e[k].req = log[k].req
                                /\ e[k].prev = log[k].prev /\ e[k].hash = log[k].hash
  BY UnhashedEditsShape, LineParts
<1>2. ASSUME NEW i \in 1..Len(e)
      PROVE  /\ e[i].kind = "line"
             /\ e[i].prev = (IF i = 1 THEN start ELSE e[i - 1].hash)
             /\ e[i].hash = Hash(e[i].req, e[i].prev)
  <2>1. i \in 1..Len(log) /\ (i # 1 => i - 1 \in 1..Len(log))
    BY <1>1
  <2>2. QED
    BY <1>1, <2>1 DEF Chained
<1>3. Chained(e, start)
  BY <1>2 DEF Chained
<1>4. \A i \in 1..Len(e) : e[i].req \notin LongLines \cup NotUTF8
  BY <1>1
<1>5. QED
  BY <1>1, <1>3, <1>4, ChainAccepted

-----------------------------------------------------------------------------
(* The inductive invariant *)

\* The runs begin inside the file.
RunsTyped ==
  /\ runs \in Seq(Nat) /\ Len(runs) >= 1
  /\ \A k \in 1..Len(runs) : runs[k] <= Len(file)

\* An entry that was logged is in one place: in the channel, in run's hand, in
\* the map, decided, or lost in an earlier run.
Tracked ==
  /\ Logged = InChannel \cup inHand \cup pendingEntries \cup Decided \cup lost
  /\ (InChannel \cup inHand \cup pendingEntries) \cap (Decided \cup lost) = {}
  /\ InChannel \cap (inHand \cup pendingEntries) = {}
  /\ inHand \cap pendingEntries = {}
  /\ NotQueuedTwice
  /\ NotRecordedTwice

\* prevHash is where the chain of the present run ends.
ChainedSoFar ==
  /\ EachRunChained
  /\ EndsIn(runs[Len(runs)] + 1, Len(file), prevHash)

RestartInv == TypeInv /\ RunsTyped /\ Tracked /\ ChainedSoFar

-----------------------------------------------------------------------------
(* A file that grows *)

\* The file keeps its parts, and they keep what they are.
FileKept ==
  /\ Len(file') >= Len(file)
  /\ \A i \in 1..Len(file) : file'[i] = file[i] /\ (Accepted(i)' <=> Accepted(i))

\* What a part behind the others does to the file and to what is written.
LEMMA PartAppended ==
  ASSUME StorageTypeOK, NEW part \in Lines \cup {Torn}, file' = Append(file, part)
  PROVE  /\ Len(file) \in Nat /\ Len(file') = Len(file) + 1
         /\ \A i \in 1..Len(file) : file'[i] = file[i]
         /\ file'[Len(file) + 1] = part
         /\ Written' = IF part.kind = "line" THEN Written \cup {part.req} ELSE Written
<1>1. /\ Len(file) \in Nat /\ Len(file') = Len(file) + 1
      /\ \A i \in 1..Len(file) : file'[i] = file[i]
      /\ file'[Len(file) + 1] = part
  BY LenProperties, AppendProperties DEF StorageTypeOK
<1>2. ASSUME NEW x \in Written' PROVE x \in Written \/ (part.kind = "line" /\ x = part.req)
  <2>1. PICK i \in 1..Len(file') : file'[i].kind = "line" /\ x = file'[i].req
    BY DEF Written
  <2>2. i \in 1..Len(file) \/ i = Len(file) + 1
    BY <1>1
  <2>3. QED
    BY <1>1, <2>1, <2>2 DEF Written
<1>3. ASSUME NEW x \in Written PROVE x \in Written'
  <2>1. PICK i \in 1..Len(file) : file[i].kind = "line" /\ x = file[i].req
    BY DEF Written
  <2>2. i \in 1..Len(file') /\ file'[i].kind = "line" /\ x = file'[i].req
    BY <1>1, <2>1
  <2>3. QED
    BY <2>2 DEF Written
<1>4. part.kind = "line" => part.req \in Written'
  <2>1. Len(file) + 1 \in 1..Len(file')
    BY <1>1
  <2>2. QED
    BY <1>1, <2>1 DEF Written
<1>5. QED
  BY <1>1, <1>2, <1>3, <1>4

\* Where the lines of a part of the file end does not depend on what follows.
LEMMA EndsInKept ==
  ASSUME FileKept, NEW first \in Nat, first >= 1,
         NEW last \in Int, Len(file) \in Nat, last <= Len(file),
         NEW d, EndsIn(first, last, d)
  PROVE  EndsIn(first, last, d)'
<1>1. \A i \in first..last :
        i \in 1..Len(file) /\ file'[i] = file[i] /\ (Accepted(i)' <=> Accepted(i))
  BY DEF FileKept
<1>2. CASE d = Genesis /\ \A i \in first..last : ~Accepted(i)
  BY <1>1, <1>2 DEF EndsIn
<1>3. CASE \E i \in first..last :
             /\ Accepted(i) /\ d = file[i].hash
             /\ \A j \in (i + 1)..last : ~Accepted(j)
  <2>1. PICK i \in first..last :
               /\ Accepted(i) /\ d = file[i].hash
               /\ \A j \in (i + 1)..last : ~Accepted(j)
    BY <1>3
  <2>2. \A j \in (i + 1)..last : j \in first..last
    BY <2>1
  <2>3. Accepted(i)' /\ d = file'[i].hash /\ \A j \in (i + 1)..last : ~Accepted(j)'
    BY <1>1, <2>1, <2>2
  <2>4. QED
    BY <2>3 DEF EndsIn
<1>4. QED
  BY <1>2, <1>3 DEF EndsIn

\* A part that is not accepted moves no end.
LEMMA EndsInSkips ==
  ASSUME NEW first \in Nat, NEW last \in Nat, ~Accepted(last + 1)',
         NEW d, EndsIn(first, last, d)'
  PROVE  EndsIn(first, last + 1, d)'
<1>1. \A i \in first..(last + 1) : i \in first..last \/ i = last + 1
  OBVIOUS
<1>2. CASE d = Genesis /\ \A i \in first..last : ~Accepted(i)'
  BY <1>1, <1>2 DEF EndsIn
<1>3. CASE \E i \in first..last :
             /\ Accepted(i)' /\ d = file'[i].hash
             /\ \A j \in (i + 1)..last : ~Accepted(j)'
  <2>1. PICK i \in first..last :
               /\ Accepted(i)' /\ d = file'[i].hash
               /\ \A j \in (i + 1)..last : ~Accepted(j)'
    BY <1>3
  <2>2. i \in first..(last + 1) /\ \A j \in (i + 1)..(last + 1) : ~Accepted(j)'
    BY <2>1
  <2>3. QED
    BY <2>1, <2>2 DEF EndsIn
<1>4. QED
  BY <1>2, <1>3 DEF EndsIn

\* The runs' bounds are numbers, and no run ends behind the file.
LEMMA RunBounds ==
  ASSUME RunsTyped, StorageTypeOK, NEW k \in 1..Len(runs)
  PROVE  /\ Len(runs) \in Nat /\ Len(file) \in Nat
         /\ runs[k] \in Nat /\ runs[k] <= Len(file)
         /\ RunEnd(k) \in Nat /\ RunEnd(k) <= Len(file)
<1>1. Len(runs) \in Nat /\ Len(file) \in Nat
  BY LenProperties DEF RunsTyped, StorageTypeOK
<1>2. \A n \in 1..Len(runs) : runs[n] \in Nat /\ runs[n] <= Len(file)
  BY ElementOfSeq DEF RunsTyped
<1>3. QED
  BY <1>1, <1>2 DEF RunEnd

\* The lines of the runs stay linked.
LEMMA LinksKept ==
  ASSUME RunsTyped, StorageTypeOK, EachRunChained, FileKept,
         NEW k \in 1..Len(runs), NEW i \in (runs[k] + 1)..RunEnd(k),
         runs'[k] = runs[k], Accepted(i)'
  PROVE  /\ EndsIn(runs[k] + 1, i - 1, file[i].prev)'
         /\ file'[i].hash = Hash(file'[i].req, file'[i].prev)
<1>1. /\ Len(file) \in Nat /\ runs[k] \in Nat
      /\ i \in 1..Len(file) /\ i - 1 \in Int /\ i - 1 <= Len(file)
  BY RunBounds
<1>2. file'[i] = file[i] /\ Accepted(i)
  BY <1>1 DEF FileKept
<1>3. /\ EndsIn(runs[k] + 1, i - 1, file[i].prev)
      /\ file[i].hash = Hash(file[i].req, file[i].prev)
  BY <1>2 DEF EachRunChained
<1>4. PICK first \in Nat, d \in {file[i].prev} : first = runs[k] + 1
  BY <1>1
<1>5. EndsIn(first, i - 1, d)
  BY <1>3, <1>4
<1>6. first >= 1
  BY <1>1, <1>4
<1>7. EndsIn(first, i - 1, d)'
  BY <1>1, <1>5, <1>6, EndsInKept
<1>8. first = runs'[k] + 1 /\ d = file'[i].prev
  BY <1>2, <1>4
<1>9. EndsIn(runs[k] + 1, i - 1, file[i].prev)'
  BY <1>7, <1>8 DEF EndsIn
<1>10. QED
  BY <1>2, <1>3, <1>9

-----------------------------------------------------------------------------
(* processEntry *)

\* What processEntry does, whichever way the write goes.
LEMMA ProcessEntryCases ==
  ASSUME NEW r \in Requests, ProcessEntry(r)
  PROVE  \/ /\ file' = Append(file, Line(r, seqOf[r], prevHash))
            /\ prevHash' = Hash(r, prevHash) /\ refused' = refused
         \/ /\ \/ file' = file
               \/ file' = Append(file, Torn)
               \/ file' = Append(file, Line(r, seqOf[r], prevHash))
            /\ prevHash' = prevHash /\ refused' = refused \cup {r}
  BY DEF ProcessEntry, WriteOK, WriteErr, Line

\* It decides its entry, and what was in the file stays as it is.
LEMMA ProcessEntryKeeps ==
  ASSUME TypeOK, NotRecordedTwice, NEW r \in Requests, seqOf[r] \in Nat,
         r \notin Decided, ProcessEntry(r)
  PROVE  /\ FileKept
         /\ Decided' = Decided \cup {r}
         /\ Written' \subseteq Written \cup {r}
         /\ \A i, j \in 1..Len(file') :
              /\ file'[i].kind = "line" /\ file'[j].kind = "line"
              /\ file'[i].req = file'[j].req
              => i = j
<1> DEFINE line == Line(r, seqOf[r], prevHash)
<1>1. /\ StorageTypeOK /\ Len(file) \in Nat /\ line \in Lines
      /\ line.kind = "line" /\ line.req = r /\ Torn.kind = "torn"
  BY LineType, LenProperties DEF TypeOK, StorageTypeOK, Line, Torn
<1>2. r \notin Written /\ r \notin refused /\ Written \subseteq Decided
  BY DEF Decided
<1>3. \A i \in 1..Len(file) : file[i].kind = "line" => file[i].req # r
  BY <1>2 DEF Written
<1>4. refused' \subseteq refused \cup {r} /\ refused \subseteq refused'
  BY ProcessEntryCases
<1>5. CASE file' = file
  <2>1. FileKept
    BY <1>1, <1>3, <1>4, <1>5 DEF FileKept, Accepted
  <2>2. Written' = Written
    BY <1>5 DEF Written
  <2>3. r \in refused'
    <3>1. Len(Append(file, line)) = Len(file) + 1
      BY <1>1, AppendProperties DEF StorageTypeOK
    <3>2. file # Append(file, line)
      BY <1>1, <3>1
    <3>3. QED
      BY <1>5, <3>2, ProcessEntryCases
  <2>4. QED
    BY <1>4, <1>5, <2>1, <2>2, <2>3 DEF Decided, NotRecordedTwice
<1>6. ASSUME NEW part \in {line, Torn}, file' = Append(file, part),
             part = Torn => r \in refused'
      PROVE  /\ FileKept
             /\ Decided' = Decided \cup {r}
             /\ Written' \subseteq Written \cup {r}
             /\ \A i, j \in 1..Len(file') :
                  /\ file'[i].kind = "line" /\ file'[j].kind = "line"
                  /\ file'[i].req = file'[j].req
                  => i = j
  <2>1. /\ Len(file') = Len(file) + 1
        /\ \A i \in 1..Len(file) : file'[i] = file[i]
        /\ file'[Len(file) + 1] = part
        /\ Written' = IF part.kind = "line" THEN Written \cup {part.req} ELSE Written
    BY <1>1, <1>6, PartAppended
  <2>2. FileKept
    BY <1>1, <1>3, <1>4, <2>1 DEF FileKept, Accepted
  <2>3. \A i \in 1..Len(file') : i \in 1..Len(file) \/ i = Len(file) + 1
    BY <1>1, <2>1
  <2>4. ASSUME NEW i \in 1..Len(file'), NEW j \in 1..Len(file'),
               file'[i].kind = "line", file'[j].kind = "line",
               file'[i].req = file'[j].req
        PROVE  i = j
    BY <1>1, <1>3, <1>6, <2>1, <2>3, <2>4 DEF NotRecordedTwice
  <2>5. QED
    BY <1>1, <1>4, <1>6, <2>1, <2>2, <2>4 DEF Decided
<1>7. CASE file' = Append(file, line)
  BY <1>1, <1>6, <1>7
<1>8. CASE file' = Append(file, Torn) /\ refused' = refused \cup {r}
  BY <1>6, <1>8
<1>9. QED
  BY <1>5, <1>7, <1>8, ProcessEntryCases

\* It continues the chain of the run, or leaves it where it is.
LEMMA ProcessEntryChains ==
  ASSUME TypeOK, RunsTyped, ChainedSoFar, NotRecordedTwice,
         NEW r \in Requests, seqOf[r] \in Nat, r \notin Decided,
         ProcessEntry(r), UNCHANGED runs
  PROVE  ChainedSoFar' /\ RunsTyped'
<1> DEFINE line == Line(r, seqOf[r], prevHash)
<1>1. /\ StorageTypeOK /\ Len(file) \in Nat /\ FileKept /\ EachRunChained
      /\ Len(runs) \in 1..Len(runs) /\ Len(runs) \in Nat
  BY ProcessEntryKeeps, LenProperties
     DEF TypeOK, StorageTypeOK, RunsTyped, ChainedSoFar
<1>2. /\ line \in Lines /\ line.kind = "line" /\ line.req = r /\ line.prev = prevHash
      /\ line.hash = Hash(r, prevHash) /\ Torn.kind = "torn"
  BY LineType DEF TypeOK, Line, Torn
<1>3. PICK first \in Nat, d \in {prevHash} : first = runs[Len(runs)] + 1
  BY <1>1, RunBounds
<1>4. first >= 1 /\ EndsIn(first, Len(file), d)
  BY <1>1, <1>3, RunBounds DEF ChainedSoFar
<1>5. PICK last \in Nat : last = Len(file)
  BY <1>1
<1>6. EndsIn(first, last, d)'
  BY <1>1, <1>4, <1>5, EndsInKept
<1>7. RunsTyped'
  <2>1. Len(file') \in Nat /\ Len(file') >= Len(file)
    <3>1. file' = file \/ \E part \in Lines \cup {Torn} : file' = Append(file, part)
      BY <1>2, ProcessEntryCases
    <3>2. QED
      BY <1>1, <3>1, PartAppended
  <2>2. QED
    BY <1>1, <2>1, RunBounds DEF RunsTyped
<1>8. CASE file' = file /\ prevHash' = prevHash
  <2>1. EndsIn(runs[Len(runs)] + 1, Len(file), prevHash)'
    BY <1>3, <1>5, <1>6, <1>8 DEF EndsIn
  <2>2. ASSUME NEW k \in 1..Len(runs), NEW i \in (runs[k] + 1)..RunEnd(k), Accepted(i)'
        PROVE  /\ EndsIn(runs[k] + 1, i - 1, file[i].prev)'
               /\ file'[i].hash = Hash(file'[i].req, file'[i].prev)
    BY <1>1, <2>2, LinksKept
  <2>3. \A k \in 1..Len(runs) : RunEnd(k)' = RunEnd(k)
    BY <1>8 DEF RunEnd
  <2>4. EachRunChained'
    BY <2>2, <2>3 DEF EachRunChained
  <2>5. QED
    BY <1>7, <2>1, <2>4 DEF ChainedSoFar
<1>9. ASSUME NEW part \in {line, Torn}, file' = Append(file, part),
             \/ /\ part = line /\ refused' = refused /\ prevHash' = line.hash
             \/ /\ part = Torn \/ r \in refused'
                /\ prevHash' = prevHash
      PROVE  ChainedSoFar'
  <2>1. /\ Len(file') = last + 1
        /\ file'[last + 1] = part
    BY <1>1, <1>2, <1>5, <1>9, PartAppended
  <2>2. Accepted(last + 1)' => part = line /\ prevHash' = line.hash
    BY <1>2, <1>9, <2>1 DEF Accepted
  <2>3. EndsIn(runs[Len(runs)] + 1, Len(file), prevHash)'
    <3>1. CASE Accepted(last + 1)'
      <4>1. /\ last + 1 \in first..(last + 1)
            /\ prevHash' = file'[last + 1].hash
            /\ \A j \in (last + 1 + 1)..(last + 1) : ~Accepted(j)'
        <5>1. first <= last + 1
          BY <1>1, <1>3, <1>5, RunBounds
        <5>2. QED
          BY <2>1, <2>2, <3>1, <5>1
      <4>2. first = runs'[Len(runs')] + 1 /\ Len(file') = last + 1
        BY <1>3, <2>1
      <4>3. QED
        BY <3>1, <4>1, <4>2 DEF EndsIn
    <3>2. CASE ~Accepted(last + 1)'
      <4>1. prevHash' = prevHash
        BY <1>2, <1>9, <2>1, <3>2, ProcessEntryKeeps DEF Accepted, Decided
      <4>2. EndsIn(first, last + 1, d)'
        BY <1>6, <3>2, EndsInSkips
      <4>3. first = runs'[Len(runs')] + 1 /\ Len(file') = last + 1 /\ d = prevHash'
        BY <1>3, <2>1, <4>1
      <4>4. QED
        BY <4>2, <4>3 DEF EndsIn
    <3>3. QED
      BY <3>1, <3>2
  <2>4. ASSUME NEW k \in 1..Len(runs), NEW i \in (runs[k] + 1)..RunEnd(k)', Accepted(i)'
        PROVE  /\ EndsIn(runs[k] + 1, i - 1, file[i].prev)'
               /\ file'[i].hash = Hash(file'[i].req, file'[i].prev)
    <3>1. CASE i \in (runs[k] + 1)..RunEnd(k)
      BY <1>1, <2>4, <3>1, LinksKept
    <3>2. CASE i \notin (runs[k] + 1)..RunEnd(k)
      <4>1. k = Len(runs) /\ i = last + 1
        BY <1>1, <1>5, <2>1, <3>2, RunBounds DEF RunEnd
      <4>2. part = line /\ file'[i] = line
        BY <2>1, <2>2, <2>4, <4>1
      <4>3. first = runs'[k] + 1 /\ last = i - 1 /\ d = file'[i].prev
        BY <1>2, <1>3, <4>1, <4>2
      <4>4. EndsIn(runs[k] + 1, i - 1, file[i].prev)'
        BY <1>6, <4>3 DEF EndsIn
      <4>5. QED
        BY <1>2, <4>2, <4>4
    <3>3. QED
      BY <3>1, <3>2
  <2>5. EachRunChained'
    BY <2>4 DEF EachRunChained
  <2>6. QED
    BY <2>3, <2>5 DEF ChainedSoFar
<1>10. QED
  <2>1. line.hash = Hash(r, prevHash)
    BY <1>2
  <2>2. QED
    BY <1>7, <1>8, <1>9, <2>1, ProcessEntryCases
-----------------------------------------------------------------------------
(* The invariant over steps of the process, kills and restarts *)

LEMMA RestartInitInv == RestartInit => RestartInv
<1> SUFFICES ASSUME RestartInit PROVE RestartInv
  OBVIOUS
<1>1. TypeInv /\ Accounted
  BY TypeInit, AccountInit DEF RestartInit
<1>2. /\ runs = << 0 >> /\ lost = {} /\ file = << >> /\ Len(file) = 0
      /\ prevHash = Genesis /\ inHand = {}
  BY EmptySeq DEF RestartInit, Init, StorageInit, WorkerInit
<1>3. runs \in Seq(Nat) /\ Len(runs) = 1 /\ runs[1] = 0
  BY <1>2
<1>4. RunsTyped
  BY <1>2, <1>3 DEF RunsTyped
<1>5. Tracked
  BY <1>1, <1>2 DEF Accounted, Tracked, NotQueuedTwice, NotRecordedTwice
<1>6. EachRunChained
  <2>1. \A k \in 1..Len(runs) : (runs[k] + 1)..RunEnd(k) = {}
    BY <1>2, <1>3 DEF RunEnd
  <2>2. QED
    BY <2>1 DEF EachRunChained
<1>7. EndsIn(runs[Len(runs)] + 1, Len(file), prevHash)
  BY <1>2, <1>3 DEF EndsIn
<1>8. QED
  BY <1>1, <1>4, <1>5, <1>6, <1>7 DEF RestartInv, ChainedSoFar

\* Where the entries are, after a step of the process.
LEMMA TrackedStep ==
  TypeInv /\ Tracked /\ [Next]_vars /\ UNCHANGED restartVars => Tracked'
<1> SUFFICES ASSUME TypeInv, Tracked, [Next]_vars, UNCHANGED restartVars
    PROVE  Tracked'
  OBVIOUS
<1>0. /\ TypeOK /\ Numbering /\ OneInHand /\ NotQueuedTwice /\ NotRecordedTwice
      /\ lost' = lost
      /\ InChannel \subseteq Requests
      /\ hpc \in [Requests -> {"new", "numbered", "logged", "panicked"}]
  BY DEF TypeInv, Tracked, restartVars, TypeOK, Logged
<1>1. ASSUME Logged' = Logged,
             UNCHANGED << entries, inHand, pendingEntries, file, refused >>
      PROVE  Tracked'
  <2>1. InChannel' = InChannel /\ Written' = Written /\ Decided' = Decided
    BY <1>1 DEF InChannel, Written, Decided
  <2>2. NotRecordedTwice' /\ NotQueuedTwice'
    BY <1>0, <1>1, <2>1 DEF NotRecordedTwice, NotQueuedTwice
  <2>3. QED
    BY <1>0, <1>1, <2>1, <2>2 DEF Tracked
<1>2. ASSUME NEW r \in Requests, ProcessEntry(r), seqOf[r] \in Nat, r \in Logged,
             r \notin Decided, r \notin lost
      PROVE  Decided' = Decided \cup {r} /\ NotRecordedTwice'
  <2>1. /\ Decided' = Decided \cup {r} /\ Written' \subseteq Written \cup {r}
        /\ \A i, j \in 1..Len(file') :
             /\ file'[i].kind = "line" /\ file'[j].kind = "line"
             /\ file'[i].req = file'[j].req
             => i = j
    BY <1>0, <1>2, ProcessEntryKeeps
  <2>2. Written' \cap lost' = {}
    BY <1>0, <1>2, <2>1 DEF NotRecordedTwice
  <2>3. QED
    BY <2>1, <2>2 DEF NotRecordedTwice
<1>3. ASSUME NEW r \in Requests, GetNextSequenceID(r) \/ LogPanics(r) \/ Abandon(r)
      PROVE  Tracked'
  <2>1. Logged' = Logged
    BY <1>0, <1>3 DEF GetNextSequenceID, LogPanics, Abandon, Logged
  <2>2. QED
    BY <1>1, <1>3, <2>1 DEF GetNextSequenceID, LogPanics, Abandon, workerVars, storageVars
<1>4. ASSUME NEW r \in Requests, Log(r)
      PROVE  Tracked'
  <2>1. r \notin Logged /\ Logged' = Logged \cup {r}
    BY <1>0, <1>4 DEF Log, Logged
  <2>2. UNCHANGED << inHand, pendingEntries, file, refused >>
    BY <1>4 DEF Log, storageVars
  <2>3. Written' = Written /\ Decided' = Decided
    BY <2>2 DEF Written, Decided
  <2>4. r \notin InChannel \cup inHand \cup pendingEntries \cup Decided \cup lost
    BY <2>1 DEF Tracked
  <2>5. InChannel' = InChannel \cup {r} /\ NotQueuedTwice'
    BY <1>0, <1>4, <2>4, LogPlaces
  <2>6. NotRecordedTwice'
    BY <1>0, <2>2, <2>3 DEF NotRecordedTwice
  <2>7. QED
    BY <1>0, <2>1, <2>2, <2>3, <2>4, <2>5, <2>6 DEF Tracked
<1>5. ASSUME NEW r \in Requests, Receive(r)
      PROVE  Tracked'
  <2>1. /\ inHand = {} /\ inHand' = {r}
        /\ UNCHANGED << clientVars, pendingEntries, file, refused >>
    BY <1>0, <1>5 DEF Receive, OneInHand, storageVars
  <2>2. Logged' = Logged /\ Written' = Written /\ Decided' = Decided
    BY <2>1 DEF clientVars, Logged, Written, Decided
  <2>3. r \in InChannel /\ InChannel' = InChannel \ {r} /\ NotQueuedTwice'
    BY <1>0, <1>5, ReceiveTakes
  <2>4. NotRecordedTwice'
    BY <1>0, <2>1, <2>2 DEF NotRecordedTwice
  <2>5. QED
    BY <1>0, <2>1, <2>2, <2>3, <2>4 DEF Tracked
<1>6. ASSUME NEW r \in Requests, InSequence(r) \/ FailOpen(r)
      PROVE  Tracked'
  <2>1. /\ r \in inHand /\ inHand' = {} /\ ProcessEntry(r)
        /\ UNCHANGED << clientVars, entries, pendingEntries >>
    BY <1>6 DEF InSequence, FailOpen, Handle
  <2>2. inHand = {r}
    BY <1>0, <2>1 DEF OneInHand
  <2>3. Logged' = Logged /\ InChannel' = InChannel /\ NotQueuedTwice'
    BY <1>0, <2>1 DEF clientVars, Logged, InChannel, NotQueuedTwice
  <2>4. /\ r \in Logged /\ r \notin Decided /\ r \notin lost /\ seqOf[r] \in Nat
    BY <1>0, <2>1 DEF Tracked, Numbering
  <2>5. Decided' = Decided \cup {r} /\ NotRecordedTwice'
    BY <1>2, <2>1, <2>4
  <2>6. QED
    BY <1>0, <2>1, <2>2, <2>3, <2>4, <2>5 DEF Tracked
<1>7. ASSUME NEW r \in Requests, Park(r)
      PROVE  Tracked'
  <2>1. /\ r \in inHand /\ inHand' = {} /\ pendingEntries' = pendingEntries \cup {r}
        /\ UNCHANGED << clientVars, entries, file, refused >>
    BY <1>7 DEF Park, Handle, storageVars
  <2>2. inHand = {r}
    BY <1>0, <2>1 DEF OneInHand
  <2>3. /\ Logged' = Logged /\ InChannel' = InChannel /\ NotQueuedTwice'
        /\ Written' = Written /\ Decided' = Decided
    BY <1>0, <2>1 DEF clientVars, Logged, InChannel, NotQueuedTwice, Written, Decided
  <2>4. NotRecordedTwice'
    BY <1>0, <2>1, <2>3 DEF NotRecordedTwice
  <2>5. QED
    BY <1>0, <2>1, <2>2, <2>3, <2>4 DEF Tracked
<1>8. ASSUME NEW r \in Requests, Drain(r) \/ Flush(r)
      PROVE  Tracked'
  <2>1. /\ ProcessEntry(r) /\ r \in pendingEntries
        /\ pendingEntries' = pendingEntries \ {r}
        /\ UNCHANGED << clientVars, entries, inHand >>
    BY <1>8 DEF Drain, Flush
  <2>2. Logged' = Logged /\ InChannel' = InChannel /\ NotQueuedTwice'
    BY <1>0, <2>1 DEF clientVars, Logged, InChannel, NotQueuedTwice
  <2>3. /\ r \in Logged /\ r \notin Decided /\ r \notin lost
        /\ r \notin InChannel /\ r \notin inHand /\ seqOf[r] \in Nat
    BY <1>0, <2>1 DEF Tracked, Numbering
  <2>4. Decided' = Decided \cup {r} /\ NotRecordedTwice'
    BY <1>2, <2>1, <2>3
  <2>5. QED
    BY <1>0, <2>1, <2>2, <2>3, <2>4 DEF Tracked
<1>9. CASE \/ DrainBreak \/ EndOfEntries \/ CloseStorage \/ CloseEntries
           \/ UNCHANGED vars
  <2>1. UNCHANGED << hpc, entries, inHand, pendingEntries, file, refused >>
    BY <1>9 DEF DrainBreak, EndOfEntries, CloseStorage, CloseEntries, clientVars,
                workerVars, storageVars, vars
  <2>2. QED
    BY <1>1, <2>1 DEF Logged
<1>10. QED
  BY <1>3, <1>4, <1>5, <1>6, <1>7, <1>8, <1>9 DEF Next, Client, Worker, Terminated

\* The chain of the present run, after a step of the process.
LEMMA ChainedStep ==
  ASSUME RestartInv, [Next]_vars, UNCHANGED restartVars
  PROVE  ChainedSoFar' /\ RunsTyped'
<1>0. /\ TypeOK /\ Numbering /\ RunsTyped /\ Tracked /\ ChainedSoFar
      /\ NotRecordedTwice /\ NotQueuedTwice /\ UNCHANGED runs
  BY DEF RestartInv, TypeInv, Tracked, restartVars
<1>1. ASSUME NEW r \in Requests, ProcessEntry(r), r \in inHand \cup pendingEntries
      PROVE  ChainedSoFar' /\ RunsTyped'
  <2>1. seqOf[r] \in Nat /\ r \notin Decided
    BY <1>0, <1>1 DEF Tracked, Numbering
  <2>2. QED
    BY <1>0, <1>1, <2>1, ProcessEntryChains
<1>2. ASSUME UNCHANGED << file, refused, prevHash >>
      PROVE  ChainedSoFar' /\ RunsTyped'
  BY <1>0, <1>2
     DEF ChainedSoFar, EachRunChained, RunEnd, EndsIn, Accepted, RunsTyped
<1>3. ASSUME NEW r \in Requests, Client(r) \/ Receive(r) \/ Park(r)
      PROVE  ChainedSoFar' /\ RunsTyped'
  BY <1>2, <1>3
     DEF Client, GetNextSequenceID, Log, LogPanics, Abandon, Receive, Park,
         workerVars, storageVars
<1>4. ASSUME NEW r \in Requests, InSequence(r) \/ FailOpen(r) \/ Drain(r) \/ Flush(r)
      PROVE  ChainedSoFar' /\ RunsTyped'
  BY <1>1, <1>4 DEF InSequence, FailOpen, Handle, Drain, Flush
<1>5. CASE \/ DrainBreak \/ EndOfEntries \/ CloseStorage \/ CloseEntries
           \/ UNCHANGED vars
  BY <1>2, <1>5
     DEF DrainBreak, EndOfEntries, CloseStorage, CloseEntries, vars, workerVars, storageVars
<1>6. QED
  BY <1>3, <1>4, <1>5 DEF Next, Worker, Terminated
\* A kill, or an orderly end, and the start that follows it.
Restarts ==
  /\ Start
  /\ file' = file \/ file' = Append(file, Torn)

\* The file keeps what it has and what is written; logged entries stay logged.
LEMMA RestartKeeps ==
  ASSUME TypeInv, Restarts
  PROVE  /\ TypeInv'
         /\ FileKept /\ Written' = Written /\ Decided' = Decided
         /\ Logged' = Logged
         /\ Len(file) \in Nat /\ Len(file') \in Nat
         /\ \A i \in (Len(file) + 1)..Len(file') : ~Accepted(i)'
<1>1. /\ TypeOK /\ Numbering /\ StorageTypeOK /\ Len(file) \in Nat
      /\ Torn.kind = "torn" /\ refused' = refused
  BY LenProperties DEF TypeInv, TypeOK, StorageTypeOK, Torn, Restarts, Start
<1>2. /\ Len(file') \in Nat
      /\ FileKept /\ Written' = Written
      /\ \A i \in (Len(file) + 1)..Len(file') : ~Accepted(i)'
      /\ file' \in Seq(Lines \cup {Torn})
  <2>1. CASE file' = file
    BY <1>1, <2>1 DEF FileKept, Accepted, Written, StorageTypeOK
  <2>2. CASE file' = Append(file, Torn)
    <3>1. /\ Len(file') = Len(file) + 1
          /\ \A i \in 1..Len(file) : file'[i] = file[i]
          /\ file'[Len(file) + 1] = Torn
          /\ Written' = Written
      BY <1>1, <2>2, PartAppended
    <3>2. FileKept
      BY <1>1, <3>1 DEF FileKept, Accepted
    <3>3. \A i \in (Len(file) + 1)..Len(file') : i = Len(file) + 1
      BY <1>1, <3>1
    <3>4. file' \in Seq(Lines \cup {Torn})
      BY <1>1, <2>2, AppendProperties DEF StorageTypeOK
    <3>5. QED
      BY <1>1, <3>1, <3>2, <3>3, <3>4 DEF Accepted
  <2>3. QED
    BY <2>1, <2>2 DEF Restarts
<1>3. Decided' = Decided
  BY <1>1, <1>2 DEF Decided
<1>4. Logged' = Logged
  BY <1>1 DEF Restarts, Start, Logged, TypeOK
<1>5. TypeOK'
  <2>1. /\ entries' \in Seq(Requests) /\ Len(entries') = 0 /\ prevHash' \in Digests
    BY EmptySeq DEF Restarts, Start, Genesis, Digests
  <2>2. UNCHANGED << seqOf, refused, faults >>
    BY DEF Restarts, Start
  <2>3. /\ nextSequenceID' = 0 /\ inHand' = {} /\ pendingEntries' = {} /\ closed' = FALSE
        /\ wpc' = "recv" /\ expectedSeq' = 0 /\ failedOpen' = FALSE
        /\ hpc' = [r \in Requests |-> IF hpc[r] = "numbered" THEN "panicked" ELSE hpc[r]]
    BY DEF Restarts, Start
  <2>4. StorageTypeOK'
    BY <1>1, <1>2, <2>2 DEF StorageTypeOK
  <2>5. hpc' \in [Requests -> {"new", "numbered", "logged", "panicked"}]
    BY <1>1, <2>3 DEF TypeOK
  <2>6. Len(entries') <= BufferSize
    BY <2>1, BufferSizeAssumption
  <2>7. QED
    BY <1>1, <2>1, <2>2, <2>3, <2>4, <2>5, <2>6 DEF TypeOK
<1>6. Numbering' /\ OneInHand'
  <2>1. /\ UNCHANGED seqOf /\ entries' = << >> /\ pendingEntries' = {}
        /\ inHand' = {} /\ wpc' = "recv"
        /\ hpc' = [r \in Requests |-> IF hpc[r] = "numbered" THEN "panicked" ELSE hpc[r]]
    BY DEF Restarts, Start
  <2>2. Len(entries') = 0
    BY <2>1, EmptySeq
  <2>3. QED
    BY <1>1, <2>1, <2>2 DEF Numbering, OneInHand
<1>7. QED
  BY <1>1, <1>2, <1>3, <1>4, <1>5, <1>6 DEF TypeInv

\* What was on its way is lost.
LEMMA TrackedRestart ==
  ASSUME TypeInv, Tracked, Restarts
  PROVE  Tracked'
<1>1. /\ Written' = Written /\ Decided' = Decided /\ Logged' = Logged /\ FileKept
      /\ Len(file) \in Nat /\ Len(file') \in Nat
      /\ \A i \in (Len(file) + 1)..Len(file') : ~Accepted(i)'
  BY RestartKeeps
<1>2. /\ entries' = << >> /\ inHand' = {} /\ pendingEntries' = {}
      /\ lost' = lost \cup (Logged \ Decided)
  BY DEF Restarts, Start
<1>3. InChannel' = {} /\ NotQueuedTwice'
  <2>1. 1..Len(entries') = {}
    BY <1>2, EmptySeq
  <2>2. QED
    BY <2>1 DEF InChannel, NotQueuedTwice
<1>4. Written \subseteq Decided /\ (Written \cap lost) = {}
  BY DEF Decided, Tracked, NotRecordedTwice
<1>5. \A i, j \in 1..Len(file') :
        /\ file'[i].kind = "line" /\ file'[j].kind = "line"
        /\ file'[i].req = file'[j].req
        => i = j
  <2>1. CASE file' = file
    BY <2>1 DEF Tracked, NotRecordedTwice
  <2>2. CASE file' = Append(file, Torn)
    <3>1. /\ Len(file') = Len(file) + 1
          /\ \A i \in 1..Len(file) : file'[i] = file[i]
          /\ file'[Len(file) + 1] = Torn /\ Torn.kind = "torn"
      BY <2>2, PartAppended DEF Torn, TypeInv, TypeOK
    <3>2. \A i \in 1..Len(file') : file'[i].kind = "line" => i \in 1..Len(file)
      BY <1>1, <3>1
    <3>3. QED
      BY <3>1, <3>2 DEF Tracked, NotRecordedTwice
  <2>3. QED
    BY <2>1, <2>2 DEF Restarts
<1>6. NotRecordedTwice'
  BY <1>1, <1>2, <1>4, <1>5 DEF NotRecordedTwice
<1>7. QED
  BY <1>1, <1>2, <1>3, <1>6 DEF Tracked

\* The next run begins a chain of its own behind the last.
LEMMA ChainedRestart ==
  ASSUME TypeInv, RunsTyped, ChainedSoFar, Restarts
  PROVE  ChainedSoFar' /\ RunsTyped'
<1>1. /\ StorageTypeOK /\ EachRunChained /\ FileKept
      /\ Len(file) \in Nat /\ Len(file') \in Nat
      /\ \A i \in (Len(file) + 1)..Len(file') : ~Accepted(i)'
  BY RestartKeeps DEF TypeInv, TypeOK, ChainedSoFar
<1>2. /\ runs' \in Seq(Nat) /\ Len(runs) \in Nat /\ Len(runs') = Len(runs) + 1
      /\ \A k \in 1..Len(runs) : runs'[k] = runs[k]
      /\ runs'[Len(runs')] = Len(file')
  BY <1>1, LenProperties, AppendProperties DEF RunsTyped, Restarts, Start
<1>3. \A k \in 1..Len(runs') : k \in 1..Len(runs) \/ k = Len(runs')
  BY <1>2
<1>4. RunsTyped'
  <2>1. Len(runs') >= 1
    BY <1>2
  <2>2. \A k \in 1..Len(runs) : runs'[k] <= Len(file')
    BY <1>1, <1>2, RunBounds DEF FileKept
  <2>3. QED
    BY <1>1, <1>2, <1>3, <2>1, <2>2 DEF RunsTyped
<1>5. ASSUME NEW k \in 1..Len(runs'), NEW i \in (runs'[k] + 1)..RunEnd(k)', Accepted(i)'
      PROVE  /\ EndsIn(runs[k] + 1, i - 1, file[i].prev)'
             /\ file'[i].hash = Hash(file'[i].req, file'[i].prev)
  <2>1. k \in 1..Len(runs)
    <3>1. CASE k = Len(runs')
      <4>1. RunEnd(k)' = Len(file')
        BY <1>2, <3>1 DEF RunEnd
      <4>2. QED
        BY <1>1, <1>2, <1>5, <3>1, <4>1
    <3>2. QED
      BY <1>3, <3>1
  <2>2. runs[k] \in Nat /\ RunEnd(k) \in Nat /\ runs'[k] = runs[k]
    BY <1>1, <1>2, <2>1, RunBounds
  <2>3. i \in Int /\ i >= runs[k] + 1 /\ i <= RunEnd(k)
    <3>1. CASE k = Len(runs)
      <4>1. RunEnd(k) = Len(file) /\ RunEnd(k)' = Len(file')
        BY <1>2, <3>1 DEF RunEnd
      <4>2. QED
        BY <1>1, <1>5, <2>2, <4>1
    <3>2. CASE k # Len(runs)
      <4>1. k < Len(runs) /\ k + 1 \in 1..Len(runs)
        BY <1>2, <2>1, <3>2
      <4>2. RunEnd(k)' = RunEnd(k)
        BY <1>2, <4>1 DEF RunEnd
      <4>3. QED
        BY <1>5, <2>2, <4>2
    <3>3. QED
      BY <3>1, <3>2
  <2>4. QED
    BY <1>1, <1>5, <2>1, <2>2, <2>3, LinksKept
<1>6. EachRunChained'
  BY <1>5 DEF EachRunChained
<1>7. EndsIn(runs[Len(runs)] + 1, Len(file), prevHash)'
  <2>1. prevHash' = Genesis
    BY DEF Restarts, Start
  <2>2. (runs'[Len(runs')] + 1)..Len(file') = {}
    BY <1>1, <1>2
  <2>3. QED
    BY <2>1, <2>2 DEF EndsIn
<1>8. QED
  BY <1>4, <1>6, <1>7 DEF ChainedSoFar

LEMMA RestartStepInv ==
  RestartInv /\ [RestartNext]_<< vars, restartVars >> => RestartInv'
<1> SUFFICES ASSUME RestartInv, [RestartNext]_<< vars, restartVars >>
    PROVE  RestartInv'
  OBVIOUS
<1>1. TypeInv /\ RunsTyped /\ Tracked /\ ChainedSoFar
  BY DEF RestartInv
<1>2. CASE [Next]_vars /\ UNCHANGED restartVars
  BY <1>1, <1>2, TypeStep, TrackedStep, ChainedStep DEF RestartInv
<1>3. CASE Crash \/ RestartAfterShutdown
  <2>1. Restarts
    BY <1>3 DEF Crash, RestartAfterShutdown, Restarts
  <2>2. QED
    BY <1>1, <2>1, RestartKeeps, TrackedRestart, ChainedRestart DEF RestartInv
<1>4. QED
  BY <1>2, <1>3 DEF RestartNext

\* The types hold in every run of the process.
THEOREM RestartTypeCorrect == RestartSpec => []TypeOK
<1>1. RestartInv => TypeOK
  BY DEF RestartInv, TypeInv
<1>2. QED
  BY <1>1, RestartInitInv, RestartStepInv, PTL DEF RestartSpec

\* The lines of each run are one chain from the genesis digest, for any number
\* of runs, whatever ended them, and however their writes failed.
THEOREM RunsChained == RestartSpec => []EachRunChained
<1>1. RestartInv => EachRunChained
  BY DEF RestartInv, ChainedSoFar
<1>2. QED
  BY <1>1, RestartInitInv, RestartStepInv, PTL DEF RestartSpec

\* No entry has two lines, of one run or of two, and what is lost has none.
THEOREM NothingRecordedTwice == RestartSpec => []NotRecordedTwice
<1>1. RestartInv => NotRecordedTwice
  BY DEF RestartInv, Tracked
<1>2. QED
  BY <1>1, RestartInitInv, RestartStepInv, PTL DEF RestartSpec

-----------------------------------------------------------------------------
(* What a kill loses *)

\* The channel holds no more entries than places.
LEMMA ChannelSize ==
  ASSUME TypeOK
  PROVE  IsFiniteSet(InChannel) /\ Cardinality(InChannel) <= BufferSize
<1>1. Len(entries) \in Nat /\ Len(entries) <= BufferSize
  BY LenProperties DEF TypeOK
<1>2. entries \in Surjection(1..Len(entries), InChannel)
  <2>1. entries \in [1..Len(entries) -> InChannel]
    <3>1. DOMAIN entries = 1..Len(entries) /\ entries = [i \in DOMAIN entries |-> entries[i]]
      BY LenProperties DEF TypeOK
    <3>2. QED
      BY <3>1 DEF InChannel
  <2>2. QED
    BY <2>1 DEF Surjection, InChannel
<1>3. /\ IsFiniteSet(1..Len(entries))
      /\ Cardinality(1..Len(entries)) = IF 1 > Len(entries) THEN 0 ELSE Len(entries) - 1 + 1
  BY <1>1, FS_Interval
<1>4. IsFiniteSet(InChannel) /\ Cardinality(InChannel) <= Cardinality(1..Len(entries))
  BY <1>2, <1>3, FS_Surjection
<1>5. Cardinality(InChannel) \in Nat
  BY <1>4, FS_CardinalityType
<1>6. QED
  BY <1>1, <1>3, <1>4, <1>5, BufferSizeAssumption

LossInv == PendingInv /\ IsFiniteSet(lost) /\ LossBounded

\* A restart adds to the loss what the channel, the hand and the map held.
LEMMA LossRestart ==
  ASSUME RestartInv, LossInv, Restarts
  PROVE  LossInv'
<1>1. /\ TypeOK /\ OneInHand /\ Tracked /\ RunsTyped
      /\ IsFiniteSet(lost) /\ IsFiniteSet(pendingEntries)
      /\ Cardinality(pendingEntries) <= MaxPending
      /\ Cardinality(lost) <= (Len(runs) - 1) * (BufferSize + MaxPending + 1)
  BY DEF RestartInv, TypeInv, LossInv, LossBounded, PendingInv, PendingBounded
<1>2. lost' \subseteq lost \cup ((InChannel \cup pendingEntries) \cup inHand)
  BY <1>1 DEF Restarts, Start, Tracked
<1>3. /\ IsFiniteSet(InChannel) /\ Cardinality(InChannel) <= BufferSize
  BY <1>1, ChannelSize
<1> DEFINE queued == InChannel \cup pendingEntries
           waiting == queued \cup inHand
<1>a. /\ IsFiniteSet(queued) /\ Cardinality(queued) <= BufferSize + MaxPending
  <2>1. /\ IsFiniteSet(queued)
        /\ Cardinality(queued) = Cardinality(InChannel) + Cardinality(pendingEntries)
                                    - Cardinality(InChannel \cap pendingEntries)
    BY <1>1, <1>3, FS_Union
  <2>2. IsFiniteSet(InChannel \cap pendingEntries)
    BY <1>3, FS_Intersection
  <2>3. /\ Cardinality(InChannel) \in Nat /\ Cardinality(pendingEntries) \in Nat
        /\ Cardinality(InChannel \cap pendingEntries) \in Nat /\ Cardinality(queued) \in Nat
    BY <1>1, <1>3, <2>1, <2>2, FS_CardinalityType
  <2>4. QED
    BY <1>1, <1>3, <2>1, <2>3, BufferSizeAssumption, MaxPendingAssumption
<1>b. /\ IsFiniteSet(inHand) /\ Cardinality(inHand) <= 1
  <2>1. CASE inHand = {}
    BY <2>1, FS_EmptySet
  <2>2. CASE inHand # {}
    <3>1. PICK r \in inHand : TRUE
      BY <2>2
    <3>2. inHand = {r}
      BY <1>1, <3>1 DEF OneInHand
    <3>3. IsFiniteSet({r}) /\ Cardinality({r}) = 1
      BY FS_Singleton
    <3>4. QED
      BY <3>2, <3>3
  <2>3. QED
    BY <2>1, <2>2
<1> HIDE DEF queued
<1>4. /\ IsFiniteSet(waiting) /\ Cardinality(waiting) <= BufferSize + MaxPending + 1
      /\ Cardinality(waiting) \in Nat
  <2>1. /\ IsFiniteSet(waiting)
        /\ Cardinality(waiting) = Cardinality(queued) + Cardinality(inHand)
                                    - Cardinality(queued \cap inHand)
    BY <1>a, <1>b, FS_Union
  <2>2. IsFiniteSet(queued \cap inHand)
    BY <1>a, FS_Intersection
  <2>3. /\ Cardinality(queued) \in Nat /\ Cardinality(inHand) \in Nat
        /\ Cardinality(queued \cap inHand) \in Nat /\ Cardinality(waiting) \in Nat
    BY <1>a, <1>b, <2>1, <2>2, FS_CardinalityType
  <2>4. QED
    BY <1>a, <1>b, <2>1, <2>3, BufferSizeAssumption, MaxPendingAssumption
<1> HIDE DEF waiting
<1>5. /\ IsFiniteSet(lost \cup waiting)
      /\ Cardinality(lost \cup waiting) <= Cardinality(lost) + Cardinality(waiting)
      /\ Cardinality(lost \cup waiting) \in Nat /\ Cardinality(lost) \in Nat
  <2>1. /\ IsFiniteSet(lost \cup waiting)
        /\ Cardinality(lost \cup waiting) = Cardinality(lost) + Cardinality(waiting)
                                              - Cardinality(lost \cap waiting)
    BY <1>1, <1>4, FS_Union
  <2>2. IsFiniteSet(lost \cap waiting)
    BY <1>1, FS_Intersection
  <2>3. /\ Cardinality(lost) \in Nat /\ Cardinality(lost \cap waiting) \in Nat
        /\ Cardinality(lost \cup waiting) \in Nat
    BY <1>1, <2>1, <2>2, FS_CardinalityType
  <2>4. QED
    BY <1>4, <2>1, <2>3
<1>6. lost' \in SUBSET (lost \cup waiting)
  BY <1>2 DEF waiting, queued
<1>7. /\ IsFiniteSet(lost') /\ Cardinality(lost') <= Cardinality(lost \cup waiting)
      /\ Cardinality(lost') \in Nat
  BY <1>5, <1>6, FS_Subset, FS_CardinalityType
<1>8. Len(runs) \in Nat /\ Len(runs') = Len(runs) + 1
  BY <1>1, LenProperties, AppendProperties, RestartKeeps DEF RunsTyped, Restarts, Start, RestartInv
<1>9. LossBounded'
  <2>1. /\ BufferSize + MaxPending + 1 \in Nat
        /\ Len(runs) - 1 \in Int
    BY <1>8, BufferSizeAssumption, MaxPendingAssumption
  <2> DEFINE n == BufferSize + MaxPending + 1
             m == Len(runs) - 1
  <2>2. n \in Nat /\ m \in Int /\ m + 1 = Len(runs') - 1
        /\ Cardinality(lost) <= m * n /\ Cardinality(waiting) <= n
    BY <1>1, <1>4, <1>8, <2>1
  <2> HIDE DEF n, m
  <2>3. (m + 1) * n = m * n + n /\ m * n \in Int
    BY <2>2
  <2>4. Cardinality(lost') <= m * n + n
    <3>1. PICK p \in Int : p = m * n
      BY <2>3
    <3>2. Cardinality(lost') <= p + n
      <4>1. Cardinality(lost) <= p
        BY <2>2, <3>1
      <4>2. QED
        BY <1>4, <1>5, <1>7, <2>2, <4>1
    <3>3. QED
      BY <3>1, <3>2
  <2>5. Cardinality(lost') <= (m + 1) * n
    BY <2>3, <2>4
  <2>6. QED
    BY <2>2, <2>5 DEF LossBounded, n
<1>10. PendingInv'
  <2>1. pendingEntries' = {}
    BY DEF Restarts, Start
  <2>2. QED
    BY <2>1, FS_EmptySet, MaxPendingAssumption DEF PendingInv, PendingBounded
<1>11. QED
  BY <1>7, <1>9, <1>10 DEF LossInv

LEMMA LossStep ==
  RestartInv /\ LossInv /\ [RestartNext]_<< vars, restartVars >> => LossInv'
<1> SUFFICES ASSUME RestartInv, LossInv, [RestartNext]_<< vars, restartVars >>
    PROVE  LossInv'
  OBVIOUS
<1>1. CASE [Next]_vars /\ UNCHANGED restartVars
  BY <1>1, PendingStep DEF LossInv, LossBounded, restartVars
<1>2. CASE Crash \/ RestartAfterShutdown
  <2>1. Restarts
    BY <1>2 DEF Crash, RestartAfterShutdown, Restarts
  <2>2. QED
    BY <2>1, LossRestart
<1>3. QED
  BY <1>1, <1>2 DEF RestartNext

\* A kill loses no more entries than the channel and the pending map have room
\* for, and the one run has in hand, however often it happens and whatever else
\* goes wrong.
THEOREM LossStaysBounded == RestartSpec => []LossBounded
<1>1. RestartInit => LossInv
  <2> SUFFICES ASSUME RestartInit PROVE LossInv
    OBVIOUS
  <2>1. /\ runs = << 0 >> /\ lost = {} /\ pendingEntries = {} /\ Len(runs) = 1
    BY DEF RestartInit, Init, WorkerInit
  <2>2. (Len(runs) - 1) * (BufferSize + MaxPending + 1) = 0
    BY <2>1, BufferSizeAssumption, MaxPendingAssumption
  <2>3. QED
    BY <2>1, <2>2, FS_EmptySet, MaxPendingAssumption
       DEF LossInv, LossBounded, PendingInv, PendingBounded
<1>2. LossInv => LossBounded
  BY DEF LossInv
<1>3. QED
  BY <1>1, <1>2, LossStep, RestartInitInv, RestartStepInv, PTL DEF RestartSpec

-----------------------------------------------------------------------------
(* What the verifier says of the file *)

\* The verifier accepts the file exactly when it reads as one chain, in every
\* state and for every edit of it, if all bodies are UTF-8.
THEOREM VerifierDecides ==
  ASSUME NotUTF8 = {}
  PROVE  RestartSpec => []VerifierDecidesChain
<1>1. TypeOK => VerifierDecidesChain
  <2> SUFFICES ASSUME TypeOK,
                      NEW log \in {file} \cup (IF \A i \in 1..Len(file) : file[i].kind = "line"
                                                THEN HashedEdits(file) \cup UnhashedEdits(file)
                                                ELSE {})
               PROVE  (VerifyLog(log) = ExitSuccess) <=> ReadsAsChain(log)
    BY DEF VerifierDecidesChain
  <2>1. file \in Seq(Parts)
    BY DEF TypeOK, StorageTypeOK, Parts
  <2>2. log \in Seq(Parts)
    <3>1. CASE log = file
      BY <2>1, <3>1
    <3>2. CASE /\ \A i \in 1..Len(file) : file[i].kind = "line"
               /\ log \in HashedEdits(file) \cup UnhashedEdits(file)
      <4>1. file \in Seq(Lines)
        BY <2>1, <3>2, FileOfLines
      <4>2. log \in Seq(Lines)
        BY <3>2, <4>1, EditsShape, UnhashedEditsShape
      <4>3. QED
        BY <4>2 DEF Parts
    <3>3. QED
      BY <3>1, <3>2
  <2>3. SubstituteDistinct /\ AllUTF8(log)
    BY DEF SubstituteDistinct, AllUTF8
  <2>4. QED
    BY <2>2, <2>3, VerifierExact
<1>2. QED
  BY <1>1, RestartTypeCorrect, PTL

\* The first run starts with an empty file.
LEMMA FirstRunStarts == RestartSpec => [](runs # << >> /\ runs[1] = 0)
<1> DEFINE FirstAtZero == runs \in Seq(Nat) /\ runs # << >> /\ runs[1] = 0
<1>1. RestartInit => FirstAtZero
  BY DEF RestartInit
<1>2. StorageTypeOK' /\ FirstAtZero /\ [RestartNext]_<< vars, restartVars >> => FirstAtZero'
  <2> SUFFICES ASSUME StorageTypeOK', FirstAtZero, [RestartNext]_<< vars, restartVars >>
               PROVE  FirstAtZero'
    OBVIOUS
  <2>1. CASE UNCHANGED runs
    BY <2>1
  <2>2. CASE runs' = Append(runs, Len(file'))
    <3>1. Len(file') \in Nat /\ Len(runs) \in Nat /\ Len(runs) > 0
      BY LenProperties, EmptySeq DEF StorageTypeOK
    <3>2. runs' \in Seq(Nat) /\ Len(runs') = Len(runs) + 1 /\ runs'[1] = runs[1]
      BY <2>2, <3>1, AppendProperties
    <3>3. QED
      BY <3>1, <3>2, EmptySeq
  <2>3. QED
    BY <2>1, <2>2 DEF RestartNext, Crash, RestartAfterShutdown, Start, vars, restartVars
<1>3. TypeOK => StorageTypeOK
  BY DEF TypeOK
<1>4. QED
  BY <1>1, <1>2, <1>3, RestartTypeCorrect, PTL DEF RestartSpec

\* The verifier accepts what the first run wrote, unless a line is too long for
\* it, refuses every edit of what is hashed and overlooks every edit of what is
\* not, if all bodies are UTF-8.
THEOREM FirstRunJudged ==
  ASSUME NotUTF8 = {}
  PROVE  RestartSpec => []FirstRunTamperEvident
<1>1. TypeOK /\ EachRunChained /\ runs # << >> /\ runs[1] = 0 => FirstRunTamperEvident
  <2> SUFFICES ASSUME TypeOK, EachRunChained, runs[1] = 0, Len(runs) = 1,
                      Written \cap LongLines = {},
                      \A i \in 1..Len(file) : file[i].kind = "line" /\ file[i].req \notin refused
               PROVE  /\ VerifyLog(file) = ExitSuccess
                      /\ \A log \in HashedEdits(file) : VerifyLog(log) # ExitSuccess
                      /\ \A log \in UnhashedEdits(file) : VerifyLog(log) = ExitSuccess
    BY DEF FirstRunTamperEvident, FirstRunClean
  <2>1. file \in Seq(Lines)
    BY FileOfLines DEF TypeOK, StorageTypeOK, Parts
  <2>2. Len(file) \in Nat /\ \A i \in 1..Len(file) : Accepted(i)
    BY <2>1, LineParts DEF Accepted
  <2>3. ASSUME NEW i \in 1..Len(file)
        PROVE  /\ EndsIn(1, i - 1, file[i].prev)
               /\ file[i].hash = Hash(file[i].req, file[i].prev)
    <3>1. 1 \in 1..Len(runs) /\ RunEnd(1) = Len(file) /\ runs[1] + 1 = 1
      BY DEF RunEnd
    <3>2. QED
      BY <2>2, <3>1 DEF EachRunChained
  <2>4. ASSUME NEW i \in 1..Len(file)
        PROVE  file[i].prev = IF i = 1 THEN Genesis ELSE file[i - 1].hash
    <3>1. CASE i = 1
      BY <2>3, <3>1 DEF EndsIn
    <3>2. CASE i > 1
      <4>1. 1 \in 1..(i - 1) /\ Accepted(1)
        BY <2>2, <3>2
      <4>2. PICK j \in 1..(i - 1) :
              file[i].prev = file[j].hash /\ \A k \in (j + 1)..(i - 1) : ~Accepted(k)
        BY <2>3, <4>1 DEF EndsIn
      <4>3. j = i - 1
        BY <2>2, <3>2, <4>2
      <4>4. QED
        BY <3>2, <4>2, <4>3
    <3>3. QED
      BY <2>2, <3>1, <3>2
  <2>5. Chained(file, Genesis)
    BY <2>3, <2>4 DEF Chained
  <2>6. \A i \in 1..Len(file) : file[i].req \notin LongLines \cup NotUTF8
    BY DEF Written
  <2>7. SubstituteDistinct
    BY DEF SubstituteDistinct
  <2>8. QED
    BY <2>1, <2>5, <2>6, <2>7, ChainAccepted, EditsRefused, UnhashedEditsPass
<1>2. QED
  BY <1>1, RestartTypeCorrect, RunsChained, FirstRunStarts, PTL
=============================================================================
