------------------------------- MODULE Verify -------------------------------
(***************************************************************************)
(* cmd/verify/main.go: verifyLog scans the audit file once, line by line,  *)
(* and exits at the first thing that is wrong.  The scan is a fold over    *)
(* the file; its state is what verifyLog keeps between two lines.          *)
(***************************************************************************)
EXTENDS HashChain, FiniteSets, SequencesExt

CONSTANTS
  NotUTF8,         \* requests with a body that json.Marshal alters: the file
                   \* holds U+FFFD where the worker hashed the raw bytes
  LongLines,       \* requests whose line exceeds maxScanTokenSize (1 MB)
  MaxParseErrors   \* parse errors tolerated (main.go:114: 10)

ASSUME MaxParseErrorsAssumption == MaxParseErrors \in Nat

\* Exit codes, main.go:65-72.  ExitSuccess also stands for "no exit yet".
ExitSuccess == "success"
ExitChainBroken == "chain broken"
ExitDataTampered == "data tampered"
ExitParseError == "parse error"
ExitScanError == "scan error"

\* expected is expectedPrevHash, known once a first line was accepted; torn
\* says that the scanned line begins with what a cut write left.
ScanStart == [exit |-> ExitSuccess, known |-> FALSE, expected |-> Genesis,
              errors |-> 0, torn |-> FALSE]

\* The digest calculateHash gets for a line: the one the worker computed if
\* the fields read back are the fields that were hashed.
CalculatedHash(line) ==
  IF line.req \in NotUTF8 THEN Hash("replaced", line.prev)
                          ELSE Hash(line.req, line.prev)

\* Faulty variant: one parse error less is tolerated.
UnparsableStrict(v) ==
  [v EXCEPT !.errors = @ + 1, !.torn = FALSE,
            !.exit = IF v.errors + 1 >= MaxParseErrors THEN ExitParseError ELSE @]

\* A line that is not JSON is counted and skipped.
Unparsable(v) ==
  [v EXCEPT !.errors = @ + 1, !.torn = FALSE,
            !.exit = IF v.errors + 1 > MaxParseErrors THEN ExitParseError ELSE @]

\* Faulty variant: the link to the line before is not checked.
ScanPartWithoutLink(v, part) ==
  IF v.exit # ExitSuccess THEN v
  ELSE IF part.kind = "torn" THEN [v EXCEPT !.torn = TRUE]
  ELSE IF part.req \in LongLines THEN [v EXCEPT !.exit = ExitScanError]
  ELSE IF v.torn THEN Unparsable(v)
  ELSE IF CalculatedHash(part) # part.hash THEN [v EXCEPT !.exit = ExitDataTampered]
  ELSE [v EXCEPT !.known = TRUE, !.expected = part.hash]

\* The loop body of verifyLog, for the next part of the file.  A torn part has
\* no newline: the scanner hands it out in one line with the part after it.
ScanPart(v, part) ==
  IF v.exit # ExitSuccess THEN v
  ELSE IF part.kind = "torn" THEN [v EXCEPT !.torn = TRUE]
  ELSE IF part.req \in LongLines THEN [v EXCEPT !.exit = ExitScanError]
  ELSE IF v.torn THEN Unparsable(v)
  ELSE IF v.known /\ part.prev # v.expected THEN [v EXCEPT !.exit = ExitChainBroken]
  ELSE IF CalculatedHash(part) # part.hash THEN [v EXCEPT !.exit = ExitDataTampered]
  ELSE [v EXCEPT !.known = TRUE, !.expected = part.hash]

\* verifyLog: the exit code for a file; a torn part at its end is a line too.
VerifyLog(log) ==
  LET v == FoldLeft(ScanPart, ScanStart, log) IN
    IF v.exit = ExitSuccess /\ v.torn THEN Unparsable(v).exit ELSE v.exit

-----------------------------------------------------------------------------
(* What the verifier is meant to decide, without a scan *)

\* The lines that an independent reader can parse, in order: a line is lost
\* when a torn part stands right before it.
ParsedLines(log) ==
  LET Readable(i) == log[i].kind = "line" /\ (i > 1 => log[i - 1].kind = "line")
  IN  FoldLeft(LAMBDA out, i : IF Readable(i) THEN Append(out, log[i]) ELSE out,
               << >>, [i \in 1..Len(log) |-> i])

\* How many lines of the file cannot be parsed.
UnparsableLines(log) ==
  Cardinality({ i \in 1..Len(log) :
                  log[i].kind = "torn" /\ (i < Len(log) => log[i + 1].kind = "line") })

\* The file is a chain to its reader, whatever it starts from, and no line is
\* too long for the scanner.
ReadsAsChain(log) ==
  LET lines == ParsedLines(log) IN
    /\ \A i \in 1..Len(log) : log[i].kind = "line" => log[i].req \notin LongLines
    /\ lines # << >> => Chained(lines, lines[1].prev)
    /\ UnparsableLines(log) <= MaxParseErrors

\* What a later edit of what the digests cover may turn the file into: a line
\* with other hashed contents, an inner line removed, a line repeated, two
\* neighbours exchanged.  (Lines cut off at either end leave a shorter chain, and
\* one who computes all later digests anew a different one: the digest has no
\* key, and no verifier of the file alone can tell.)
HashedEdits(log) ==
  (UNION { { [log EXCEPT ![i].req = q] : q \in Requests \ {log[i].req} }
             : i \in 1..Len(log) }) \cup
  { RemoveAt(log, i) : i \in 2..(Len(log) - 1) } \cup
  { InsertAt(log, i + 1, log[i]) : i \in 1..Len(log) } \cup
  { [log EXCEPT ![i] = log[i + 1], ![i + 1] = log[i]] : i \in 1..(Len(log) - 1) }

\* An edit of the fields of one line that no digest covers.
UnhashedEdits(log) == { [log EXCEPT ![i].seq = log[i].seq + 1] : i \in 1..Len(log) }
=============================================================================
