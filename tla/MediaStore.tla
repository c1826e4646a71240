----------------------------- MODULE MediaStore ------------------------------
(***************************************************************************)
(* Images on their way out of the audit log: internal/media/extractor.go   *)
(* and extractMediaFromBodies of internal/proxy/proxy.go, for several      *)
(* requests, days and runs of the process on one storage directory.        *)
(*                                                                         *)
(* A body is a sequence of atoms: the head of an image ("data:image/png;   *)
(* base64,"), a piece of base64, a loose piece (another spelling of the    *)
(* same bytes: the bits its last character has too many are not zero), a   *)
(* stray piece (characters of the base64 alphabet in the wrong place,      *)
(* which do not decode), other text, and a placeholder.  Text ends an      *)
(* image, as the quote of a JSON string does.  A file holds the decoded    *)
(* bytes; a hash is of the base64 text, and stands for it.                 *)
(***************************************************************************)
EXTENDS Naturals, SequencesExt

CONSTANTS
  Requests,
  Bodies,     \* the bodies of requests and responses
  MinSize,    \* pieces of the smallest image that is extracted (min_size_kb)
  MaxFailed,  \* bound on the failing saves of one body
  MaxRuns, MaxDays    \* bounds

Atom(kind, val, n) == [kind |-> kind, val |-> val, n |-> n]
Image(type) == Atom("head", type, 0)
Data(d) == Atom("data", d, 0)
Loose(d) == Atom("data", d, 1)
Stray == Atom("stray", "none", 0)
Text == Atom("text", "none", 0)
Placeholder(n) == Atom("image", "none", n)

\* No body has the text of a placeholder in it, all images are in quotes, and
\* only the last piece of one has bits too many.
ASSUME BodiesAssumption ==
  \A b \in Bodies : b \in Seq(ToSet(b)) /\ \A k \in DOMAIN b :
    /\ b[k] \in {Image(b[k].val), Data(b[k].val), Loose(b[k].val), Stray, Text}
    /\ b[k].kind = "head" /\ k > 1 => b[k-1].kind = "text"
    /\ b[k] = Loose(b[k].val) /\ k < Len(b) => b[k+1].kind = "text"
ASSUME BoundsAssumption == {MinSize, MaxFailed, MaxRuns, MaxDays} \subseteq Nat

VARIABLES
  run, day,
  nextSequenceID,
  stage,      \* of each request
  seqOf,
  work,       \* what each handler has of its entry
  files,      \* path -> bytes
  log,        \* the recorded entries
  active      \* history: the days on which each run stored a file

vars == << run, day, nextSequenceID, stage, seqOf, work, files, log, active >>

-----------------------------------------------------------------------------
(* ExtractFromBody *)

InImage(atom) == atom.kind \in {"data", "stray"}

\* Where the image ends whose head is at i: it has as many pieces as follow.
EndOfImage(body, i) ==
  SelectInSubSeq(Append(body, Text), i + 1, Len(body) + 1, LAMBDA atom : ~InImage(atom)) - 1

\* FindAllStringSubmatch: the heads with a piece behind them, and their images.
Matches(body) == {i \in DOMAIN body : body[i].kind = "head" /\ EndOfImage(body, i) > i}
Match(body, i) == SubSeq(body, i, EndOfImage(body, i))

IsLarge(match) == Len(match) - 1 >= MinSize /\ Stray \notin ToSet(match)

\* Those that are saved, or would be.
LargeMatches(body) == {i \in Matches(body) : IsLarge(Match(body, i))}

\* DecodeString does not look at the bits too many; encoding writes none.
Decode(pieces) == [k \in DOMAIN pieces |-> pieces[k].val]
Encode(bytes) == [k \in DOMAIN bytes |-> Data(bytes[k])]

\* Faulty variant: the name of the file does not tell the bodies apart.
SharedPath(date, seq, bodyType, index, type) ==
  [day |-> date, seq |-> seq, body |-> "none", index |-> index, type |-> type]

\* {YYYY-MM-DD}/seq_{N}_{type}_{index}.{ext}, on the day the image is saved.
Path(date, seq, bodyType, index, type) ==
  [day |-> date, seq |-> seq, body |-> bodyType, index |-> index, type |-> type]

\* os.WriteFile: a file of that path is overwritten.
Store(fs, path, bytes) ==
  [p \in DOMAIN fs \cup {path} |-> IF p = path THEN bytes ELSE fs[p]]

\* How the save of an image goes, with the file "cut short" in the worst case,
\* and the day it is on: the clock is read for each image.
Savings(dates) == [how : {"done", "impossible", "cut short"}, on : dates]
Failures(saves) == {i \in DOMAIN saves : saves[i].how # "done"}
Failed(saves) == Failures(saves) # {}

\* Faulty variant: images of just the threshold are left inline.
ExtractAboveMin(acc, match, seq, bodyType, saving) ==
  LET type == match[1].val
      path == Path(saving.on, seq, bodyType, acc.index, type) IN
  IF Len(match) - 1 <= MinSize \/ Stray \in ToSet(match) THEN acc
  ELSE [body |-> ReplaceFirstSubSeq(<<Placeholder(acc.index)>>, match, acc.body),
        references |-> Append(acc.references,
          [path |-> path, hash |-> Tail(match), placeholder |-> acc.index]),
        index |-> acc.index + 1,
        files |-> Store(acc.files, path, Decode(Tail(match)))]

\* One match: what is small, does not decode or cannot be saved stays inline;
\* else the first occurrence of its text in the body, as changed so far, is
\* replaced.
Extract(acc, match, seq, bodyType, saving) ==
  IF Len(match) - 1 < MinSize \/ Stray \in ToSet(match) \/ saving.how = "impossible" THEN acc
  ELSE
    LET type == match[1].val
        path == Path(saving.on, seq, bodyType, acc.index, type) IN
    IF saving.how = "cut short"
    THEN [acc EXCEPT !.files = Store(@, path, <<>>)]
    ELSE [body |-> ReplaceFirstSubSeq(<<Placeholder(acc.index)>>, match, acc.body),
          references |-> Append(acc.references,
            [path |-> path, hash |-> Tail(match), placeholder |-> acc.index]),
          index |-> acc.index + 1,
          files |-> Store(acc.files, path, Decode(Tail(match)))]

\* saves is what becomes of the file of each large match.
ExtractFromBody(body, seq, bodyType, saves) ==
  LET matches == Matches(body) IN
  FoldLeftDomain(
    LAMBDA acc, i : IF i \in matches
                    THEN Extract(acc, Match(body, i), seq, bodyType, saves[i])
                    ELSE acc,
    [body |-> body, references |-> <<>>, index |-> 0, files |-> files],
    body)

-----------------------------------------------------------------------------

Part == [original |-> <<>>, body |-> <<>>, references |-> <<>>]
NoWork == [request |-> Part, response |-> Part, failed |-> FALSE, run |-> 0, days |-> {}]

Init ==
  /\ run = 1 /\ day = 1 /\ nextSequenceID = 0
  /\ stage = [r \in Requests |-> "idle"]
  /\ seqOf = [r \in Requests |-> 0]
  /\ work = [r \in Requests |-> NoWork]
  /\ files = << >> /\ log = <<>> /\ active = {}

Goto(r, from, to) == stage[r] = from /\ stage' = [stage EXCEPT ![r] = to]

\* The request gets its number.
Number(r) ==
  /\ Goto(r, "idle", "numbered")
  /\ seqOf' = [seqOf EXCEPT ![r] = nextSequenceID]
  /\ nextSequenceID' = nextSequenceID + 1
  /\ work' = [work EXCEPT ![r].run = run]
  /\ UNCHANGED << run, day, files, log, active >>

\* The images of one body are extracted, one after the other, while the clock
\* goes on to now; the save of any may fail.  Other requests may do theirs in
\* between: they have other numbers, so their files are other files.  A process
\* killed between two images has saved those before, as if the later saves had
\* been impossible and it were killed then.
ExtractPart(r, bodyType) ==
  \E body \in Bodies, now \in day..MaxDays :
  \E saves \in [LargeMatches(body) -> Savings(day..now)] :
    LET result == ExtractFromBody(body, seqOf[r], bodyType, saves)
        days == {saves[i].on : i \in LargeMatches(body)} IN
    /\ \A i, j \in LargeMatches(body) : i < j => saves[i].on <= saves[j].on
    /\ now # day => {day, now} \subseteq days  \* Midnight is for the rest
    /\ Cardinality(Failures(saves)) <= MaxFailed
    /\ day' = now
    /\ files' = result.files
    /\ work' = [work EXCEPT
         ![r][bodyType] = [original |-> body, body |-> result.body,
                           references |-> result.references],
         ![r].failed = @ \/ Failed(saves),
         ![r].days = @ \cup days]
    /\ active' = active \cup ({run} \X days)
    /\ UNCHANGED << run, nextSequenceID, seqOf, log >>

\* extractMediaFromBodies: the request first.
ExtractRequest(r) == Goto(r, "numbered", "request") /\ ExtractPart(r, "request")
ExtractResponse(r) == Goto(r, "request", "response") /\ ExtractPart(r, "response")

\* The entry is on disk.
Record(r) ==
  /\ Goto(r, "response", "done")
  /\ log' = Append(log, work[r])
  /\ work' = [work EXCEPT ![r] = NoWork]
  /\ UNCHANGED << run, day, nextSequenceID, seqOf, files, active >>

\* The process is killed, or ends, and starts again: numbering starts over.
Restart ==
  /\ run < MaxRuns
  /\ run' = run + 1
  /\ nextSequenceID' = 0
  /\ stage' = [r \in Requests |-> IF stage[r] = "idle" THEN "idle" ELSE "done"]
  /\ work' = [r \in Requests |-> NoWork]
  /\ UNCHANGED << day, seqOf, files, log, active >>

Midnight ==
  /\ day < MaxDays
  /\ day' = day + 1
  /\ UNCHANGED << run, nextSequenceID, stage, seqOf, work, files, log, active >>

Next ==
  \/ \E r \in Requests : Number(r) \/ ExtractRequest(r) \/ ExtractResponse(r) \/ Record(r)
  \/ Restart \/ Midnight

Spec == Init /\ [][Next]_vars

-----------------------------------------------------------------------------
(* Properties *)

Parts(e) == {e.request, e.response}

\* No image of the body has bits too many.
Canonical(body) == \A k \in DOMAIN body : body[k] # Loose(body[k].val)

\* The file of a reference, encoded again, has the recorded hash.
Stored(reference) == Encode(files[reference.path]) = reference.hash

\* The body with the contents of the files in the places of the placeholders.
Restored(part) ==
  LET Of(atom) ==
        IF atom.kind # "image" THEN <<atom>>
        ELSE LET reference == part.references[SelectInSeq(part.references,
                                LAMBDA x : x.placeholder = atom.n)]
             IN <<Image(reference.path.type)>> \o Encode(files[reference.path])
  IN FlattenSeq([k \in DOMAIN part.body |-> Of(part.body[k])])

Disturbed(e) == \E x \in active : x[1] > e.run /\ x[2] \in e.days

\* The original bodies can be had back from an entry and the files, whatever
\* other requests stored before, beside and after it, unless a later run of the
\* process stored files on the same day, or the body spells the bytes of an
\* image as no encoder does.
BodiesRestorable ==
  \A k \in DOMAIN log : ~Disturbed(log[k]) =>
    \A part \in Parts(log[k]) : Canonical(part.original) => Restored(part) = part.original

\* "Extracts large Base64 images" (extractor.go:36): no image that is large
\* enough and decodes stays in an entry whose files could be saved.
LargeExtracted ==
  \A k \in DOMAIN log : ~log[k].failed =>
    \A part \in Parts(log[k]) : LargeMatches(part.body) = {}

\* A recorded hash is "used for integrity verification" (models/audit.go:122):
\* the file of every reference has it.  The code does not keep this: a restart
\* on the same day reuses the names, and of a loose image only the base64 text
\* as it was sent has the hash.
MediaAuthentic ==
  \A k \in DOMAIN log : \A part \in Parts(log[k]) :
    \A n \in DOMAIN part.references : Stored(part.references[n])
=============================================================================
