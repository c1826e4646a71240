---------------------------- MODULE AuditRestart ----------------------------
(***************************************************************************)
(* One audit file over several runs of the proxy (cmd/proxy/main.go): the  *)
(* process is killed or shuts down, and is started again on the same file. *)
(* The file is all that survives: NewFileStorage appends to it, NewHandler *)
(* numbers from 0 and NewWorker starts from the genesis digest.            *)
(***************************************************************************)
EXTENDS AuditWorker, Verify

CONSTANT MaxRuns    \* bound: runs of the process in a behaviour
ASSUME MaxRunsAssumption == MaxRuns \in Nat \ {0}

VARIABLES
  runs,       \* for each run, how long the file was when it started
  lost        \* entries accepted by Log that no run will write

restartVars == << runs, lost >>

RestartInit == Init /\ runs = << 0 >> /\ lost = {}

\* main on an existing file: everything in memory starts over; handlers that
\* were running are gone, with the entries that were not written.
Start ==
  /\ Len(runs) < MaxRuns
  /\ runs' = Append(runs, Len(file'))
  /\ nextSequenceID' = 0
  /\ hpc' = [r \in Requests |-> IF hpc[r] = "numbered" THEN "panicked" ELSE hpc[r]]
  /\ lost' = lost \cup (Logged \ Decided)
  /\ entries' = << >> /\ inHand' = {} /\ pendingEntries' = {}
  /\ closed' = FALSE /\ wpc' = "recv" /\ expectedSeq' = 0 /\ failedOpen' = FALSE
  /\ prevHash' = Genesis
  /\ UNCHANGED << seqOf, refused, faults >>

\* run() is inside processEntry, with the write not done yet.
Writing ==
  \/ /\ wpc = "handle"
     /\ \E r \in inHand :
          seqOf[r] = expectedSeq \/ Cardinality(pendingEntries) >= MaxPending
  \/ wpc = "drain" /\ \E r \in pendingEntries : seqOf[r] = expectedSeq
  \/ wpc = "flush" /\ pendingEntries # {}

\* The process is killed, and started again.  A kill during file.Write leaves
\* the first part of the line.
Crash ==
  /\ \/ UNCHANGED file
     \/ Writing /\ file' = Append(file, Torn)
  /\ Start

\* An orderly end of main, and a new start.
RestartAfterShutdown ==
  /\ wpc = "done"
  /\ UNCHANGED file
  /\ Start

RestartNext ==
  \/ Next /\ UNCHANGED restartVars
  \/ Crash
  \/ RestartAfterShutdown

RestartSpec == RestartInit /\ [][RestartNext]_<< vars, restartVars >>

\* The same, when the process is never killed.
OrderlyNext ==
  \/ Next /\ UNCHANGED restartVars
  \/ RestartAfterShutdown

OrderlySpec == RestartInit /\ [][OrderlyNext]_<< vars, restartVars >>

-----------------------------------------------------------------------------
(* Properties *)

\* A line whose write succeeded.
Accepted(i) == file[i].kind = "line" /\ file[i].req \notin refused

\* d is the hash of the last accepted line among those from first to last, or
\* the genesis digest if there is none.
EndsIn(first, last, d) ==
  \/ d = Genesis /\ \A i \in first..last : ~Accepted(i)
  \/ \E i \in first..last :
       /\ Accepted(i) /\ d = file[i].hash
       /\ \A j \in (i + 1)..last : ~Accepted(j)

\* The last line of run k so far.
RunEnd(k) == IF k < Len(runs) THEN runs[k + 1] ELSE Len(file)

\* The lines of each run are one chain from the genesis digest, wherever the
\* runs before it ended and however: a crash damages at most its last line.  A
\* write that failed may have left its line in the file, or part of it; the
\* chain goes past it, from the last line whose write succeeded.
EachRunChained ==
  \A k \in 1..Len(runs) : \A i \in (runs[k] + 1)..RunEnd(k) :
    Accepted(i) =>
      /\ EndsIn(runs[k] + 1, i - 1, file[i].prev)
      /\ file[i].hash = Hash(file[i].req, file[i].prev)

\* No entry is written by two runs, or twice by one, nor both written and lost.
NotRecordedTwice ==
  /\ \A i, j \in 1..Len(file) :
       /\ file[i].kind = "line" /\ file[j].kind = "line"
       /\ file[i].req = file[j].req
       => i = j
  /\ Written \cap lost = {}

\* A crash loses no more than the channel and the pending map hold, and the one
\* entry run() has received: while it is handled, another one takes its slot.
LossBounded == Cardinality(lost) <= (Len(runs) - 1) * (BufferSize + MaxPending + 1)

\* The verifier accepts a file exactly when it reads as one chain, for every
\* file a run leaves behind and every edit of it.
VerifierDecidesChain ==
  \A log \in {file} \cup (IF \A i \in 1..Len(file) : file[i].kind = "line"
                            THEN HashedEdits(file) \cup UnhashedEdits(file) ELSE {}) :
    (VerifyLog(log) = ExitSuccess) <=> ReadsAsChain(log)

\* The file of a first run that has nothing in it of a failed write, and no line
\* that is too long for the verifier.
FirstRunClean ==
  /\ Len(runs) = 1
  /\ Written \cap LongLines = {}
  /\ \A i \in 1..Len(file) : file[i].kind = "line" /\ file[i].req \notin refused

\* While the first run lasts, the verifier accepts its file and refuses every
\* edit of what is hashed: a body or another hashed field, the set of the lines,
\* their order.  What computeHash (worker.go:156-195) leaves out protects nobody:
\* a line with another sequence ID, path or header still passes.
FirstRunTamperEvident ==
  FirstRunClean =>
    /\ VerifyLog(file) = ExitSuccess
    /\ \A log \in HashedEdits(file) : VerifyLog(log) # ExitSuccess
    /\ \A log \in UnhashedEdits(file) : VerifyLog(log) = ExitSuccess

\* Every edit is found: the verification tool is there to "detect any tampering
\* or corruption" (README.md:18).  The code does not keep this: the sequence ID,
\* the path, the headers and the duration are in no digest.
AnyTamperingDetected ==
  FirstRunClean =>
    \A log \in HashedEdits(file) \cup UnhashedEdits(file) : VerifyLog(log) # ExitSuccess

\* The chain in the file stays whole over an orderly restart: the file is
\* opened "in append mode to preserve existing entries" (file_storage.go:22)
\* and each prev_hash matches the previous entry's hash (README.md:312).  The
\* code does not keep this: NewWorker goes back to the genesis digest.
ChainSurvivesRestart == VerifyLog(file) # ExitChainBroken

\* The verifier finds tampering only where there was some: its hash "must
\* match the calculation in internal/audit/worker.go exactly"
\* (cmd/verify/main.go:167).  The code does not keep this for a body that is
\* not UTF-8: json.Marshal replaces bytes that computeHash has hashed.
UntouchedNotTampered == VerifyLog(file) # ExitDataTampered
=============================================================================
