----------------------------- MODULE AuditWorker -----------------------------
(***************************************************************************)
(* internal/audit/worker.go: one goroutine turns the audit entries of      *)
(* concurrent requests into one hash chain, in the order of their sequence *)
(* IDs.  An entry that arrives early is parked until its turn comes.       *)
(*                                                                         *)
(* The clients are the request handlers of internal/proxy/proxy.go, here   *)
(* reduced to what the worker sees of them: a handler takes a sequence     *)
(* number and, later and in any order, calls Log, once.                    *)
(***************************************************************************)
EXTENDS FileStorage, FiniteSets

CONSTANTS
  BufferSize,   \* capacity of the entries channel (main.go: 1000)
  MaxPending,   \* maxPendingEntries (worker.go: 1000)
  Malformed     \* requests whose upstream stream makes the handler panic
                \* once it is numbered (stream_reconstruct.go:117)

ASSUME BufferSizeAssumption == BufferSize \in Nat \ {0}
ASSUME MaxPendingAssumption == MaxPending \in Nat \ {0}
ASSUME MalformedAssumption == Malformed \subseteq Requests

VARIABLES
  \* the handlers
  nextSequenceID,  \* Handler.nextSequenceID
  seqOf,           \* the SequenceID of each request's entry
  hpc,             \* how far each handler is
  \* the worker
  entries,         \* the channel: entries sent and not yet received
  inHand,          \* the entry run() has received and not yet handled, if any
  closed,          \* close(w.entries) was called
  wpc,             \* where run() is
  expectedSeq,
  pendingEntries,
  prevHash,
  \* history
  refused,         \* entries whose Write returned an error (log, line 144)
  failedOpen       \* an entry was written out of order (log, line 99)

clientVars == << nextSequenceID, seqOf, hpc >>
workerVars == << entries, inHand, closed, wpc, expectedSeq, pendingEntries, prevHash,
                 refused, failedOpen >>
vars == << clientVars, workerVars, storageVars >>

Unnumbered == -1

\* The requests with a line in the file, and those the worker is done with.
Written == { file[i].req : i \in { j \in 1..Len(file) : file[j].kind = "line" } }
Decided == Written \cup refused

TypeOK ==
  /\ StorageTypeOK
  /\ nextSequenceID \in Nat
  /\ seqOf \in [Requests -> Nat \cup {Unnumbered}]
  /\ hpc \in [Requests -> {"new", "numbered", "logged", "panicked"}]
  /\ entries \in Seq(Requests)
  /\ Len(entries) <= BufferSize
  /\ inHand \subseteq Requests
  /\ closed \in BOOLEAN
  /\ wpc \in {"recv", "handle", "drain", "flush", "done"}
  /\ expectedSeq \in Nat
  /\ pendingEntries \subseteq Requests
  /\ prevHash \in Digests
  /\ refused \subseteq Requests
  /\ failedOpen \in BOOLEAN

-----------------------------------------------------------------------------
(* NewHandler and NewWorker *)

ClientInit ==
  /\ nextSequenceID = 0
  /\ seqOf = [r \in Requests |-> Unnumbered]
  /\ hpc = [r \in Requests |-> "new"]

WorkerInit ==
  /\ entries = << >>
  /\ inHand = {}
  /\ closed = FALSE
  /\ wpc = "recv"
  /\ expectedSeq = 0
  /\ pendingEntries = {}
  /\ prevHash = Genesis
  /\ refused = {}
  /\ failedOpen = FALSE

Init == StorageInit /\ ClientInit /\ WorkerInit

-----------------------------------------------------------------------------
(* The request handlers *)

\* getNextSequenceID: one atomic add.
GetNextSequenceID(r) ==
  /\ hpc[r] = "new"
  /\ hpc' = [hpc EXCEPT ![r] = "numbered"]
  /\ seqOf' = [seqOf EXCEPT ![r] = nextSequenceID]
  /\ nextSequenceID' = nextSequenceID + 1
  /\ UNCHANGED << workerVars, storageVars >>

\* Faulty variant: a select with a default that drops the entry when the
\* channel is full, where the code blocks.
LogOrDrop(r) ==
  /\ hpc[r] = "numbered" /\ r \notin Malformed
  /\ ~closed
  /\ entries' = IF Len(entries) < BufferSize THEN Append(entries, r) ELSE entries
  /\ hpc' = [hpc EXCEPT ![r] = "logged"]
  /\ UNCHANGED << nextSequenceID, seqOf, inHand, closed, wpc, expectedSeq,
                  pendingEntries, prevHash, refused, failedOpen, storageVars >>

\* Faulty variant: a queue that grows, where the channel is bounded.
LogUnbounded(r) ==
  /\ hpc[r] = "numbered" /\ r \notin Malformed
  /\ ~closed
  /\ entries' = Append(entries, r)
  /\ hpc' = [hpc EXCEPT ![r] = "logged"]
  /\ UNCHANGED << nextSequenceID, seqOf, inHand, closed, wpc, expectedSeq,
                  pendingEntries, prevHash, refused, failedOpen, storageVars >>

\* Log: a send on the channel; it blocks while the channel is full.
Log(r) ==
  /\ hpc[r] = "numbered" /\ r \notin Malformed
  /\ ~closed
  /\ Len(entries) < BufferSize
  /\ entries' = Append(entries, r)
  /\ hpc' = [hpc EXCEPT ![r] = "logged"]
  /\ UNCHANGED << nextSequenceID, seqOf, inHand, closed, wpc, expectedSeq,
                  pendingEntries, prevHash, refused, failedOpen, storageVars >>

\* A send on the closed channel, also one that was blocked when it closed,
\* panics; ServeHTTP or the callback recovers and the entry is lost.
LogPanics(r) ==
  /\ hpc[r] = "numbered" /\ r \notin Malformed
  /\ closed
  /\ hpc' = [hpc EXCEPT ![r] = "panicked"]
  /\ UNCHANGED << nextSequenceID, seqOf, workerVars, storageVars >>

\* The handler panics between getNextSequenceID and Log and recovers: its
\* number is never logged.
Abandon(r) ==
  /\ hpc[r] = "numbered" /\ r \in Malformed
  /\ hpc' = [hpc EXCEPT ![r] = "panicked"]
  /\ UNCHANGED << nextSequenceID, seqOf, workerVars, storageVars >>

-----------------------------------------------------------------------------
(* run() *)

\* Faulty variant: prevHash moves on although the write failed.
ProcessEntryIgnoringError(r) ==
  LET line == Line(r, seqOf[r], prevHash) IN
    /\ prevHash' = line.hash
    /\ \/ WriteOK(line) /\ UNCHANGED refused
       \/ WriteErr(line) /\ refused' = refused \cup {r}

\* Faulty variant: an early return skips the entry without writing it.
ProcessEntryOrSkip(r) ==
  LET line == Line(r, seqOf[r], prevHash) IN
    \/ WriteOK(line) /\ prevHash' = line.hash /\ UNCHANGED refused
    \/ UNCHANGED << storageVars, prevHash, refused >>

\* processEntry: on a write error it logs, returns and leaves prevHash alone.
ProcessEntry(r) ==
  LET line == Line(r, seqOf[r], prevHash) IN
    \/ /\ WriteOK(line)
       /\ prevHash' = line.hash
       /\ UNCHANGED refused
    \/ /\ WriteErr(line)
       /\ refused' = refused \cup {r}
       /\ UNCHANGED prevHash

\* for entry := range w.entries: r is received.  Its slot in the channel is free
\* from now on, before anything is done about r.
Receive(r) ==
  /\ wpc = "recv"
  /\ entries # << >>
  /\ r = Head(entries)
  /\ entries' = Tail(entries)
  /\ inHand' = {r}
  /\ wpc' = "handle"
  /\ UNCHANGED << clientVars, closed, expectedSeq, pendingEntries, prevHash, refused,
                  failedOpen, storageVars >>

\* What the branches of the loop body share: r is dealt with.
Handle(r) ==
  /\ wpc = "handle"
  /\ r \in inHand
  /\ inHand' = {}
  /\ UNCHANGED << clientVars, entries, closed >>

\* Faulty variant: the parked entries are not looked at.
InSequenceWithoutDrain(r) ==
  /\ Handle(r)
  /\ seqOf[r] = expectedSeq
  /\ ProcessEntry(r)
  /\ expectedSeq' = expectedSeq + 1
  /\ wpc' = "recv"
  /\ UNCHANGED << pendingEntries, failedOpen >>

\* The entry is the expected one: process it, then look at the parked ones.
InSequence(r) ==
  /\ Handle(r)
  /\ seqOf[r] = expectedSeq
  /\ ProcessEntry(r)
  /\ expectedSeq' = expectedSeq + 1
  /\ wpc' = "drain"
  /\ UNCHANGED << pendingEntries, failedOpen >>

\* Faulty variant: off by one, > for >=.
ParkPastLimit(r) ==
  /\ Handle(r)
  /\ seqOf[r] # expectedSeq
  /\ Cardinality(pendingEntries) <= MaxPending
  /\ pendingEntries' = pendingEntries \cup {r}
  /\ wpc' = "recv"
  /\ UNCHANGED << expectedSeq, prevHash, refused, failedOpen, storageVars >>

\* Out of order, and there is room: park it.
Park(r) ==
  /\ Handle(r)
  /\ seqOf[r] # expectedSeq
  /\ Cardinality(pendingEntries) < MaxPending
  /\ pendingEntries' = pendingEntries \cup {r}
  /\ wpc' = "recv"
  /\ UNCHANGED << expectedSeq, prevHash, refused, failedOpen, storageVars >>

\* Faulty variant: the entry being received is counted as parked.
FailOpenEarly(r) ==
  /\ Handle(r)
  /\ seqOf[r] # expectedSeq
  /\ Cardinality(pendingEntries) + 1 >= MaxPending
  /\ ProcessEntry(r)
  /\ expectedSeq' = seqOf[r] + 1
  /\ failedOpen' = TRUE
  /\ wpc' = "recv"
  /\ UNCHANGED pendingEntries

\* Out of order, and no room: process it now and continue from its number,
\* forwards or backwards.  The parked entries are not looked at.
FailOpen(r) ==
  /\ Handle(r)
  /\ seqOf[r] # expectedSeq
  /\ Cardinality(pendingEntries) >= MaxPending
  /\ ProcessEntry(r)
  /\ expectedSeq' = seqOf[r] + 1
  /\ failedOpen' = TRUE
  /\ wpc' = "recv"
  /\ UNCHANGED pendingEntries

\* Faulty variant: the entry processed is not deleted from the map.
DrainWithoutDelete(r) ==
  /\ wpc = "drain"
  /\ r \in pendingEntries /\ seqOf[r] = expectedSeq
  /\ ProcessEntry(r)
  /\ expectedSeq' = expectedSeq + 1
  /\ UNCHANGED << clientVars, entries, inHand, closed, wpc, pendingEntries,
                  failedOpen >>

\* Faulty variant: any parked entry will do.
DrainAny(r) ==
  /\ wpc = "drain"
  /\ r \in pendingEntries
  /\ ProcessEntry(r)
  /\ pendingEntries' = pendingEntries \ {r}
  /\ expectedSeq' = expectedSeq + 1
  /\ UNCHANGED << clientVars, entries, inHand, closed, wpc, failedOpen >>

\* One round of the inner loop: the next entry is parked.
Drain(r) ==
  /\ wpc = "drain"
  /\ r \in pendingEntries /\ seqOf[r] = expectedSeq
  /\ ProcessEntry(r)
  /\ pendingEntries' = pendingEntries \ {r}
  /\ expectedSeq' = expectedSeq + 1
  /\ UNCHANGED << clientVars, entries, inHand, closed, wpc, failedOpen >>

\* The inner loop breaks: the next entry is not parked.
DrainBreak ==
  /\ wpc = "drain"
  /\ \A r \in pendingEntries : seqOf[r] # expectedSeq
  /\ wpc' = "recv"
  /\ UNCHANGED << clientVars, entries, inHand, closed, expectedSeq, pendingEntries,
                  prevHash, refused, failedOpen, storageVars >>

\* Faulty variant: the loop also waits for the missing numbers.
EndOfEntriesInOrder ==
  /\ wpc = "recv" /\ closed /\ entries = << >> /\ pendingEntries = {}
  /\ wpc' = "flush"
  /\ UNCHANGED << clientVars, entries, inHand, closed, expectedSeq, pendingEntries,
                  prevHash, refused, failedOpen, storageVars >>

\* The range loop ends: the channel is closed and empty.
EndOfEntries ==
  /\ wpc = "recv" /\ closed /\ entries = << >>
  /\ wpc' = "flush"
  /\ UNCHANGED << clientVars, entries, inHand, closed, expectedSeq, pendingEntries,
                  prevHash, refused, failedOpen, storageVars >>

\* One round of the loop over the map, which Go iterates in any order.  The
\* code empties the map after the loop; here an entry leaves it when visited.
Flush(r) ==
  /\ wpc = "flush"
  /\ r \in pendingEntries
  /\ ProcessEntry(r)
  /\ pendingEntries' = pendingEntries \ {r}
  /\ UNCHANGED << clientVars, entries, inHand, closed, wpc, expectedSeq,
                  failedOpen >>

\* Faulty variant: run returns without the flush.
CloseStorageUnflushed ==
  /\ wpc = "flush"
  /\ wpc' = "done"
  /\ UNCHANGED << clientVars, entries, inHand, closed, expectedSeq, pendingEntries,
                  prevHash, refused, failedOpen, storageVars >>

\* storage.Close and the deferred close(w.done).
CloseStorage ==
  /\ wpc = "flush" /\ pendingEntries = {}
  /\ wpc' = "done"
  /\ UNCHANGED << clientVars, entries, inHand, closed, expectedSeq, pendingEntries,
                  prevHash, refused, failedOpen, storageVars >>

-----------------------------------------------------------------------------
(* Shutdown *)

\* Shutdown: close(w.entries), then it waits for done.  main.go calls it when
\* server.Shutdown returned, which happens with handlers still running after
\* 30 seconds.
CloseEntries ==
  /\ ~closed
  /\ closed' = TRUE
  /\ UNCHANGED << clientVars, entries, inHand, wpc, expectedSeq, pendingEntries,
                  prevHash, refused, failedOpen, storageVars >>

Worker ==
  \/ \E r \in Requests :
       Receive(r) \/ InSequence(r) \/ Park(r) \/ FailOpen(r) \/ Drain(r) \/ Flush(r)
  \/ DrainBreak
  \/ EndOfEntries
  \/ CloseStorage

Client(r) == GetNextSequenceID(r) \/ Log(r) \/ LogPanics(r) \/ Abandon(r)

\* The process may end once run returned and no handler is between its number
\* and its entry.
Terminated ==
  /\ wpc = "done"
  /\ \A r \in Requests : hpc[r] \in {"logged", "panicked"}
  /\ UNCHANGED vars

Next ==
  \/ \E r \in Requests : Client(r)
  \/ Worker
  \/ CloseEntries
  \/ Terminated

Spec == Init /\ [][Next]_vars

\* The scheduler runs the worker whenever it can go on, and a handler that has
\* its number reaches Log.  A blocked sender gets its turn because Go queues
\* senders first in, first out: strong fairness.  Nobody has to send a request
\* or to shut down.
Fairness ==
  /\ WF_vars(Worker)
  /\ \A r \in Requests : SF_vars(Log(r)) /\ WF_vars(LogPanics(r)) /\ WF_vars(Abandon(r))

FairSpec == Spec /\ Fairness

-----------------------------------------------------------------------------
(* Properties *)

Logged == { r \in Requests : hpc[r] = "logged" }
InChannel == { entries[i] : i \in 1..Len(entries) }

\* The file is one unbroken hash chain from the genesis digest, and prevHash
\* is its end: whatever order entries complete in, whether the worker falls
\* behind or not, and when writes are rejected (processEntry leaves prevHash
\* alone on an error).
ChainLinked ==
  /\ Chained(file, Genesis)
  /\ prevHash = (IF file = << >> THEN Genesis ELSE file[Len(file)].hash)

\* Nothing handed to Log is lost or handled twice: at any time an entry is in
\* exactly one of the channel, run()'s hand, the pending map, the file and the
\* error log, and there it is once.  (For writes that leave the file as it was when they
\* fail.)
Accounted ==
  /\ Logged = InChannel \cup inHand \cup pendingEntries \cup Decided
  /\ InChannel \cap (inHand \cup pendingEntries \cup Decided) = {}
  /\ inHand \cap (pendingEntries \cup Decided) = {}
  /\ pendingEntries \cap Decided = {}
  /\ Written \cap refused = {}
  /\ \A i, j \in 1..Len(entries) : entries[i] = entries[j] => i = j
  /\ \A i, j \in 1..Len(file) : file[i].req = file[j].req => i = j

\* Until an overflow or the shutdown, the file holds the entries in the order
\* of their sequence numbers, and it has no gap: the worker is done with
\* exactly the numbers below expectedSeq.
InSequenceOrder ==
  ~failedOpen /\ wpc \in {"recv", "handle", "drain"} =>
    /\ \A i, j \in 1..Len(file) : i < j => file[i].seq < file[j].seq
    /\ { seqOf[r] : r \in Decided } = 0..(expectedSeq - 1)

\* No entry stays parked once its turn has come: while the order is kept and the
\* worker waits for the channel, what it waits for is not in its own map (the
\* inner loop, worker.go:81).
NoneReadyParked ==
  ~failedOpen /\ wpc = "recv" => \A r \in pendingEntries : seqOf[r] # expectedSeq

\* The pending map never exceeds its bound, however far the handlers run
\* ahead of the slowest request ("Prevent unbounded memory growth").
PendingBounded == Cardinality(pendingEntries) <= MaxPending

\* When run returns, every entry Log accepted was written or refused by the
\* storage: what was queued or parked at the shutdown is not dropped.
ShutdownFlushes == wpc = "done" => Logged \subseteq Decided

\* The worker implements the log of module AuditLog: each step of the code is
\* one step of that log, or none; the order is given up by an overflow and by
\* the flush at the shutdown, nowhere else.
Abstract == INSTANCE AuditLog WITH
  submitted <- Logged, log <- file, refusals <- refused,
  relaxed <- failedOpen \/ wpc \in {"flush", "done"}

ImplementsAuditLog == Abstract!Spec

\* Entries that Log accepted and that an earlier number holds back.
HeldBack == { r \in Logged \ Decided : seqOf[r] > expectedSeq }

\* The order is given up for want of room and for nothing else: more entries are
\* held back than the pending map can take.  However the early entries came and
\* went before, an entry that is due, or that is done with, takes nobody's room.
GivesUpOnlyWhenFull ==
  [][~failedOpen /\ failedOpen' => Cardinality(HeldBack) > MaxPending]_vars

\* No entry stays parked once its turn has come, also after an overflow: the
\* worker shall "Check for any pending entries that are now in sequence"
\* (worker.go:81).  The code does not keep this: after an overflow expectedSeq
\* may be the number of a parked entry, and nobody looks.
NoneReadyParkedEver == wpc = "recv" => \A r \in pendingEntries : seqOf[r] # expectedSeq

\* An entry accepted by Log is eventually written or refused, with or without
\* a shutdown.
EventuallyRecorded == \A r \in Requests : r \in Logged ~> r \in Decided

\* Shutdown returns: the worker reaches its end once the channel is closed,
\* and no handler stays blocked in Log.
ShutdownReturns ==
  closed ~> (wpc = "done" /\ \A r \in Requests : hpc[r] # "numbered")
=============================================================================
