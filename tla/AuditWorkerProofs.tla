------------------------- MODULE AuditWorkerProofs --------------------------
(***************************************************************************)
(* Theorems about AuditWorker, for any number of requests, any sizes of    *)
(* the channel and of the pending map, and any number of failing writes:   *)
(* the file is one chain; no entry is lost or handled twice on its way     *)
(* from Log to the file; the shutdown leaves none behind; until an         *)
(* overflow or the shutdown the file follows the sequence numbers without  *)
(* a gap, and the order is given up only when more entries are held back   *)
(* than the map takes.                                                     *)
(* From them: AuditWorker implements AuditLog.                             *)
(*                                                                         *)
(* And about Proxy, for any sets of requests and streams: handlers,        *)
(* monitors and main are clients as AuditWorker assumes them, so that what *)
(* is proved of the worker holds there; and a shutdown in time loses       *)
(* nothing a handler recorded.                                             *)
(***************************************************************************)
EXTENDS Proxy, SequenceTheorems, FiniteSetTheorems, TLAPS

-----------------------------------------------------------------------------
(* What the building blocks of run() do *)

\* A line built from a numbered request and a digest is a line.
LEMMA LineType ==
  ASSUME NEW r \in Requests, NEW n \in Nat, NEW d \in Digests
  PROVE  Line(r, n, d) \in Lines /\ Hash(r, d) \in Digests
  BY DEF Line, Lines, Hash, Digests

\* Taking the head off the channel.
LEMMA ReceiveType ==
  ASSUME TypeOK, NEW r, Receive(r)
  PROVE  /\ r \in Requests
         /\ entries # << >> /\ Len(entries) > 0 /\ r = entries[1]
         /\ entries' \in Seq(Requests)
         /\ Len(entries') = Len(entries) - 1
         /\ \A i \in 1..Len(entries') : entries'[i] = entries[i + 1]
<1>1. entries \in Seq(Requests) /\ entries # << >>
  BY DEF TypeOK, Receive
<1>2. Len(entries) \in Nat /\ Len(entries) > 0
  BY <1>1, EmptySeq, LenProperties
<1>3. r = entries[1] /\ r \in Requests
  BY <1>1, <1>2, HeadTailProperties DEF Receive
<1>4. entries' = Tail(entries)
  BY DEF Receive
<1>5. QED
  BY <1>1, <1>2, <1>3, <1>4, HeadTailProperties

\* processEntry keeps the types of what it assigns.
LEMMA ProcessEntryType ==
  ASSUME TypeOK, NEW r \in Requests, seqOf[r] \in Nat, ProcessEntry(r)
  PROVE  /\ StorageTypeOK'
         /\ prevHash' \in Digests
         /\ refused' \subseteq Requests
<1> DEFINE line == Line(r, seqOf[r], prevHash)
<1>1. line \in Lines /\ line.hash \in Digests
  BY LineType DEF TypeOK, Line
<1>2. /\ file \in Seq(Lines \cup {Torn})
      /\ faults \in 0..MaxFaults /\ MaxFaults \in Nat
      /\ refused \subseteq Requests /\ prevHash \in Digests
  BY MaxFaultsAssumption DEF TypeOK, StorageTypeOK
<1>3. CASE WriteOK(line) /\ prevHash' = line.hash /\ UNCHANGED refused
  <2>1. file' \in Seq(Lines \cup {Torn})
    BY <1>1, <1>2, <1>3, AppendProperties DEF WriteOK
  <2>2. QED
    BY <1>1, <1>2, <1>3, <2>1 DEF WriteOK, StorageTypeOK
<1>4. CASE WriteErr(line) /\ refused' = refused \cup {r} /\ UNCHANGED prevHash
  <2>1. file' \in Seq(Lines \cup {Torn})
    BY <1>1, <1>2, <1>4, AppendProperties DEF WriteErr
  <2>2. faults' \in 0..MaxFaults
    BY <1>2, <1>4 DEF WriteErr
  <2>3. QED
    BY <1>2, <1>4, <2>1, <2>2 DEF StorageTypeOK
<1>5. QED
  BY <1>3, <1>4 DEF ProcessEntry

-----------------------------------------------------------------------------
(* Type correctness *)

\* What reaches the worker has a number: TypeOK alone is not inductive, for a
\* line of the file must have one.
Numbering ==
  /\ \A r \in Requests : hpc[r] # "new" => seqOf[r] \in Nat
  /\ \A i \in 1..Len(entries) : seqOf[entries[i]] \in Nat
  /\ \A r \in inHand \cup pendingEntries : seqOf[r] \in Nat

\* run holds one entry, and only between its receive and the end of its turn.
OneInHand ==
  /\ inHand # {} <=> wpc = "handle"
  /\ \A q, r \in inHand : q = r

TypeInv == TypeOK /\ Numbering /\ OneInHand

\* A receive takes a numbered entry; what stays in the channel is numbered.
LEMMA ReceiveNumbering ==
  ASSUME TypeOK, Numbering, NEW r, Receive(r)
  PROVE  seqOf[r] \in Nat /\ Numbering'
<1>1. Len(entries) \in Nat
  BY LenProperties DEF TypeOK
<1>2. seqOf[r] \in Nat
  BY <1>1, ReceiveType DEF Numbering
<1>3. /\ seqOf' = seqOf /\ hpc' = hpc
      /\ inHand' = {r} /\ pendingEntries' = pendingEntries
  BY DEF Receive, clientVars
<1>4. \A i \in 1..Len(entries') : seqOf[entries'[i]] \in Nat
  <2>1. /\ Len(entries') = Len(entries) - 1
        /\ \A i \in 1..Len(entries') : entries'[i] = entries[i + 1]
    BY ReceiveType
  <2>2. TAKE i \in 1..Len(entries')
  <2>3. i + 1 \in 1..Len(entries) /\ entries'[i] = entries[i + 1]
    BY <1>1, <2>1, <2>2
  <2>4. QED
    BY <2>3 DEF Numbering
<1>5. QED
  BY <1>2, <1>3, <1>4 DEF Numbering

LEMMA TypeInit == Init => TypeInv
<1> SUFFICES ASSUME Init PROVE TypeInv
  OBVIOUS
<1> USE DEF Init, StorageInit, ClientInit, WorkerInit
<1>1. StorageTypeOK /\ OneInHand
  BY MaxFaultsAssumption, EmptySeq DEF StorageTypeOK, OneInHand
<1>2. entries \in Seq(Requests) /\ Len(entries) = 0 /\ Len(entries) <= BufferSize
  BY BufferSizeAssumption, EmptySeq
<1>3. prevHash \in Digests
  BY EmptySeq DEF Genesis, Digests
<1>4. TypeOK
  BY <1>1, <1>2, <1>3 DEF TypeOK, Unnumbered
<1>5. Numbering
  BY <1>2 DEF Numbering
<1>6. QED
  BY <1>1, <1>4, <1>5 DEF TypeInv

LEMMA TypeStep == TypeInv /\ [Next]_vars => TypeInv'
<1> SUFFICES ASSUME TypeOK, Numbering, OneInHand, [Next]_vars
             PROVE  TypeOK' /\ Numbering' /\ OneInHand'
  BY DEF TypeInv
<1>1. ASSUME NEW r \in Requests, GetNextSequenceID(r)
      PROVE  TypeOK' /\ Numbering' /\ OneInHand'
  <2>1. TypeOK'
    BY <1>1 DEF GetNextSequenceID, TypeOK, StorageTypeOK, workerVars, storageVars
  <2>2. Numbering'
    BY <1>1 DEF GetNextSequenceID, TypeOK, Numbering, workerVars, storageVars
  <2>3. OneInHand'
    BY <1>1 DEF GetNextSequenceID, OneInHand, workerVars
  <2>4. QED BY <2>1, <2>2, <2>3
<1>2. ASSUME NEW r \in Requests, Log(r)
      PROVE  TypeOK' /\ Numbering' /\ OneInHand'
  <2> USE <1>2 DEF Log
  <2>1. /\ entries' \in Seq(Requests) /\ Len(entries') = Len(entries) + 1
        /\ \A i \in 1..Len(entries') :
             entries'[i] = IF i <= Len(entries) THEN entries[i] ELSE r
    BY AppendProperties DEF TypeOK
  <2>2. Len(entries) \in Nat /\ BufferSize \in Nat
    BY LenProperties, BufferSizeAssumption DEF TypeOK
  <2>3. TypeOK'
    BY <2>1, <2>2 DEF TypeOK, StorageTypeOK, storageVars
  <2>4. Numbering'
    BY <2>1, <2>2 DEF TypeOK, Numbering
  <2>5. OneInHand'
    BY DEF OneInHand
  <2>6. QED BY <2>3, <2>4, <2>5
<1>3. ASSUME NEW r \in Requests, LogPanics(r) \/ Abandon(r)
      PROVE  TypeOK' /\ Numbering' /\ OneInHand'
  BY <1>3 DEF LogPanics, Abandon, TypeOK, Numbering, OneInHand, StorageTypeOK,
              workerVars, storageVars
<1>4. ASSUME NEW r \in Requests, Receive(r)
      PROVE  TypeOK' /\ Numbering' /\ OneInHand'
  <2>1. UNCHANGED << clientVars, closed, expectedSeq, pendingEntries, prevHash, refused,
                     failedOpen, storageVars >>
        /\ inHand' = {r} /\ wpc' = "handle"
    BY <1>4 DEF Receive
  <2>2. TypeOK'
    BY <1>4, <2>1, ReceiveType, LenProperties, BufferSizeAssumption
       DEF TypeOK, StorageTypeOK, clientVars, storageVars
  <2>3. Numbering'
    BY <1>4, ReceiveNumbering
  <2>4. OneInHand'
    BY <2>1 DEF OneInHand
  <2>5. QED BY <2>2, <2>3, <2>4
<1>5. ASSUME NEW r \in Requests, InSequence(r) \/ FailOpen(r)
      PROVE  TypeOK' /\ Numbering' /\ OneInHand'
  <2>1. /\ r \in inHand /\ ProcessEntry(r) /\ inHand' = {} /\ wpc' \in {"drain", "recv"}
        /\ UNCHANGED << clientVars, entries, closed, pendingEntries >>
    BY <1>5 DEF InSequence, FailOpen, Handle
  <2>2. seqOf[r] \in Nat
    BY <2>1 DEF Numbering
  <2>3. expectedSeq' \in Nat /\ failedOpen' \in BOOLEAN
    <3>1. CASE InSequence(r)
      BY <3>1 DEF InSequence, TypeOK
    <3>2. CASE FailOpen(r)
      BY <2>2, <3>2 DEF FailOpen
    <3>3. QED
      BY <1>5, <3>1, <3>2
  <2>4. TypeOK'
    BY <2>1, <2>2, <2>3, ProcessEntryType DEF TypeOK, clientVars
  <2>5. Numbering' /\ OneInHand'
    BY <2>1 DEF Numbering, OneInHand, clientVars
  <2>6. QED BY <2>4, <2>5
<1>6. ASSUME NEW r \in Requests, Park(r)
      PROVE  TypeOK' /\ Numbering' /\ OneInHand'
  <2>1. /\ r \in inHand /\ inHand' = {} /\ wpc' = "recv"
        /\ pendingEntries' = pendingEntries \cup {r}
        /\ UNCHANGED << clientVars, entries, closed, expectedSeq, prevHash, refused,
                        failedOpen, storageVars >>
    BY <1>6 DEF Park, Handle
  <2>2. seqOf[r] \in Nat
    BY <2>1 DEF Numbering
  <2>3. TypeOK'
    BY <2>1 DEF TypeOK, StorageTypeOK, clientVars, storageVars
  <2>4. Numbering' /\ OneInHand'
    BY <2>1, <2>2 DEF Numbering, OneInHand, clientVars
  <2>5. QED BY <2>3, <2>4
<1>7. ASSUME NEW r \in Requests, Drain(r) \/ Flush(r)
      PROVE  TypeOK' /\ Numbering' /\ OneInHand'
  <2>1. ProcessEntry(r) /\ seqOf[r] \in Nat /\ pendingEntries' = pendingEntries \ {r}
    BY <1>7 DEF Drain, Flush, Numbering
  <2>2. UNCHANGED << clientVars, entries, inHand, closed, wpc, failedOpen >>
    BY <1>7 DEF Drain, Flush
  <2>3. expectedSeq' \in Nat
    BY <1>7 DEF Drain, Flush, TypeOK
  <2>4. TypeOK'
    BY <2>1, <2>2, <2>3, ProcessEntryType DEF TypeOK, clientVars
  <2>5. Numbering' /\ OneInHand'
    BY <2>1, <2>2 DEF Numbering, OneInHand, clientVars
  <2>6. QED BY <2>4, <2>5
<1>8. CASE DrainBreak \/ EndOfEntries \/ CloseStorage \/ CloseEntries
  BY <1>8 DEF DrainBreak, EndOfEntries, CloseStorage, CloseEntries, TypeOK, Numbering,
              OneInHand, StorageTypeOK, clientVars, storageVars
<1>9. CASE UNCHANGED vars
  BY <1>9 DEF vars, clientVars, workerVars, storageVars, TypeOK, Numbering, OneInHand,
              StorageTypeOK
<1>10. QED
  BY <1>1, <1>2, <1>3, <1>4, <1>5, <1>6, <1>7, <1>8, <1>9
     DEF Next, Client, Worker, Terminated

\* Every variable keeps its type in every reachable state; in particular the
\* channel never holds more than BufferSize entries and the file holds only
\* lines and parts of lines.
THEOREM TypeCorrect == Spec => []TypeOK
<1>1. Init => TypeInv
  BY TypeInit
<1>2. TypeInv /\ [Next]_vars => TypeInv'
  BY TypeStep
<1>3. TypeInv => TypeOK
  BY DEF TypeInv
<1>4. QED
  BY <1>1, <1>2, <1>3, PTL DEF Spec

-----------------------------------------------------------------------------
(* The hash chain *)

\* What processEntry does to the file when a failing write leaves it alone.
LEMMA ProcessEntryEffect ==
  ASSUME Faults \subseteq {"reject"}, NEW r \in Requests, ProcessEntry(r)
  PROVE  \/ /\ file' = Append(file, Line(r, seqOf[r], prevHash))
            /\ prevHash' = Hash(r, prevHash)
            /\ refused' = refused
         \/ /\ file' = file /\ prevHash' = prevHash
            /\ refused' = refused \cup {r}
  BY DEF ProcessEntry, WriteOK, WriteErr, Line

\* One more line that continues from the last keeps the chain.
LEMMA ChainAppend ==
  ASSUME TypeOK, ChainLinked, NEW r \in Requests, seqOf[r] \in Nat,
         file' = Append(file, Line(r, seqOf[r], prevHash)),
         prevHash' = Hash(r, prevHash)
  PROVE  ChainLinked'
<1> DEFINE line == Line(r, seqOf[r], prevHash)
<1>1. file \in Seq(Lines \cup {Torn}) /\ Len(file) \in Nat
  BY LenProperties DEF TypeOK, StorageTypeOK
<1>2. line \in Lines
  BY LineType DEF TypeOK
<1>3. /\ Len(file') = Len(file) + 1 /\ file' # << >>
      /\ \A i \in 1..Len(file) : file'[i] = file[i]
      /\ file'[Len(file) + 1] = line
  BY <1>1, <1>2, AppendProperties
<1>4. /\ line.kind = "line" /\ line.req = r /\ line.prev = prevHash
      /\ line.hash = Hash(r, prevHash)
  BY DEF Line
<1>5. line.prev = (IF Len(file) = 0 THEN Genesis ELSE file[Len(file)].hash)
  BY <1>1, <1>4, EmptySeq DEF ChainLinked
<1>6. ASSUME NEW i \in 1..Len(file')
      PROVE  /\ file'[i].kind = "line"
             /\ file'[i].prev = (IF i = 1 THEN Genesis ELSE file'[i - 1].hash)
             /\ file'[i].hash = Hash(file'[i].req, file'[i].prev)
  <2>1. CASE i = Len(file) + 1
    <3>1. i # 1 => i - 1 \in 1..Len(file) /\ file'[i - 1] = file[Len(file)]
      BY <1>1, <1>3, <2>1
    <3>2. QED
      BY <1>1, <1>3, <1>4, <1>5, <2>1, <3>1
  <2>2. CASE i \in 1..Len(file)
    <3>1. file'[i] = file[i] /\ (i # 1 => file'[i - 1] = file[i - 1])
      BY <1>1, <1>3, <2>2
    <3>2. QED
      BY <2>2, <3>1 DEF ChainLinked, Chained
  <2>3. QED
    BY <1>1, <1>3, <2>1, <2>2
<1>7. Chained(file', Genesis)
  BY <1>6 DEF Chained
<1>8. prevHash' = file'[Len(file')].hash
  BY <1>1, <1>3, <1>4
<1>9. QED
  BY <1>3, <1>7, <1>8 DEF ChainLinked

LEMMA ChainInit == Init => ChainLinked
<1> SUFFICES ASSUME Init PROVE ChainLinked
  OBVIOUS
<1>1. file = << >> /\ Len(file) = 0 /\ prevHash = Genesis
  BY EmptySeq DEF Init, StorageInit, WorkerInit
<1>2. QED
  BY <1>1 DEF ChainLinked, Chained

LEMMA ChainStep ==
  ASSUME Faults \subseteq {"reject"}
  PROVE  TypeInv /\ ChainLinked /\ [Next]_vars => ChainLinked'
<1> SUFFICES ASSUME TypeOK, Numbering, ChainLinked, [Next]_vars
             PROVE  ChainLinked'
  BY DEF TypeInv
<1>1. ASSUME NEW r \in Requests, ProcessEntry(r), seqOf[r] \in Nat
      PROVE  ChainLinked'
  <2>1. CASE file' = file /\ prevHash' = prevHash
    BY <2>1 DEF ChainLinked, Chained
  <2>2. QED
    BY <1>1, <2>1, ProcessEntryEffect, ChainAppend
<1>2. ASSUME UNCHANGED << file, prevHash >>
      PROVE  ChainLinked'
  BY <1>2 DEF ChainLinked, Chained
<1>3. ASSUME NEW r \in Requests, Client(r)
      PROVE  ChainLinked'
  BY <1>2, <1>3 DEF Client, GetNextSequenceID, Log, LogPanics, Abandon, workerVars,
                    storageVars
<1>4. ASSUME NEW r \in Requests, Receive(r)
      PROVE  ChainLinked'
  BY <1>2, <1>4 DEF Receive, storageVars
<1>5. ASSUME NEW r \in Requests, InSequence(r) \/ FailOpen(r)
      PROVE  ChainLinked'
  BY <1>1, <1>5 DEF InSequence, FailOpen, Handle, Numbering
<1>6. ASSUME NEW r \in Requests, Park(r)
      PROVE  ChainLinked'
  BY <1>2, <1>6 DEF Park, storageVars
<1>7. ASSUME NEW r \in Requests, Drain(r) \/ Flush(r)
      PROVE  ChainLinked'
  BY <1>1, <1>7 DEF Drain, Flush, Numbering
<1>8. CASE DrainBreak \/ EndOfEntries \/ CloseStorage \/ CloseEntries
  BY <1>2, <1>8 DEF DrainBreak, EndOfEntries, CloseStorage, CloseEntries, storageVars
<1>9. CASE UNCHANGED vars
  BY <1>2, <1>9 DEF vars, workerVars, storageVars
<1>10. QED
  BY <1>3, <1>4, <1>5, <1>6, <1>7, <1>8, <1>9 DEF Next, Worker, Terminated

\* The audit file is one unbroken hash chain from the genesis digest, whatever
\* the order in which entries complete, whether or not the pending map
\* overflows, and however many writes are rejected: as long as a Write that
\* returns an error has left the file alone.
THEOREM ChainUnbroken ==
  ASSUME Faults \subseteq {"reject"}
  PROVE  Spec => []ChainLinked
<1>1. Init => TypeInv /\ ChainLinked
  BY TypeInit, ChainInit
<1>2. TypeInv /\ ChainLinked /\ [Next]_vars => (TypeInv /\ ChainLinked)'
  BY TypeStep, ChainStep
<1>3. QED
  BY <1>1, <1>2, PTL DEF Spec

-----------------------------------------------------------------------------
(* Where an entry goes, as sets *)

\* The lines of the file are numbered requests, each once.
NoLineTwice == \A i, j \in 1..Len(file) : file[i].req = file[j].req => i = j
NotQueuedTwice == \A i, j \in 1..Len(entries) : entries[i] = entries[j] => i = j

\* Log adds its entry to the channel.
LEMMA LogPlaces ==
  ASSUME TypeOK, NEW r \in Requests, Log(r)
  PROVE  /\ InChannel' = InChannel \cup {r}
         /\ NotQueuedTwice /\ r \notin InChannel => NotQueuedTwice'
<1>1. /\ Len(entries) \in Nat /\ Len(entries') = Len(entries) + 1
      /\ \A i \in 1..Len(entries) : entries'[i] = entries[i]
      /\ entries'[Len(entries) + 1] = r
  BY LenProperties, AppendProperties DEF Log, TypeOK
<1>2. InChannel' = InChannel \cup {r}
  <2>1. ASSUME NEW x \in InChannel' PROVE x \in InChannel \cup {r}
    <3>1. PICK i \in 1..Len(entries') : x = entries'[i]
      BY DEF InChannel
    <3>2. i \in 1..Len(entries) \/ i = Len(entries) + 1
      BY <1>1
    <3>3. QED
      BY <1>1, <3>1, <3>2 DEF InChannel
  <2>2. ASSUME NEW x \in InChannel PROVE x \in InChannel'
    <3>1. PICK i \in 1..Len(entries) : x = entries[i]
      BY DEF InChannel
    <3>2. i \in 1..Len(entries') /\ entries'[i] = x
      BY <1>1, <3>1
    <3>3. QED
      BY <3>2 DEF InChannel
  <2>3. r \in InChannel'
    <3>1. Len(entries) + 1 \in 1..Len(entries')
      BY <1>1
    <3>2. QED
      BY <1>1, <3>1 DEF InChannel
  <2>4. QED
    BY <2>1, <2>2, <2>3
<1>3. ASSUME NotQueuedTwice, r \notin InChannel,
             NEW i \in 1..Len(entries'), NEW j \in 1..Len(entries'),
             entries'[i] = entries'[j]
      PROVE  i = j
  <2>1. \A k \in 1..Len(entries) : entries[k] # r
    BY <1>3 DEF InChannel
  <2>2. (i \in 1..Len(entries) \/ i = Len(entries) + 1)
        /\ (j \in 1..Len(entries) \/ j = Len(entries) + 1)
    BY <1>1
  <2>3. QED
    BY <1>1, <1>3, <2>1, <2>2 DEF NotQueuedTwice
<1>4. QED
  BY <1>2, <1>3 DEF NotQueuedTwice

\* A receive takes exactly its entry out of the channel.
LEMMA ReceiveTakes ==
  ASSUME TypeOK, NotQueuedTwice, NEW r, Receive(r)
  PROVE  /\ r \in InChannel
         /\ InChannel' = InChannel \ {r}
         /\ NotQueuedTwice'
<1>1. /\ Len(entries) \in Nat /\ Len(entries) > 0 /\ r = entries[1]
      /\ Len(entries') = Len(entries) - 1
      /\ \A i \in 1..Len(entries') : entries'[i] = entries[i + 1]
  BY ReceiveType, LenProperties DEF TypeOK
<1>2. 1 \in 1..Len(entries)
  BY <1>1
<1>3. r \in InChannel
  BY <1>1, <1>2 DEF InChannel
<1>4. ASSUME NEW i \in 1..Len(entries')
      PROVE  /\ i + 1 \in 1..Len(entries) /\ i + 1 # 1
             /\ entries'[i] = entries[i + 1]
  BY <1>1
<1>5. ASSUME NEW x \in InChannel' PROVE x \in InChannel \ {r}
  <2>1. PICK i \in 1..Len(entries') : x = entries'[i]
    BY DEF InChannel
  <2>2. i + 1 \in 1..Len(entries) /\ i + 1 # 1 /\ x = entries[i + 1]
    BY <1>4, <2>1
  <2>3. x # r
    BY <1>1, <1>2, <2>2 DEF NotQueuedTwice
  <2>4. QED
    BY <2>2, <2>3 DEF InChannel
<1>6. ASSUME NEW x \in InChannel, x # r PROVE x \in InChannel'
  <2>1. PICK i \in 1..Len(entries) : x = entries[i]
    BY DEF InChannel
  <2>2. i # 1
    BY <1>1, <1>6, <2>1
  <2>3. i - 1 \in 1..Len(entries') /\ (i - 1) + 1 = i
    BY <1>1, <2>2
  <2>4. entries'[i - 1] = x
    BY <1>1, <2>1, <2>3
  <2>5. QED
    BY <2>3, <2>4 DEF InChannel
<1>7. NotQueuedTwice'
  <2>1. ASSUME NEW i \in 1..Len(entries'), NEW j \in 1..Len(entries'),
               entries'[i] = entries'[j]
        PROVE  i = j
    <3>1. i + 1 = j + 1
      BY <1>4, <2>1 DEF NotQueuedTwice
    <3>2. QED
      BY <3>1
  <2>2. QED
    BY <2>1 DEF NotQueuedTwice
<1>8. QED
  BY <1>3, <1>5, <1>6, <1>7

\* processEntry decides its entry, in the file or in the error log.
LEMMA ProcessEntryDecides ==
  ASSUME Faults \subseteq {"reject"}, TypeOK, ChainLinked, NoLineTwice,
         NEW r \in Requests, seqOf[r] \in Nat, ProcessEntry(r), r \notin Decided,
         Written \cap refused = {}
  PROVE  /\ Decided' = Decided \cup {r}
         /\ (Written \cap refused)' = {}
         /\ NoLineTwice'
<1> DEFINE line == Line(r, seqOf[r], prevHash)
<1>1. CASE file' = file /\ refused' = refused \cup {r}
  <2>1. Written' = Written
    BY <1>1 DEF Written
  <2>2. QED
    BY <1>1, <2>1 DEF Decided, NoLineTwice
<1>2. CASE file' = Append(file, line) /\ refused' = refused
  <2>1. /\ file \in Seq(Lines \cup {Torn}) /\ Len(file) \in Nat /\ line \in Lines
        /\ line.req = r /\ line.kind = "line"
    BY LenProperties, LineType DEF TypeOK, StorageTypeOK, Line
  <2>2. /\ Len(file') = Len(file) + 1
        /\ \A i \in 1..Len(file) : file'[i] = file[i]
        /\ file'[Len(file) + 1] = line
    BY <1>2, <2>1, AppendProperties
  <2>3. \A i \in 1..Len(file) : file[i].kind = "line"
    BY DEF ChainLinked, Chained
  <2>4. Written = { file[i].req : i \in 1..Len(file) }
    BY <2>3 DEF Written
  <2>5. \A i \in 1..Len(file') : i \in 1..Len(file) \/ i = Len(file) + 1
    BY <2>1, <2>2
  <2>6. \A i \in 1..Len(file') : file'[i].kind = "line"
    BY <2>1, <2>2, <2>3, <2>5
  <2>7. Written' = { file'[i].req : i \in 1..Len(file') }
    BY <2>6 DEF Written
  <2>8. ASSUME NEW x \in Written' PROVE x \in Written \cup {r}
    <3>1. PICK i \in 1..Len(file') : x = file'[i].req
      BY <2>7
    <3>2. QED
      BY <2>1, <2>2, <2>4, <2>5, <3>1
  <2>9. ASSUME NEW x \in Written PROVE x \in Written'
    <3>1. PICK i \in 1..Len(file) : x = file[i].req
      BY <2>4
    <3>2. i \in 1..Len(file') /\ file'[i].req = x
      BY <2>1, <2>2, <3>1
    <3>3. QED
      BY <2>7, <3>2
  <2>10. r \in Written'
    <3>1. Len(file) + 1 \in 1..Len(file')
      BY <2>1, <2>2
    <3>2. QED
      BY <2>1, <2>2, <2>7, <3>1
  <2>11. Written' = Written \cup {r}
    BY <2>8, <2>9, <2>10
  <2>12. NoLineTwice'
    <3>1. \A k \in 1..Len(file) : file[k].req # r
      BY <2>4 DEF Decided
    <3>2. ASSUME NEW i \in 1..Len(file'), NEW j \in 1..Len(file'),
                 file'[i].req = file'[j].req
          PROVE  i = j
      BY <2>1, <2>2, <2>5, <3>1, <3>2 DEF NoLineTwice
    <3>3. QED
      BY <3>2 DEF NoLineTwice
  <2>13. QED
    BY <1>2, <2>11, <2>12 DEF Decided
<1>3. QED
  BY <1>1, <1>2, ProcessEntryEffect

-----------------------------------------------------------------------------
(* Every entry is accounted for *)

AccountInv == TypeInv /\ ChainLinked /\ Accounted

LEMMA AccountInit == Init => Accounted
<1> SUFFICES ASSUME Init PROVE Accounted
  OBVIOUS
<1>1. /\ Len(file) = 0 /\ Len(entries) = 0 /\ refused = {} /\ pendingEntries = {}
      /\ inHand = {} /\ hpc = [r \in Requests |-> "new"]
  BY EmptySeq DEF Init, StorageInit, WorkerInit, ClientInit
<1>2. Written = {} /\ InChannel = {} /\ Logged = {} /\ Decided = {}
  BY <1>1 DEF Written, InChannel, Logged, Decided
<1>3. QED
  BY <1>1, <1>2 DEF Accounted

\* A step that only moves handlers that log nothing, or run()'s position.
LEMMA AccountUnchanged ==
  ASSUME Accounted, Logged' = Logged,
         UNCHANGED << entries, inHand, pendingEntries, file, refused >>
  PROVE  Accounted'
<1>1. InChannel' = InChannel /\ Written' = Written /\ Decided' = Decided
  BY DEF InChannel, Written, Decided
<1>2. QED
  BY <1>1 DEF Accounted

LEMMA AccountStep ==
  ASSUME Faults \subseteq {"reject"}
  PROVE  AccountInv /\ [Next]_vars => Accounted'
<1> SUFFICES ASSUME TypeInv, TypeOK, Numbering, OneInHand, ChainLinked, Accounted,
                    [Next]_vars
             PROVE  Accounted'
  BY DEF AccountInv, TypeInv
<1>0. /\ NoLineTwice /\ NotQueuedTwice
      /\ InChannel \subseteq Requests
      /\ hpc \in [Requests -> {"new", "numbered", "logged", "panicked"}]
      /\ pendingEntries \subseteq Requests
  BY DEF Accounted, NoLineTwice, NotQueuedTwice, Logged, TypeOK
<1>1. ASSUME NEW r \in Requests, GetNextSequenceID(r) \/ LogPanics(r) \/ Abandon(r)
      PROVE  Accounted'
  <2>1. Logged' = Logged
    BY <1>0, <1>1 DEF GetNextSequenceID, LogPanics, Abandon, Logged
  <2>2. QED
    BY <1>1, <2>1, AccountUnchanged
       DEF GetNextSequenceID, LogPanics, Abandon, workerVars, storageVars
<1>2. ASSUME NEW r \in Requests, Log(r)
      PROVE  Accounted'
  <2>1. r \notin Logged /\ Logged' = Logged \cup {r}
    BY <1>0, <1>2 DEF Log, Logged
  <2>2. UNCHANGED << inHand, pendingEntries, file, refused >>
    BY <1>2 DEF Log, storageVars
  <2>3. Written' = Written /\ Decided' = Decided
    BY <2>2 DEF Written, Decided
  <2>4. r \notin InChannel \cup inHand \cup pendingEntries \cup Decided
    BY <2>1 DEF Accounted
  <2>5. InChannel' = InChannel \cup {r} /\ NotQueuedTwice'
    BY <1>0, <1>2, <2>4, LogPlaces
  <2>6. QED
    BY <2>1, <2>2, <2>3, <2>4, <2>5 DEF Accounted, NotQueuedTwice
<1>3. ASSUME NEW r \in Requests, Receive(r)
      PROVE  Accounted'
  <2>1. /\ inHand = {} /\ inHand' = {r}
        /\ UNCHANGED << clientVars, pendingEntries, file, refused >>
    BY <1>3 DEF Receive, OneInHand, storageVars
  <2>2. Logged' = Logged /\ Written' = Written /\ Decided' = Decided
    BY <2>1 DEF clientVars, Logged, Written, Decided
  <2>3. r \in InChannel /\ InChannel' = InChannel \ {r} /\ NotQueuedTwice'
    BY <1>0, <1>3, ReceiveTakes
  <2>4. QED
    BY <2>1, <2>2, <2>3 DEF Accounted, NotQueuedTwice
<1>4. ASSUME NEW r \in Requests, InSequence(r) \/ FailOpen(r)
      PROVE  Accounted'
  <2>1. /\ r \in inHand /\ inHand' = {} /\ ProcessEntry(r)
        /\ UNCHANGED << clientVars, entries, pendingEntries >>
    BY <1>4 DEF InSequence, FailOpen, Handle
  <2>2. inHand = {r}
    BY <2>1 DEF OneInHand
  <2>3. Logged' = Logged /\ InChannel' = InChannel
    BY <2>1 DEF clientVars, Logged, InChannel
  <2>4. r \notin Decided /\ Written \cap refused = {} /\ seqOf[r] \in Nat
    BY <2>1 DEF Accounted, Numbering
  <2>5. Decided' = Decided \cup {r} /\ (Written \cap refused)' = {} /\ NoLineTwice'
    BY <1>0, <2>1, <2>4, ProcessEntryDecides
  <2>6. QED
    BY <2>1, <2>2, <2>3, <2>4, <2>5 DEF Accounted, NoLineTwice
<1>5. ASSUME NEW r \in Requests, Park(r)
      PROVE  Accounted'
  <2>1. /\ r \in inHand /\ inHand' = {} /\ pendingEntries' = pendingEntries \cup {r}
        /\ UNCHANGED << clientVars, entries, file, refused >>
    BY <1>5 DEF Park, Handle, storageVars
  <2>2. inHand = {r}
    BY <2>1 DEF OneInHand
  <2>3. /\ Logged' = Logged /\ Written' = Written /\ Decided' = Decided
        /\ InChannel' = InChannel
    BY <2>1 DEF clientVars, Logged, Written, Decided, InChannel
  <2>4. QED
    BY <2>1, <2>2, <2>3 DEF Accounted
<1>6. ASSUME NEW r \in Requests, Drain(r) \/ Flush(r)
      PROVE  Accounted'
  <2>1. /\ ProcessEntry(r) /\ r \in pendingEntries
        /\ pendingEntries' = pendingEntries \ {r}
        /\ UNCHANGED << clientVars, entries, inHand >>
    BY <1>6 DEF Drain, Flush
  <2>2. Logged' = Logged /\ InChannel' = InChannel
    BY <2>1 DEF clientVars, Logged, InChannel
  <2>3. r \notin Decided /\ Written \cap refused = {} /\ seqOf[r] \in Nat
    BY <2>1 DEF Accounted, Numbering
  <2>4. Decided' = Decided \cup {r} /\ (Written \cap refused)' = {} /\ NoLineTwice'
    BY <1>0, <2>1, <2>3, ProcessEntryDecides
  <2>5. QED
    BY <2>1, <2>2, <2>3, <2>4 DEF Accounted, NoLineTwice
<1>7. CASE DrainBreak \/ EndOfEntries \/ CloseStorage \/ CloseEntries
  <2>1. UNCHANGED << hpc, entries, inHand, pendingEntries, file, refused >>
    BY <1>7 DEF DrainBreak, EndOfEntries, CloseStorage, CloseEntries, clientVars,
                storageVars
  <2>2. QED
    BY <2>1, AccountUnchanged DEF Logged
<1>8. CASE UNCHANGED vars
  BY <1>8, AccountUnchanged DEF vars, clientVars, workerVars, storageVars, Logged
<1>9. QED
  BY <1>1, <1>2, <1>3, <1>4, <1>5, <1>6, <1>7, <1>8 DEF Next, Client, Worker, Terminated

LEMMA AccountInvStep ==
  ASSUME Faults \subseteq {"reject"}
  PROVE  AccountInv /\ [Next]_vars => AccountInv'
  BY TypeStep, ChainStep, AccountStep DEF AccountInv

\* Nothing handed to Log is lost or handled twice: at any time each entry is in
\* exactly one of the channel, run's hand, the pending map, the file and the
\* error log.  It needs neither an order of the entries nor room for them.
THEOREM EntriesAccounted ==
  ASSUME Faults \subseteq {"reject"}
  PROVE  Spec => []Accounted
<1>1. Init => AccountInv
  BY TypeInit, ChainInit, AccountInit DEF AccountInv
<1>2. AccountInv /\ [Next]_vars => AccountInv'
  BY AccountInvStep
<1>3. AccountInv => Accounted
  BY DEF AccountInv
<1>4. QED
  BY <1>1, <1>2, <1>3, PTL DEF Spec
-----------------------------------------------------------------------------
(* What a finished worker leaves behind *)

\* run leaves its loop when the channel is closed and empty, and returns when
\* the map is empty too; nothing is sent or parked after that.
Ending ==
  /\ wpc \in {"flush", "done"} => closed /\ entries = << >>
  /\ wpc = "done" => pendingEntries = {}

LEMMA EndingStep == TypeOK /\ Ending /\ [Next]_vars => Ending'
<1> SUFFICES ASSUME TypeOK, Ending, [Next]_vars
    PROVE  Ending'
  OBVIOUS
<1>1. ASSUME NEW r \in Requests, Client(r)
      PROVE  Ending'
  BY <1>1 DEF Client, GetNextSequenceID, Log, LogPanics, Abandon, workerVars, Ending
<1>2. ASSUME NEW r \in Requests, Receive(r)
      PROVE  Ending'
  BY <1>2 DEF Receive, Ending
<1>3. ASSUME NEW r \in Requests, InSequence(r) \/ Park(r) \/ FailOpen(r)
      PROVE  Ending'
  BY <1>3 DEF InSequence, Park, FailOpen, Handle, Ending
<1>4. ASSUME NEW r \in Requests, Drain(r) \/ Flush(r)
      PROVE  Ending'
  BY <1>4 DEF Drain, Flush, Ending
<1>5. CASE DrainBreak \/ EndOfEntries \/ CloseStorage \/ CloseEntries
  BY <1>5 DEF DrainBreak, EndOfEntries, CloseStorage, CloseEntries, Ending
<1>6. CASE UNCHANGED vars
  BY <1>6 DEF vars, workerVars, Ending
<1>7. QED
  BY <1>1, <1>2, <1>3, <1>4, <1>5, <1>6 DEF Next, Worker, Terminated

\* When run returns, every entry Log accepted was written or refused by the
\* storage, whatever was queued or parked when the channel was closed.
THEOREM FlushedAtShutdown ==
  ASSUME Faults \subseteq {"reject"}
  PROVE  Spec => []ShutdownFlushes
<1> DEFINE Inv == AccountInv /\ Ending
<1>1. Init => Inv
  BY TypeInit, ChainInit, AccountInit DEF AccountInv, Ending, Init, WorkerInit
<1>2. Inv /\ [Next]_vars => Inv'
  BY AccountInvStep, EndingStep DEF AccountInv, TypeInv
<1>3. Inv => ShutdownFlushes
  <2> SUFFICES ASSUME Inv, wpc = "done" PROVE Logged \subseteq Decided
    BY DEF ShutdownFlushes
  <2>1. entries = << >> /\ pendingEntries = {}
    BY DEF Ending
  <2>2. InChannel = {} /\ inHand = {}
    BY <2>1, EmptySeq DEF InChannel, AccountInv, TypeInv, OneInHand
  <2>3. QED
    BY <2>1, <2>2 DEF AccountInv, Accounted
<1> HIDE DEF Inv
<1>4. QED
  BY <1>1, <1>2, <1>3, PTL DEF Spec

-----------------------------------------------------------------------------
(* The bound on the parked entries *)

\* The pending map stays finite and within its bound: only Park adds to it,
\* one entry, and only below the bound.
PendingInv == IsFiniteSet(pendingEntries) /\ PendingBounded

LEMMA PendingInit == Init => PendingInv
  BY FS_EmptySet, MaxPendingAssumption DEF Init, WorkerInit, PendingInv, PendingBounded

LEMMA PendingStep == PendingInv /\ [Next]_vars => PendingInv'
<1> SUFFICES ASSUME PendingInv, [Next]_vars
    PROVE  PendingInv'
  OBVIOUS
<1>1. ASSUME NEW r \in Requests, Park(r)
      PROVE  PendingInv'
  <2>1. /\ Cardinality(pendingEntries) < MaxPending
        /\ pendingEntries' = pendingEntries \cup {r}
    BY <1>1 DEF Park
  <2>2. IsFiniteSet(pendingEntries') /\ Cardinality(pendingEntries) \in Nat
        /\ Cardinality(pendingEntries') <= Cardinality(pendingEntries) + 1
    BY <2>1, FS_AddElement, FS_CardinalityType DEF PendingInv
  <2>3. QED
    <3>1. Cardinality(pendingEntries') \in Nat
      BY <2>2, FS_CardinalityType
    <3>2. QED
      BY <2>1, <2>2, <3>1, MaxPendingAssumption DEF PendingInv, PendingBounded
<1>2. ASSUME NEW r \in Requests, Drain(r) \/ Flush(r)
      PROVE  PendingInv'
  <2>1. pendingEntries' \subseteq pendingEntries
    BY <1>2 DEF Drain, Flush
  <2>2. /\ IsFiniteSet(pendingEntries')
        /\ Cardinality(pendingEntries') <= Cardinality(pendingEntries)
    BY <2>1, FS_Subset DEF PendingInv
  <2>3. Cardinality(pendingEntries) \in Nat /\ Cardinality(pendingEntries') \in Nat
    BY <2>2, FS_CardinalityType DEF PendingInv
  <2>4. QED
    BY <2>2, <2>3, MaxPendingAssumption DEF PendingInv, PendingBounded
<1>3. CASE UNCHANGED pendingEntries
  BY <1>3 DEF PendingInv, PendingBounded
<1>4. QED
  BY <1>1, <1>2, <1>3
     DEF Next, Client, GetNextSequenceID, Log, LogPanics, Abandon, Worker, Receive,
         InSequence, FailOpen, DrainBreak, EndOfEntries, CloseStorage, CloseEntries, Terminated,
         vars, workerVars

\* The pending map never exceeds its bound, for any number of requests, any
\* bound and any behaviour of the storage.
THEOREM PendingStaysBounded == Spec => []PendingBounded
<1>1. Init => PendingInv
  BY PendingInit
<1>2. PendingInv /\ [Next]_vars => PendingInv'
  BY PendingStep
<1>3. PendingInv => PendingBounded
  BY DEF PendingInv
<1>4. QED
  BY <1>1, <1>2, <1>3, PTL DEF Spec

-----------------------------------------------------------------------------
(* The order AuditWorker writes in *)

\* A line carries the number of the request it is about.
LinesNumbered == \A i \in 1..Len(file) : file[i].seq = seqOf[file[i].req]

\* Lines stand in the order of their numbers.
Ascending == \A i, j \in 1..Len(file) : i < j => file[i].seq < file[j].seq

\* The worker is done with exactly the numbers below expectedSeq.
Gapless == { seqOf[r] : r \in Decided } = 0..(expectedSeq - 1)

OrderInv == AccountInv /\ LinesNumbered /\ InSequenceOrder

-----------------------------------------------------------------------------
(* What a line is about *)

\* Every line of the file is about a decided request.
LEMMA LineDecided ==
  ASSUME ChainLinked, NEW i \in 1..Len(file)
  PROVE  file[i].req \in Decided
  BY DEF ChainLinked, Chained, Written, Decided

\* A decided request has been handed to Log and will not be numbered again.
LEMMA DecidedLogged ==
  ASSUME AccountInv, NEW r \in Decided
  PROVE  r \in Requests /\ hpc[r] = "logged"
  BY DEF AccountInv, Accounted, Logged

\* Numbers and lines stay as they are while the file does and decided requests
\* keep their numbers.
LEMMA OrderUnchanged ==
  ASSUME OrderInv, UNCHANGED << file, refused >>,
         \A r \in Decided : seqOf'[r] = seqOf[r]
  PROVE  /\ LinesNumbered'
         /\ Decided' = Decided
         /\ Ascending => Ascending'
         /\ { seqOf'[r] : r \in Decided' } = { seqOf[r] : r \in Decided }
<1>1. Decided' = Decided
  BY DEF Decided, Written
<1>2. \A i \in 1..Len(file) : seqOf'[file[i].req] = seqOf[file[i].req]
  BY LineDecided DEF OrderInv, AccountInv
<1>3. QED
  BY <1>1, <1>2 DEF OrderInv, LinesNumbered, Ascending

\* processEntry writes the entry's own number or nothing.
LEMMA ProcessEntryNumbers ==
  ASSUME Faults \subseteq {"reject"}, TypeOK, LinesNumbered,
         NEW r \in Requests, seqOf[r] \in Nat, ProcessEntry(r), seqOf' = seqOf
  PROVE  LinesNumbered'
<1> DEFINE line == Line(r, seqOf[r], prevHash)
<1>1. CASE file' = file
  BY <1>1 DEF LinesNumbered
<1>2. CASE file' = Append(file, line)
  <2>1. /\ file \in Seq(Lines \cup {Torn}) /\ Len(file) \in Nat /\ line \in Lines
        /\ line.req = r /\ line.seq = seqOf[r]
    BY LenProperties, LineType DEF TypeOK, StorageTypeOK, Line
  <2>2. /\ Len(file') = Len(file) + 1
        /\ \A i \in 1..Len(file) : file'[i] = file[i]
        /\ file'[Len(file) + 1] = line
    BY <1>2, <2>1, AppendProperties
  <2>3. QED
    BY <2>1, <2>2 DEF LinesNumbered
<1>3. QED
  BY <1>1, <1>2, ProcessEntryEffect

\* Processing the expected entry continues the order and closes no gap but the
\* first: the numbers below expectedSeq are those of the decided requests.
LEMMA ProcessExpected ==
  ASSUME Faults \subseteq {"reject"}, TypeOK, ChainLinked, LinesNumbered, Ascending,
         Gapless, NoLineTwice, Written \cap refused = {},
         NEW r \in Requests, r \notin Decided, seqOf[r] = expectedSeq,
         ProcessEntry(r), seqOf' = seqOf, expectedSeq' = expectedSeq + 1
  PROVE  Ascending' /\ Gapless'
<1> DEFINE line == Line(r, seqOf[r], prevHash)
<1>1. expectedSeq \in Nat /\ seqOf[r] \in Nat
  BY DEF TypeOK
<1>2. Decided' = Decided \cup {r}
  BY <1>1, ProcessEntryDecides
<1>3. Gapless'
  <2>1. { seqOf'[q] : q \in Decided' } = { seqOf[q] : q \in Decided } \cup {expectedSeq}
    BY <1>2
  <2>2. 0..(expectedSeq' - 1) = 0..(expectedSeq - 1) \cup {expectedSeq}
    BY <1>1
  <2>3. QED
    BY <2>1, <2>2 DEF Gapless
<1>4. CASE file' = file
  BY <1>3, <1>4 DEF Ascending
<1>5. CASE file' = Append(file, line)
  <2>1. /\ file \in Seq(Lines \cup {Torn}) /\ Len(file) \in Nat /\ line \in Lines
        /\ line.seq = expectedSeq
    BY LenProperties, LineType, <1>1 DEF TypeOK, StorageTypeOK, Line
  <2>2. /\ Len(file') = Len(file) + 1
        /\ \A i \in 1..Len(file) : file'[i] = file[i]
        /\ file'[Len(file) + 1] = line
    BY <1>5, <2>1, AppendProperties
  <2>3. ASSUME NEW i \in 1..Len(file)
        PROVE  file[i].seq < expectedSeq
    <3>1. file[i].seq \in { seqOf[q] : q \in Decided }
      BY LineDecided DEF LinesNumbered
    <3>2. file[i].seq \in 0..(expectedSeq - 1)
      BY <3>1 DEF Gapless
    <3>3. QED
      BY <1>1, <3>2
  <2>4. ASSUME NEW i \in 1..Len(file'), NEW j \in 1..Len(file'), i < j
        PROVE  file'[i].seq < file'[j].seq
    <3>1. i \in 1..Len(file)
      BY <2>1, <2>2, <2>4
    <3>2. CASE j \in 1..Len(file)
      BY <2>2, <2>4, <3>1, <3>2 DEF Ascending
    <3>3. CASE j = Len(file) + 1
      BY <2>1, <2>2, <2>3, <3>1, <3>3
    <3>4. QED
      BY <2>1, <2>2, <3>2, <3>3
  <2>5. QED
    BY <1>3, <2>4 DEF Ascending
<1>6. QED
  BY <1>4, <1>5, ProcessEntryEffect

-----------------------------------------------------------------------------
(* The order of the file *)

LEMMA OrderInit == Init => OrderInv
<1> SUFFICES ASSUME Init
    PROVE  OrderInv
  OBVIOUS
<1>1. AccountInv
  BY TypeInit, ChainInit, AccountInit DEF AccountInv
<1>2. file = << >> /\ Len(file) = 0 /\ refused = {} /\ expectedSeq = 0
  BY EmptySeq DEF Init, StorageInit, WorkerInit
<1>3. Decided = {}
  BY <1>2 DEF Decided, Written
<1>4. { seqOf[r] : r \in Decided } = {} /\ 0..(expectedSeq - 1) = {}
  BY <1>2, <1>3
<1>5. LinesNumbered /\ Ascending
  <2>1. 1..Len(file) = {}
    BY <1>2
  <2>2. QED
    BY <2>1 DEF LinesNumbered, Ascending
<1>6. Gapless
  BY <1>4 DEF Gapless
<1>7. QED
  BY <1>1, <1>5, <1>6 DEF OrderInv, InSequenceOrder, Ascending, Gapless

LEMMA OrderStep ==
  ASSUME Faults \subseteq {"reject"}
  PROVE  OrderInv /\ [Next]_vars => OrderInv'
<1> SUFFICES ASSUME OrderInv, [Next]_vars
    PROVE  OrderInv'
  OBVIOUS
<1>0. /\ AccountInv /\ TypeInv /\ TypeOK /\ Numbering /\ ChainLinked /\ Accounted
      /\ LinesNumbered /\ InSequenceOrder /\ NoLineTwice /\ NotQueuedTwice
      /\ Written \cap refused = {}
  BY DEF OrderInv, AccountInv, TypeInv, Accounted, NoLineTwice, NotQueuedTwice
<1>1. AccountInv'
  BY <1>0, AccountInvStep
<1>2. ASSUME NEW r \in Requests, Client(r)
      PROVE  LinesNumbered' /\ InSequenceOrder'
  <2>1. /\ UNCHANGED << file, refused, wpc, expectedSeq, failedOpen >>
        /\ \A q \in Requests : hpc[q] # "new" => seqOf'[q] = seqOf[q]
    BY <1>0, <1>2 DEF Client, GetNextSequenceID, Log, LogPanics, Abandon, workerVars,
                storageVars, TypeOK
  <2>2. \A q \in Decided : seqOf'[q] = seqOf[q]
    BY <1>0, <2>1, DecidedLogged
  <2>3. QED
    BY <1>0, <2>1, <2>2, OrderUnchanged DEF InSequenceOrder, Ascending
<1>3. ASSUME NEW r \in Requests, InSequence(r)
      PROVE  LinesNumbered' /\ InSequenceOrder'
  <2>1. /\ r \in inHand /\ ProcessEntry(r) /\ seqOf[r] = expectedSeq
        /\ expectedSeq' = expectedSeq + 1 /\ failedOpen' = failedOpen
        /\ wpc = "handle" /\ seqOf' = seqOf
    BY <1>3 DEF InSequence, Handle, clientVars
  <2>2. seqOf[r] \in Nat /\ r \notin Decided
    BY <1>0, <2>1 DEF TypeOK, Accounted
  <2>3. LinesNumbered'
    BY <1>0, <2>1, <2>2, ProcessEntryNumbers
  <2>4. ASSUME ~failedOpen PROVE Ascending' /\ Gapless'
    BY <1>0, <2>1, <2>2, <2>4, ProcessExpected DEF InSequenceOrder, Ascending, Gapless
  <2>5. QED
    BY <2>1, <2>3, <2>4 DEF InSequenceOrder, Ascending, Gapless
<1>4. ASSUME NEW r \in Requests, Drain(r)
      PROVE  LinesNumbered' /\ InSequenceOrder'
  <2>1. /\ r \in pendingEntries /\ ProcessEntry(r) /\ seqOf[r] = expectedSeq
        /\ expectedSeq' = expectedSeq + 1 /\ failedOpen' = failedOpen
        /\ wpc = "drain" /\ seqOf' = seqOf
    BY <1>4 DEF Drain, clientVars
  <2>2. seqOf[r] \in Nat /\ r \notin Decided
    BY <1>0, <2>1 DEF TypeOK, Accounted
  <2>3. LinesNumbered'
    BY <1>0, <2>1, <2>2, ProcessEntryNumbers
  <2>4. ASSUME ~failedOpen PROVE Ascending' /\ Gapless'
    BY <1>0, <2>1, <2>2, <2>4, ProcessExpected DEF InSequenceOrder, Ascending, Gapless
  <2>5. QED
    BY <2>1, <2>3, <2>4 DEF InSequenceOrder, Ascending, Gapless
<1>5. ASSUME NEW r \in Requests, FailOpen(r) \/ Flush(r)
      PROVE  LinesNumbered' /\ InSequenceOrder'
  <2>1. /\ ProcessEntry(r) /\ seqOf[r] \in Nat /\ seqOf' = seqOf
        /\ failedOpen' \/ wpc' = "flush"
    BY <1>0, <1>5 DEF FailOpen, Flush, Handle, clientVars, Numbering
  <2>2. QED
    BY <1>0, <2>1, ProcessEntryNumbers DEF InSequenceOrder
<1>6. ASSUME \/ \E r \in Requests : Receive(r) \/ Park(r)
             \/ DrainBreak \/ EndOfEntries \/ CloseStorage \/ CloseEntries
             \/ UNCHANGED vars
      PROVE  LinesNumbered' /\ InSequenceOrder'
  <2>1. /\ UNCHANGED << file, refused, seqOf, expectedSeq, failedOpen >>
        /\ wpc' \in {"recv", "handle", "drain"} => wpc \in {"recv", "handle", "drain"}
    BY <1>6 DEF Park, Handle, Receive, DrainBreak, EndOfEntries, CloseStorage, CloseEntries, vars,
                clientVars, workerVars, storageVars
  <2>2. QED
    BY <1>0, <2>1, OrderUnchanged DEF InSequenceOrder, Ascending
<1>7. LinesNumbered' /\ InSequenceOrder'
  BY <1>2, <1>3, <1>4, <1>5, <1>6 DEF Next, Worker, Terminated
<1>8. QED
  BY <1>1, <1>7 DEF OrderInv

\* Until an overflow or the shutdown, and in whatever order the handlers call
\* Log, the lines of the file follow the sequence numbers, and the worker is
\* done with exactly the numbers below expectedSeq.
THEOREM WrittenInOrder ==
  ASSUME Faults \subseteq {"reject"}
  PROVE  Spec => []InSequenceOrder
<1>1. OrderInv => InSequenceOrder
  BY DEF OrderInv
<1>2. QED
  BY <1>1, OrderInit, OrderStep, PTL DEF Spec

-----------------------------------------------------------------------------
(* No entry waits once its turn has come *)

\* What run waits for, or compares the entry in its hand with, is not in its map.
NoneReady ==
  ~failedOpen /\ wpc \in {"recv", "handle"} =>
    \A r \in pendingEntries : seqOf[r] # expectedSeq

LEMMA ReadyStep == AccountInv /\ NoneReady /\ [Next]_vars => NoneReady'
<1> SUFFICES ASSUME AccountInv, NoneReady, [Next]_vars
    PROVE  NoneReady'
  OBVIOUS
<1> USE DEF NoneReady
<1>1. ASSUME NEW r \in Requests, Client(r)
      PROVE  NoneReady'
  <2>1. /\ UNCHANGED << pendingEntries, wpc, expectedSeq, failedOpen >>
        /\ \A q \in Requests : hpc[q] # "new" => seqOf'[q] = seqOf[q]
    BY <1>1 DEF Client, GetNextSequenceID, Log, LogPanics, Abandon, workerVars,
                AccountInv, TypeInv, TypeOK
  <2>2. \A q \in pendingEntries : q \in Requests /\ hpc[q] = "logged"
    BY DEF AccountInv, Accounted, Logged
  <2>3. QED
    BY <2>1, <2>2
<1>2. ASSUME NEW r \in Requests, Receive(r) \/ Park(r)
      PROVE  NoneReady'
  BY <1>2 DEF Park, Handle, Receive, clientVars
<1>3. ASSUME NEW r \in Requests, InSequence(r) \/ FailOpen(r) \/ Drain(r) \/ Flush(r)
      PROVE  NoneReady'
  BY <1>3 DEF InSequence, FailOpen, Drain, Flush
<1>4. CASE DrainBreak \/ EndOfEntries \/ CloseStorage \/ CloseEntries \/ UNCHANGED vars
  BY <1>4 DEF DrainBreak, EndOfEntries, CloseStorage, CloseEntries, vars, clientVars,
              workerVars
<1>5. QED
  BY <1>1, <1>2, <1>3, <1>4 DEF Next, Worker, Terminated

LEMMA ReadyInit == Init => AccountInv /\ NoneReady
  BY TypeInit, ChainInit, AccountInit DEF AccountInv, NoneReady, Init, WorkerInit

\* Until an overflow an entry whose turn has come is never left in the map while
\* the worker waits for the channel, whatever the size of the map.
THEOREM TurnNotMissed ==
  ASSUME Faults \subseteq {"reject"}
  PROVE  Spec => []NoneReadyParked
<1>1. AccountInv /\ NoneReady /\ [Next]_vars => (AccountInv /\ NoneReady)'
  BY AccountInvStep, ReadyStep
<1>2. NoneReady => NoneReadyParked
  BY DEF NoneReady, NoneReadyParked
<1>3. QED
  BY <1>1, <1>2, ReadyInit, PTL DEF Spec

-----------------------------------------------------------------------------
(* The numbers that the refinement speaks of *)

\* Numbers are handed out once each and without a gap.
NumbersUnique ==
  /\ \A r \in Requests : hpc[r] = "new" <=> seqOf[r] = Unnumbered
  /\ \A r \in Requests : seqOf[r] < nextSequenceID
  /\ \A q, r \in Requests : seqOf[q] \in Nat /\ seqOf[q] = seqOf[r] => q = r
  /\ IsFiniteSet(Abstract!Numbered)
  /\ Cardinality(Abstract!Numbered) = nextSequenceID

RefineInv == OrderInv /\ NumbersUnique

LEMMA NumbersInit == Init => NumbersUnique
<1> SUFFICES ASSUME Init PROVE NumbersUnique
  OBVIOUS
<1>1. /\ seqOf = [r \in Requests |-> -1] /\ hpc = [r \in Requests |-> "new"]
      /\ nextSequenceID = 0
  BY DEF Init, ClientInit, Unnumbered
<1>2. Abstract!Numbered = {}
  BY <1>1 DEF Abstract!Numbered
<1>3. IsFiniteSet(Abstract!Numbered) /\ Cardinality(Abstract!Numbered) = nextSequenceID
  BY <1>1, <1>2, FS_EmptySet
<1>4. QED
  BY <1>1, <1>3 DEF NumbersUnique, Unnumbered

\* The next number goes to a request that had none.
LEMMA NumberAdds ==
  ASSUME TypeOK, NumbersUnique, NEW r \in Requests, GetNextSequenceID(r)
  PROVE  /\ r \notin Abstract!Numbered
         /\ Abstract!Numbered' = Abstract!Numbered \cup {r}
         /\ NumbersUnique'
<1>1. /\ hpc[r] = "new" /\ seqOf[r] = -1 /\ nextSequenceID \in Nat
      /\ seqOf' = [seqOf EXCEPT ![r] = nextSequenceID]
      /\ hpc' = [hpc EXCEPT ![r] = "numbered"]
      /\ nextSequenceID' = nextSequenceID + 1
      /\ seqOf \in [Requests -> Nat \cup {-1}]
      /\ hpc \in [Requests -> {"new", "numbered", "logged", "panicked"}]
  BY DEF GetNextSequenceID, NumbersUnique, TypeOK, Unnumbered
<1>2. r \notin Abstract!Numbered
  BY <1>1 DEF Abstract!Numbered
<1>3. Abstract!Numbered' = Abstract!Numbered \cup {r}
  BY <1>1 DEF Abstract!Numbered
<1>4. /\ IsFiniteSet(Abstract!Numbered')
      /\ Cardinality(Abstract!Numbered') = nextSequenceID'
  BY <1>1, <1>2, <1>3, FS_AddElement DEF NumbersUnique
<1>5. /\ \A q \in Requests : hpc'[q] = "new" <=> seqOf'[q] = Unnumbered
      /\ \A q \in Requests : seqOf'[q] < nextSequenceID'
  BY <1>1 DEF NumbersUnique, Unnumbered
<1>6. ASSUME NEW p \in Requests, NEW q \in Requests,
             seqOf'[p] \in Nat, seqOf'[p] = seqOf'[q]
      PROVE  p = q
  BY <1>1, <1>6 DEF NumbersUnique
<1>7. QED
  BY <1>2, <1>3, <1>4, <1>5, <1>6 DEF NumbersUnique

LEMMA NumbersStep == TypeOK /\ NumbersUnique /\ [Next]_vars => NumbersUnique'
<1> SUFFICES ASSUME TypeOK, NumbersUnique, [Next]_vars
    PROVE  NumbersUnique'
  OBVIOUS
<1>1. ASSUME NEW r \in Requests, GetNextSequenceID(r)
      PROVE  NumbersUnique'
  BY <1>1, NumberAdds
<1>2. ASSUME UNCHANGED << nextSequenceID, seqOf >>,
             \A r \in Requests : hpc'[r] = "new" <=> hpc[r] = "new"
      PROVE  NumbersUnique'
  <2>1. Abstract!Numbered' = Abstract!Numbered
    BY <1>2 DEF Abstract!Numbered
  <2>2. QED
    BY <1>2, <2>1 DEF NumbersUnique
<1>3. ASSUME NEW r \in Requests, Log(r) \/ LogPanics(r) \/ Abandon(r)
      PROVE  NumbersUnique'
  <2>1. /\ UNCHANGED << nextSequenceID, seqOf >>
        /\ \A q \in Requests : hpc'[q] = "new" <=> hpc[q] = "new"
    BY <1>3 DEF Log, LogPanics, Abandon, TypeOK
  <2>2. QED
    BY <1>2, <2>1
<1>4. ASSUME UNCHANGED clientVars
      PROVE  NumbersUnique'
  BY <1>2, <1>4 DEF clientVars
<1>5. QED
  BY <1>1, <1>3, <1>4
     DEF Next, Client, Worker, Receive, Handle, InSequence, Park, FailOpen, Drain, Flush,
         DrainBreak, EndOfEntries, CloseStorage, CloseEntries, Terminated, vars

-----------------------------------------------------------------------------
(* When the order is given up *)

\* Every entry that is parked or in hand when the map is found full has a number
\* above expectedSeq: the numbers below are those of the decided entries, and
\* expectedSeq itself is neither in the map nor in hand.
LEMMA OverflowHolds ==
  ASSUME OrderInv, NumbersUnique, NoneReady, ~failedOpen,
         NEW r \in Requests, FailOpen(r)
  PROVE  pendingEntries \cup {r} \subseteq HeldBack
<1>1. /\ r \in inHand /\ wpc = "handle" /\ seqOf[r] # expectedSeq
  BY DEF FailOpen, Handle
<1>2. /\ TypeOK /\ Numbering /\ Accounted /\ AccountInv
      /\ { seqOf[q] : q \in Decided } = 0..(expectedSeq - 1)
  BY <1>1 DEF OrderInv, AccountInv, TypeInv, InSequenceOrder
<1>3. SUFFICES ASSUME NEW p \in pendingEntries \cup {r}
               PROVE  p \in HeldBack
  OBVIOUS
<1>4. /\ p \in Logged \ Decided /\ p \in Requests
      /\ seqOf[p] \in Nat /\ seqOf[p] # expectedSeq
  BY <1>1, <1>2 DEF Accounted, Numbering, NoneReady, TypeOK
<1>5. ~(seqOf[p] < expectedSeq)
  <2> SUFFICES ASSUME seqOf[p] < expectedSeq
      PROVE  FALSE
    OBVIOUS
  <2>1. seqOf[p] \in 0..(expectedSeq - 1)
    BY <1>2, <1>4 DEF TypeOK
  <2>2. PICK d \in Decided : seqOf[d] = seqOf[p]
    BY <1>2, <2>1
  <2>3. d \in Requests
    BY <1>2, <2>2, DecidedLogged
  <2>4. d = p
    BY <1>4, <2>2, <2>3 DEF NumbersUnique
  <2>5. QED
    BY <1>4, <2>2, <2>4
<1>6. QED
  BY <1>2, <1>4, <1>5 DEF HeldBack, TypeOK

\* The order is given up only when more entries wait for an earlier number than
\* the map can take, for any number of requests and any size of the map.
THEOREM OrderKeptWhileRoom ==
  ASSUME Faults \subseteq {"reject"}
  PROVE  Spec => GivesUpOnlyWhenFull
<1> DEFINE Inv == RefineInv /\ NoneReady /\ PendingInv
           Step == ~failedOpen /\ failedOpen' => Cardinality(HeldBack) > MaxPending
<1>1. Init => Inv
  BY ReadyInit, OrderInit, NumbersInit, PendingInit DEF RefineInv
<1>2. Inv /\ [Next]_vars => Inv'
  BY ReadyStep, OrderStep, NumbersStep, PendingStep
     DEF RefineInv, OrderInv, AccountInv, TypeInv
<1>3. Inv /\ [Next]_vars => [Step]_vars
  <2> SUFFICES ASSUME Inv, [Next]_vars, ~failedOpen, failedOpen'
      PROVE  Cardinality(HeldBack) > MaxPending
    OBVIOUS
  <2>1. PICK r \in Requests : FailOpen(r)
    BY DEF Next, Client, GetNextSequenceID, Log, LogPanics, Abandon, Worker, Receive,
           InSequence, Park, Drain, Flush, DrainBreak, EndOfEntries, CloseStorage,
           CloseEntries, Terminated, vars, workerVars
  <2>2. pendingEntries \cup {r} \subseteq HeldBack
    BY <2>1, OverflowHolds DEF RefineInv
  <2>3. /\ IsFiniteSet(pendingEntries) /\ Cardinality(pendingEntries) >= MaxPending
        /\ r \notin pendingEntries
    BY <2>1 DEF PendingInv, FailOpen, Handle, RefineInv, OrderInv, AccountInv, Accounted
  <2>4. /\ IsFiniteSet(pendingEntries \cup {r})
        /\ Cardinality(pendingEntries \cup {r}) = Cardinality(pendingEntries) + 1
    BY <2>3, FS_AddElement
  <2>5. HeldBack \subseteq Abstract!Numbered
    BY DEF HeldBack, Logged, RefineInv, OrderInv, AccountInv, TypeInv, Numbering,
           Abstract!Numbered
  <2>6. IsFiniteSet(HeldBack)
    BY <2>5, FS_Subset DEF RefineInv, NumbersUnique
  <2>7. Cardinality(pendingEntries \cup {r}) <= Cardinality(HeldBack)
    BY <2>2, <2>6, FS_Subset
  <2>8. /\ Cardinality(pendingEntries) \in Nat /\ Cardinality(HeldBack) \in Nat
        /\ MaxPending \in Nat
    BY <2>3, <2>6, FS_CardinalityType, MaxPendingAssumption
  <2>9. QED
    BY <2>3, <2>4, <2>7, <2>8
<1> HIDE DEF Inv, Step
<1>4. Spec => [][Step]_vars
  BY <1>1, <1>2, <1>3, PTL DEF Spec
<1>5. QED
  BY <1>4 DEF GivesUpOnlyWhenFull, Step

-----------------------------------------------------------------------------
(* The state of the log *)

\* In a chain every part is a line: the log is done with what the worker has
\* decided, and continues from prevHash.
LEMMA LogState ==
  ASSUME ChainLinked
  PROVE  Abstract!Done = Decided /\ Abstract!LastHash = prevHash
<1>1. \A i \in 1..Len(file) : file[i].kind = "line"
  BY DEF ChainLinked, Chained
<1>2. Written = { file[i].req : i \in 1..Len(file) }
  BY <1>1 DEF Written
<1>3. Abstract!Done = Decided
  BY <1>2 DEF Abstract!Done, Decided
<1>4. Abstract!LastHash = prevHash
  BY DEF ChainLinked, Abstract!LastHash, Genesis, Abstract!Genesis
<1>5. QED
  BY <1>3, <1>4

\* While the order is kept, the expected entry is the one whose turn it is:
\* what is done are exactly the entries with lower numbers.
LEMMA ExpectedHasTurn ==
  ASSUME RefineInv, ~failedOpen, wpc \in {"handle", "drain"},
         NEW r \in Requests, seqOf[r] = expectedSeq
  PROVE  Abstract!Turn(r)
<1>1. /\ TypeOK /\ ChainLinked /\ AccountInv /\ NumbersUnique
      /\ { seqOf[q] : q \in Decided } = 0..(expectedSeq - 1)
  BY DEF RefineInv, OrderInv, AccountInv, TypeInv, InSequenceOrder
<1>2. expectedSeq \in Nat /\ seqOf \in [Requests -> Nat \cup {-1}]
  BY <1>1 DEF TypeOK, Unnumbered
<1>3. ASSUME NEW q \in Abstract!Numbered, seqOf[q] < seqOf[r]
      PROVE  q \in Decided
  <2>1. q \in Requests /\ seqOf[q] \in 0..(expectedSeq - 1)
    BY <1>2, <1>3 DEF Abstract!Numbered
  <2>2. PICK d \in Decided : seqOf[d] = seqOf[q]
    BY <1>1, <2>1
  <2>3. d \in Requests /\ seqOf[d] \in Nat
    BY <1>1, <2>1, <2>2, DecidedLogged
  <2>4. QED
    BY <1>1, <2>1, <2>2, <2>3 DEF NumbersUnique
<1>4. ASSUME NEW d \in Decided
      PROVE  d \in Abstract!Numbered /\ seqOf[d] < seqOf[r]
  <2>1. d \in Requests /\ seqOf[d] \in 0..(expectedSeq - 1)
    BY <1>1, DecidedLogged
  <2>2. QED
    BY <1>2, <2>1 DEF Abstract!Numbered
<1>5. QED
  BY <1>1, <1>3, <1>4, LogState DEF Abstract!Turn

Relaxed == failedOpen \/ wpc \in {"flush", "done"}

\* processEntry records or refuses its entry, in its turn or out of order.
LEMMA ProcessDecides ==
  ASSUME Faults \subseteq {"reject"}, ChainLinked, NEW r \in Requests,
         ProcessEntry(r), UNCHANGED clientVars,
         r \in Logged, r \notin Decided,
         Relaxed => Relaxed', Abstract!Turn(r) \/ Relaxed'
  PROVE  Abstract!Record(r) \/ Abstract!Refuse(r)
<1>1. Logged' = Logged /\ seqOf' = seqOf
  BY DEF clientVars, Logged
<1>2. Abstract!Decide(r)
  BY <1>1, LogState DEF Abstract!Decide, Relaxed
<1>3. CASE file' = Append(file, Line(r, seqOf[r], prevHash)) /\ refused' = refused
  BY <1>2, <1>3, LogState
     DEF Abstract!Record, Line, Abstract!Line, Hash, Abstract!Hash
<1>4. CASE file' = file /\ refused' = refused \cup {r}
  BY <1>2, <1>4 DEF Abstract!Refuse
<1>5. QED
  BY <1>3, <1>4, ProcessEntryEffect

-----------------------------------------------------------------------------
(* The refinement *)

LEMMA RefineInitially == Init => Abstract!Init
<1> SUFFICES ASSUME Init PROVE Abstract!Init
  OBVIOUS
<1>1. /\ seqOf = [r \in Requests |-> -1] /\ hpc = [r \in Requests |-> "new"]
      /\ file = << >> /\ refused = {} /\ ~failedOpen /\ wpc = "recv"
  BY DEF Init, ClientInit, StorageInit, WorkerInit, Unnumbered
<1>2. Logged = {}
  BY <1>1 DEF Logged
<1>3. QED
  BY <1>1, <1>2 DEF Abstract!Init

LEMMA RefineStep ==
  ASSUME Faults \subseteq {"reject"}
  PROVE  RefineInv /\ [Next]_vars => [Abstract!Next]_(Abstract!logVars)
<1> SUFFICES ASSUME RefineInv, [Next]_vars
    PROVE  Abstract!Next \/ UNCHANGED Abstract!logVars
  OBVIOUS
<1>0. /\ TypeOK /\ Numbering /\ ChainLinked /\ Accounted /\ NumbersUnique
      /\ NotQueuedTwice
  BY DEF RefineInv, OrderInv, AccountInv, TypeInv, Accounted, NotQueuedTwice
<1>1. ASSUME NEW r \in Requests, GetNextSequenceID(r)
      PROVE  Abstract!Number(r)
  <2>1. r \notin Abstract!Numbered
    BY <1>0, <1>1, NumberAdds
  <2>2. Cardinality(Abstract!Numbered) = Abstract!Cardinality(Abstract!Numbered)
    BY Zenon DEF Cardinality, Abstract!Cardinality
  <2>3. seqOf' = [seqOf EXCEPT ![r] = Abstract!Cardinality(Abstract!Numbered)]
    BY <1>0, <1>1, <2>2 DEF GetNextSequenceID, NumbersUnique
  <2>4. Logged' = Logged
    BY <1>0, <1>1 DEF GetNextSequenceID, Logged, TypeOK
  <2>5. QED
    BY <1>1, <2>1, <2>3, <2>4
       DEF GetNextSequenceID, Abstract!Number, workerVars, storageVars
<1>2. ASSUME NEW r \in Requests, Log(r)
      PROVE  Abstract!Submit(r)
  <2>1. r \notin Logged /\ Logged' = Logged \cup {r}
    BY <1>0, <1>2 DEF Log, Logged, TypeOK
  <2>2. seqOf[r] \in Nat
    BY <1>0, <1>2 DEF Log, Numbering
  <2>3. r \in Abstract!Numbered
    BY <2>2 DEF Abstract!Numbered
  <2>4. QED
    BY <1>2, <2>1, <2>3 DEF Log, Abstract!Submit, storageVars
<1>3. ASSUME NEW r \in Requests, LogPanics(r) \/ Abandon(r)
      PROVE  UNCHANGED Abstract!logVars
  <2>1. Logged' = Logged
    BY <1>0, <1>3 DEF LogPanics, Abandon, Logged, TypeOK
  <2>2. QED
    BY <1>3, <2>1
       DEF LogPanics, Abandon, Abstract!logVars, workerVars, storageVars
<1>4. ASSUME NEW r \in Requests, Handle(r)
      PROVE  r \in Logged /\ r \notin Decided /\ UNCHANGED clientVars
  BY <1>0, <1>4 DEF Accounted, Handle
<1>5. ASSUME NEW r \in Requests, InSequence(r)
      PROVE  Abstract!Record(r) \/ Abstract!Refuse(r)
  <2>1. /\ Handle(r) /\ ProcessEntry(r) /\ seqOf[r] = expectedSeq
        /\ wpc = "handle" /\ wpc' = "drain" /\ failedOpen' = failedOpen
    BY <1>5 DEF InSequence, Handle
  <2>2. Relaxed => Relaxed'
    BY <2>1 DEF Relaxed
  <2>3. Abstract!Turn(r) \/ Relaxed'
    BY <2>1, ExpectedHasTurn DEF Relaxed
  <2>4. QED
    BY <1>0, <1>4, <2>1, <2>2, <2>3, ProcessDecides
<1>6. ASSUME NEW r \in Requests, FailOpen(r)
      PROVE  Abstract!Record(r) \/ Abstract!Refuse(r)
  <2>1. Handle(r) /\ ProcessEntry(r) /\ failedOpen'
    BY <1>6 DEF FailOpen
  <2>2. QED
    BY <1>0, <1>4, <2>1, ProcessDecides DEF Relaxed
<1>7. ASSUME NEW r \in Requests, Drain(r)
      PROVE  Abstract!Record(r) \/ Abstract!Refuse(r)
  <2>1. /\ r \in pendingEntries /\ ProcessEntry(r) /\ seqOf[r] = expectedSeq
        /\ wpc = "drain" /\ UNCHANGED << clientVars, wpc, failedOpen >>
    BY <1>7 DEF Drain
  <2>2. r \in Logged /\ r \notin Decided
    BY <1>0, <2>1 DEF Accounted
  <2>3. Relaxed => Relaxed'
    BY <2>1 DEF Relaxed
  <2>4. Abstract!Turn(r) \/ Relaxed'
    BY <2>1, ExpectedHasTurn DEF Relaxed
  <2>5. QED
    BY <1>0, <2>1, <2>2, <2>3, <2>4, ProcessDecides
<1>8. ASSUME NEW r \in Requests, Flush(r)
      PROVE  Abstract!Record(r) \/ Abstract!Refuse(r)
  <2>1. /\ r \in pendingEntries /\ ProcessEntry(r)
        /\ wpc = "flush" /\ UNCHANGED << clientVars, wpc >>
    BY <1>8 DEF Flush
  <2>2. r \in Logged /\ r \notin Decided
    BY <1>0, <2>1 DEF Accounted
  <2>3. QED
    BY <1>0, <2>1, <2>2, ProcessDecides DEF Relaxed
<1>9. CASE EndOfEntries
  <2>1. Relaxed' /\ UNCHANGED << clientVars, file, refused >>
    BY <1>9 DEF EndOfEntries, Relaxed, storageVars
  <2>2. QED
    BY <2>1 DEF Abstract!Next, Abstract!GiveUpOrder, Relaxed, clientVars, Logged
<1>10. ASSUME \/ \E r \in Requests : Receive(r) \/ Park(r)
              \/ DrainBreak \/ CloseStorage \/ CloseEntries \/ UNCHANGED vars
       PROVE  UNCHANGED Abstract!logVars
  <2>1. UNCHANGED << clientVars, file, refused >> /\ Relaxed' = Relaxed
    BY <1>10 DEF Park, Handle, Receive, DrainBreak, CloseStorage, CloseEntries, vars,
                 clientVars, workerVars, storageVars, Relaxed
  <2>2. QED
    BY <2>1 DEF Abstract!logVars, Relaxed, clientVars, Logged
<1>11. QED
  BY <1>1, <1>2, <1>3, <1>5, <1>6, <1>7, <1>8, <1>9, <1>10
     DEF Next, Client, Worker, Terminated, Abstract!Next

\* The worker implements the log of module AuditLog, which has no channel, no
\* map and no goroutine: entries are recorded once each, at the end of one
\* chain, and in their turn until an overflow or the shutdown gives the order
\* up; if a Write that returns an error has left the file alone.
THEOREM WorkerImplementsLog ==
  ASSUME Faults \subseteq {"reject"}
  PROVE  Spec => ImplementsAuditLog
<1>1. Init => RefineInv /\ Abstract!Init
  BY OrderInit, NumbersInit, RefineInitially DEF RefineInv
<1>2. RefineInv /\ [Next]_vars => RefineInv'
  BY OrderStep, NumbersStep DEF RefineInv, OrderInv, AccountInv, TypeInv
<1>3. RefineInv /\ [Next]_vars => [Abstract!Next]_(Abstract!logVars)
  BY RefineStep
<1>4. QED
  BY <1>1, <1>2, <1>3, PTL DEF Spec, ImplementsAuditLog, Abstract!Spec

-----------------------------------------------------------------------------
(* The proxy uses the worker as specified *)

\* Each way to record an entry is a step of a client.
LEMMA RecordsIsClient ==
  ASSUME NEW r \in Requests, Records(r)
  PROVE  Next
  BY DEF Records, Next, Client

\* Every step of the proxy is a step of the worker's specification, or leaves
\* the worker and its clients alone.
LEMMA ProxyStepRefines == [ProxyNext]_allVars => [Next]_vars
<1> SUFFICES ASSUME [ProxyNext]_allVars
    PROVE  [Next]_vars
  OBVIOUS
<1>1. ASSUME NEW r \in Requests, Upstream(r)
      PROVE  [Next]_vars
  BY <1>1 DEF Upstream, Accept, RegularBreaks, RegularAnswered, StreamStarts, StreamEnds,
              StreamBreaks, Next, Client
<1>2. ASSUME NEW r \in Requests, Proceeds(r)
      PROVE  [Next]_vars
  BY <1>2, RecordsIsClient
     DEF Proceeds, RegularRecords, StreamRecords, MonitorWakes, MonitorRecords
<1>3. CASE WorkerRuns
  BY <1>3 DEF WorkerRuns, Next
<1>4. CASE Main
  BY <1>4 DEF Main, Signal, ServerDrained, ShutdownTimeout, Exit, Next
<1>5. CASE UNCHANGED allVars
  BY <1>5 DEF allVars
<1>6. QED
  BY <1>1, <1>2, <1>3, <1>4, <1>5 DEF ProxyNext

\* So a behaviour of the proxy is one of the worker.
LEMMA ProxyUsesWorker == ProxySpec => Spec
<1>1. ProxyInit => Init
  BY DEF ProxyInit
<1>2. [ProxyNext]_allVars => [Next]_vars
  BY ProxyStepRefines
<1>3. QED
  BY <1>1, <1>2, PTL DEF ProxySpec, Spec

\* What is proved of the worker holds in the proxy.
THEOREM ProxyKeepsLog ==
  ASSUME Faults \subseteq {"reject"}
  PROVE  ProxySpec => [](ChainLinked /\ Accounted /\ ShutdownFlushes)
<1>1. ProxySpec => Spec
  BY ProxyUsesWorker
<1>2. QED
  BY <1>1, ChainUnbroken, EntriesAccounted, FlushedAtShutdown, PTL

\* The proxy as a whole, with its handlers, monitors and shutdown, implements
\* the log of module AuditLog.
THEOREM ProxyImplementsLog ==
  ASSUME Faults \subseteq {"reject"}
  PROVE  ProxySpec => ImplementsAuditLog
<1>1. ProxySpec => Spec
  BY ProxyUsesWorker
<1>2. QED
  BY <1>1, WorkerImplementsLog

-----------------------------------------------------------------------------
(* Types *)

LEMMA StagesTypeStep == StagesTypeOK /\ [ProxyNext]_allVars => StagesTypeOK'
<1> SUFFICES ASSUME StagesTypeOK, [ProxyNext]_allVars
    PROVE  StagesTypeOK'
  OBVIOUS
<1>1. ASSUME NEW r \in Requests, Accept(r) \/ RegularBreaks(r) \/ RegularAnswered(r)
                                   \/ RegularRecords(r)
      PROVE  StagesTypeOK'
  BY <1>1 DEF Accept, RegularBreaks, RegularAnswered, RegularRecords, Goto, StagesTypeOK
<1>2. ASSUME NEW r \in Requests, StreamStarts(r) \/ StreamEnds(r) \/ StreamBreaks(r)
                                   \/ StreamRecords(r)
      PROVE  StagesTypeOK'
  BY <1>2 DEF StreamStarts, StreamEnds, StreamBreaks, StreamRecords, Goto, StagesTypeOK
<1>3. ASSUME NEW r \in Requests, MonitorWakes(r) \/ MonitorRecords(r)
      PROVE  StagesTypeOK'
  BY <1>3 DEF MonitorWakes, MonitorRecords, StagesTypeOK
<1>4. CASE WorkerRuns \/ UNCHANGED allVars
  BY <1>4 DEF WorkerRuns, allVars, proxyVars, StagesTypeOK
<1>5. CASE Main
  BY <1>5 DEF Main, Signal, ServerDrained, ShutdownTimeout, Exit, StagesTypeOK
<1>6. QED
  BY <1>1, <1>2, <1>3, <1>4, <1>5 DEF ProxyNext, Upstream, Proceeds

\* Every reachable state of the proxy has its type, the worker's part too.
THEOREM ProxyTypeCorrect == ProxySpec => []ProxyTypeOK
<1>1. ProxyInit => StagesTypeOK
  BY DEF ProxyInit, StagesTypeOK
<1>2. StagesTypeOK /\ [ProxyNext]_allVars => StagesTypeOK'
  BY StagesTypeStep
<1>3. TypeOK /\ StagesTypeOK => ProxyTypeOK
  BY DEF ProxyTypeOK
<1>4. ProxySpec => []TypeOK
  BY ProxyUsesWorker, TypeCorrect, PTL
<1>5. QED
  BY <1>1, <1>2, <1>3, <1>4, PTL DEF ProxySpec
-----------------------------------------------------------------------------
(* An orderly shutdown *)

\* What main knows when it closes the channel: nothing is closed before, and
\* if the server drained in time no handler is running, nor will one.
MainInOrder ==
  /\ mainpc \in {"running", "draining"} => ~closed /\ ~timedOut
  /\ mainpc \in {"flushing", "exit"} /\ ~timedOut =>
       \A r \in Requests : stage[r] \in {"idle", "returned"}
  /\ mainpc = "exit" => wpc = "done"

\* How far the entry of a request is, from where its handler is.
HandlersInOrder ==
  /\ \A r \in Requests : hpc[r] = "new" => seqOf[r] = Unnumbered
  /\ \A r \in Regular :
       /\ stage[r] \in {"idle", "proxying"} => hpc[r] = "new"
       /\ stage[r] = "returned" => hpc[r] \in {"new", "logged", "panicked"}
       /\ stage[r] \notin {"streaming", "recording"}
  /\ \A r \in Streams :
       /\ stage[r] = "idle" <=> monitor[r] = "none"
       /\ monitor[r] = "none" => recorder[r] = "none"
       /\ monitor[r] = "recording" => recorder[r] = "monitor"
       /\ recorder[r] = "handler" => stage[r] \in {"recording", "returned"}
       /\ recorder[r] = "handler" /\ stage[r] = "returned" =>
            hpc[r] \in {"logged", "panicked"}

ShutdownInv == StagesTypeOK /\ MainInOrder /\ HandlersInOrder /\ OnlyMonitorsFindClosed

\* The worker touches neither its clients nor the channel's end, and does
\* nothing once run has returned.
LEMMA WorkerLeavesClients ==
  ASSUME Worker
  PROVE  UNCHANGED clientVars /\ closed' = closed /\ wpc # "done"
  BY DEF Worker, Receive, Handle, InSequence, Park, FailOpen, Drain, Flush, DrainBreak,
         EndOfEntries, CloseStorage

\* What recording does to the clients: the entry is logged, or lost in a panic
\* that only a closed channel or malformed data cause.
LEMMA RecordsEffect ==
  ASSUME TypeOK, NEW r \in Requests, Records(r)
  PROVE  /\ hpc[r] = "numbered"
         /\ UNCHANGED << seqOf, closed, wpc >>
         /\ \/ hpc' = [hpc EXCEPT ![r] = "logged"]
            \/ hpc' = [hpc EXCEPT ![r] = "panicked"] /\ (closed \/ r \in Malformed)
  BY DEF Records, Log, LogPanics, Abandon, workerVars

LEMMA ShutdownInvInit == ProxyInit => ShutdownInv
<1> SUFFICES ASSUME ProxyInit
    PROVE  ShutdownInv
  OBVIOUS
<1> USE StreamsAssumption DEF ProxyInit, Init, ClientInit
<1>1. StagesTypeOK
  BY DEF StagesTypeOK
<1>2. MainInOrder
  BY DEF WorkerInit, MainInOrder
<1>3. HandlersInOrder
  BY DEF HandlersInOrder, Regular
<1>4. OnlyMonitorsFindClosed
  BY DEF OnlyMonitorsFindClosed
<1>5. QED
  BY <1>1, <1>2, <1>3, <1>4 DEF ShutdownInv

LEMMA ShutdownInvStep == TypeOK /\ ShutdownInv /\ [ProxyNext]_allVars => ShutdownInv'
<1> SUFFICES ASSUME TypeOK, ShutdownInv, [ProxyNext]_allVars
    PROVE  ShutdownInv'
  OBVIOUS
<1> USE StreamsAssumption DEF ShutdownInv, Regular
<1>0. StagesTypeOK'
  BY StagesTypeStep
<1>1. ASSUME NEW r \in Requests, Accept(r) \/ RegularBreaks(r)
      PROVE  ShutdownInv'
  <2>1. /\ r \in Regular /\ stage[r] \in {"idle", "proxying"}
        /\ \/ Serving /\ stage' = [stage EXCEPT ![r] = "proxying"]
           \/ stage[r] = "proxying" /\ stage' = [stage EXCEPT ![r] = "returned"]
        /\ UNCHANGED << hpc, seqOf, closed, wpc, monitor, recorder, mainpc, timedOut >>
    BY <1>1 DEF Accept, RegularBreaks, Goto, vars, clientVars, workerVars
  <2>2. MainInOrder'
    BY <2>1 DEF MainInOrder, StagesTypeOK, Serving
  <2>3. HandlersInOrder'
    BY <2>1 DEF HandlersInOrder, StagesTypeOK
  <2>4. QED
    BY <1>0, <2>1, <2>2, <2>3 DEF OnlyMonitorsFindClosed
<1>2. ASSUME NEW r \in Requests, RegularAnswered(r) \/ StreamStarts(r)
      PROVE  ShutdownInv'
  <2>1. /\ hpc[r] = "new" /\ hpc' = [hpc EXCEPT ![r] = "numbered"]
        /\ seqOf' = [seqOf EXCEPT ![r] = nextSequenceID]
        /\ UNCHANGED << closed, wpc, recorder, mainpc, timedOut >>
        /\ \/ /\ r \in Regular /\ stage[r] = "proxying"
              /\ stage' = [stage EXCEPT ![r] = "answered"]
              /\ UNCHANGED monitor
           \/ /\ r \in Streams /\ Serving /\ stage[r] = "idle"
              /\ stage' = [stage EXCEPT ![r] = "streaming"]
              /\ monitor' = [monitor EXCEPT ![r] = "waiting"]
    BY <1>2 DEF RegularAnswered, StreamStarts, Goto, GetNextSequenceID, workerVars
  <2>2. MainInOrder'
    BY <2>1 DEF MainInOrder, StagesTypeOK, Serving
  <2>3. HandlersInOrder'
    BY <2>1 DEF HandlersInOrder, StagesTypeOK, TypeOK
  <2>4. QED
    BY <1>0, <2>1, <2>2, <2>3 DEF OnlyMonitorsFindClosed, TypeOK
<1>3. ASSUME NEW r \in Requests, RegularRecords(r) \/ StreamRecords(r)
      PROVE  ShutdownInv'
  <2>1. /\ Records(r)
        /\ stage[r] \in {"answered", "recording"}
        /\ r \in Streams => recorder[r] = "handler"
        /\ stage' = [stage EXCEPT ![r] = "returned"]
        /\ UNCHANGED << monitor, recorder, mainpc, timedOut >>
    BY <1>3 DEF RegularRecords, StreamRecords, Goto
  <2>2. /\ hpc[r] = "numbered"
        /\ UNCHANGED << seqOf, closed, wpc >>
        /\ \/ hpc' = [hpc EXCEPT ![r] = "logged"]
           \/ hpc' = [hpc EXCEPT ![r] = "panicked"] /\ (closed \/ r \in Malformed)
    BY <2>1, RecordsEffect
  <2>3. MainInOrder'
    BY <2>1, <2>2 DEF MainInOrder, StagesTypeOK
  <2>4. HandlersInOrder'
    BY <2>1, <2>2 DEF HandlersInOrder, StagesTypeOK, TypeOK
  <2>5. closed => timedOut
    BY <2>1 DEF MainInOrder, StagesTypeOK
  <2>6. OnlyMonitorsFindClosed'
    BY <2>1, <2>2, <2>5 DEF OnlyMonitorsFindClosed, TypeOK
  <2>7. QED
    BY <1>0, <2>3, <2>4, <2>6
<1>4. ASSUME NEW r \in Requests, StreamEnds(r) \/ StreamBreaks(r)
      PROVE  ShutdownInv'
  <2>1. /\ r \in Streams /\ stage[r] = "streaming"
        /\ UNCHANGED << hpc, seqOf, closed, wpc, monitor, mainpc, timedOut >>
        /\ \/ /\ recorder[r] = "none"
              /\ stage' = [stage EXCEPT ![r] = "recording"]
              /\ recorder' = [recorder EXCEPT ![r] = "handler"]
           \/ stage' = [stage EXCEPT ![r] = "returned"] /\ UNCHANGED recorder
    BY <1>4 DEF StreamEnds, StreamBreaks, Goto, vars, clientVars, workerVars
  <2>2. MainInOrder'
    BY <2>1 DEF MainInOrder, StagesTypeOK
  <2>3. HandlersInOrder'
    BY <2>1 DEF HandlersInOrder, StagesTypeOK
  <2>4. OnlyMonitorsFindClosed'
    BY <2>1 DEF OnlyMonitorsFindClosed, StagesTypeOK
  <2>5. QED
    BY <1>0, <2>2, <2>3, <2>4
<1>5. ASSUME NEW r \in Requests, MonitorWakes(r)
      PROVE  ShutdownInv'
  <2>1. /\ r \in Streams /\ monitor[r] = "waiting"
        /\ UNCHANGED << hpc, seqOf, closed, wpc, stage, mainpc, timedOut >>
        /\ \/ /\ recorder[r] = "none"
              /\ recorder' = [recorder EXCEPT ![r] = "monitor"]
              /\ monitor' = [monitor EXCEPT ![r] = "recording"]
           \/ /\ monitor' = [monitor EXCEPT ![r] = "gone"]
              /\ UNCHANGED recorder
    BY <1>5 DEF MonitorWakes, vars, clientVars, workerVars
  <2>2. MainInOrder'
    BY <2>1 DEF MainInOrder
  <2>3. HandlersInOrder'
    BY <2>1 DEF HandlersInOrder, StagesTypeOK
  <2>4. OnlyMonitorsFindClosed'
    BY <2>1 DEF OnlyMonitorsFindClosed, StagesTypeOK
  <2>5. QED
    BY <1>0, <2>2, <2>3, <2>4
<1>6. ASSUME NEW r \in Requests, MonitorRecords(r)
      PROVE  ShutdownInv'
  <2>1. /\ r \in Streams /\ monitor[r] = "recording" /\ recorder[r] = "monitor"
        /\ Records(r)
        /\ monitor' = [monitor EXCEPT ![r] = "gone"]
        /\ UNCHANGED << stage, recorder, mainpc, timedOut >>
    BY <1>6 DEF MonitorRecords, HandlersInOrder
  <2>2. /\ hpc[r] = "numbered"
        /\ UNCHANGED << seqOf, closed, wpc >>
        /\ hpc' \in { [hpc EXCEPT ![r] = "logged"], [hpc EXCEPT ![r] = "panicked"] }
    BY <2>1, RecordsEffect
  <2>3. MainInOrder'
    BY <2>1, <2>2 DEF MainInOrder
  <2>4. HandlersInOrder'
    BY <2>1, <2>2 DEF HandlersInOrder, StagesTypeOK, TypeOK
  <2>5. OnlyMonitorsFindClosed'
    BY <2>1, <2>2 DEF OnlyMonitorsFindClosed, TypeOK
  <2>6. QED
    BY <1>0, <2>3, <2>4, <2>5
<1>7. CASE mainpc # "exit" /\ WorkerRuns
  <2>1. /\ mainpc # "exit"
        /\ UNCHANGED << hpc, seqOf, closed, stage, monitor, recorder, mainpc, timedOut >>
    BY <1>7, WorkerLeavesClients DEF WorkerRuns, clientVars, proxyVars
  <2>2. QED
    BY <1>0, <2>1 DEF MainInOrder, HandlersInOrder, OnlyMonitorsFindClosed
<1>8. CASE Main
  <2>1. /\ UNCHANGED << hpc, seqOf, wpc, stage, monitor, recorder >>
        /\ timedOut => timedOut'
    BY <1>8 DEF Main, Signal, ServerDrained, ShutdownTimeout, Exit, CloseEntries, vars,
                clientVars, workerVars
  <2>2. MainInOrder'
    BY <1>8, <2>1
       DEF Main, Signal, ServerDrained, ShutdownTimeout, Exit, CloseEntries, vars,
           workerVars, MainInOrder
  <2>3. QED
    BY <1>0, <2>1, <2>2 DEF HandlersInOrder, OnlyMonitorsFindClosed
<1>9. CASE UNCHANGED allVars
  BY <1>0, <1>9
     DEF allVars, vars, clientVars, workerVars, proxyVars, MainInOrder, HandlersInOrder,
         OnlyMonitorsFindClosed
<1>10. QED
  BY <1>1, <1>2, <1>3, <1>4, <1>5, <1>6, <1>7, <1>8, <1>9
     DEF ProxyNext, Upstream, Proceeds

\* The channel is closed under a goroutine that has an entry to send only after
\* a shutdown that timed out, or if that goroutine is a monitor.
THEOREM OnlyMonitorsLose == ProxySpec => []OnlyMonitorsFindClosed
<1>1. ProxySpec => []TypeOK
  BY ProxyUsesWorker, TypeCorrect, PTL
<1>2. ShutdownInv => OnlyMonitorsFindClosed
  BY DEF ShutdownInv
<1>3. QED
  BY <1>1, <1>2, ShutdownInvInit, ShutdownInvStep, PTL DEF ProxySpec

\* A shutdown that did not time out loses nothing a handler recorded: every
\* regular request that was answered and every stream the handler finalized is
\* written or refused before the process ends.
THEOREM ShutdownKeepsHandlersEntries ==
  ASSUME Faults \subseteq {"reject"}
  PROVE  ProxySpec => []HandlersRecorded
<1>1. ProxySpec => []TypeOK
  BY ProxyUsesWorker, TypeCorrect, PTL
<1>2. ProxySpec => []ShutdownFlushes
  BY ProxyUsesWorker, FlushedAtShutdown, PTL
<1>3. ShutdownInv /\ ShutdownFlushes => HandlersRecorded
  <2> SUFFICES ASSUME ShutdownInv, ShutdownFlushes, mainpc = "exit", ~timedOut,
                      NEW r \in Requests \ Malformed,
                      IF r \in Streams THEN recorder[r] = "handler"
                                       ELSE seqOf[r] # Unnumbered
               PROVE  r \in Decided
    BY DEF HandlersRecorded
  <2>1. wpc = "done" /\ stage[r] \in {"idle", "returned"}
    BY DEF ShutdownInv, MainInOrder
  <2>2. hpc[r] \in {"logged", "panicked"}
    BY <2>1 DEF ShutdownInv, HandlersInOrder, Regular
  <2>3. hpc[r] # "panicked"
    BY DEF ShutdownInv, OnlyMonitorsFindClosed
  <2>4. r \in Logged
    BY <2>2, <2>3 DEF Logged
  <2>5. QED
    BY <2>1, <2>4 DEF ShutdownFlushes
<1>4. QED
  BY <1>1, <1>2, <1>3, ShutdownInvInit, ShutdownInvStep, PTL DEF ProxySpec
=============================================================================
