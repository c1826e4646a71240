----------------------- MODULE ResponseCapturerProofs ------------------------
(***************************************************************************)
(* What is recorded of a stream, proved for every MaxSize and MaxBytes:    *)
(* types, one entry at most, and what its flags say.                       *)
(***************************************************************************)
EXTENDS ResponseCapturer, TLAPS

-----------------------------------------------------------------------------
(* The inductive invariant *)

HandlerCalls == hpc \in {"callback", "callbackErr"}
MonitorCalls == mpc = "callback"

\* Of handler and monitor one runs the callback, and while it goes on that one
\* waits for it; the entry is sent in its last step.
OneCallback ==
  /\ completed <=> cpc # "none"
  /\ cpc # "end" => logged = 0
  /\ HandlerCalls \/ MonitorCalls => cpc # "none"
  /\ ~(HandlerCalls /\ MonitorCalls)
  /\ cpc \notin {"none", "end"} => HandlerCalls \/ MonitorCalls

\* Only the handler that saw the end of the answer, or got none, finds the
\* stream complete; a 502 is not gzip and its handler does not panic.
Flow ==
  /\ hpc \in {"complete", "callback"} => ended \/ statusCode = 502
  /\ hpc = "request" => encoding = "identity"
  /\ statusCode = 502 => /\ encoding = "identity"
                         /\ hpc \in {"headers", "complete", "callback", "leave", "gone"}
  /\ hpc \in {"errLength", "errText", "finalizeErr", "callbackErr"} =>
       ~isComplete /\ writeErr
  /\ mpc # "wait" => ctx # "live"
  /\ mpc \in {"finalize", "callback"} => ~isComplete
  /\ errorText => hpc = "gone"

HasReason == errorMsg.length # NoError /\ errorMsg.text # NoError

\* Whoever marks the stream incomplete stores both words of the reason before
\* it finalizes.
ReasonStored ==
  /\ mpc = "text" \/ hpc = "errText" => errorMsg.length # NoError
  /\ mpc \in {"incomplete", "finalize", "callback"} => HasReason
  /\ hpc \in {"finalizeErr", "callbackErr"} => HasReason
  /\ ~isComplete => HasReason \/ hpc \in {"errLength", "errText"}

\* A word is that of a reason there was.
Founded(word) ==
  /\ word = "STREAM_TIMEOUT" => ctx = "deadline"
  /\ word = "CLIENT_DISCONNECT" => ctx = "canceled"
  /\ word = "WRITE_ERROR" => writeErr

ReasonsFounded == Founded(errorMsg.length) /\ Founded(errorMsg.text)

\* What IncompleteHasReason asks of the error.
Explained(error) ==
  /\ error # NoError
  /\ error = "STREAM_TIMEOUT" => ctx = "deadline"
  /\ error = "WRITE_ERROR" => writeErr
  /\ error = GarbledError => writeErr /\ ctx # "live"

\* The entry's flags as far as they have been read.
FlagsRead ==
  /\ entry.complete => /\ ended \/ statusCode = 502
                       /\ hpc \in {"callback", "leave", "gone"}
                       /\ ~errorText
  /\ entry.complete /\ cpc # "end" => hpc = "callback"
  /\ cpc = "error" /\ ~entry.complete => HasReason
  /\ cpc \in {"truncated", "size", "log"} \/ logged > 0 =>
       entry.complete \/ Explained(entry.error)

\* How far the Write under way has brought what is captured.
Captured ==
  /\ hpc \in {"append", "size", "beyond"} => currentSize + chunk = delivered
  /\ hpc \notin {"append", "size", "beyond"} => currentSize = delivered
  /\ hpc \in {"append", "size"} => currentSize < MaxSize
  /\ hpc = "beyond" => currentSize >= MaxSize
  /\ hpc \notin {"append", "size", "flag"} => (truncated <=> currentSize >= MaxSize)
  /\ hpc \in {"append", "size", "flag"} => ~truncated
  /\ body = Smaller(IF hpc \in {"size", "flag"} THEN delivered ELSE currentSize,
                    MaxSize)

\* What a callback that nobody disturbs has read, step by step.
EntryRead ==
  hpc = "callback" \/ entry.complete =>
    /\ cpc \notin {"none", "body"} => entry.body = body
    /\ cpc \notin {"none", "body", "mark"} => entry.marked = truncated
    /\ cpc \notin {"none", "body", "mark", "decode"} =>
         (entry.raw <=> encoding = "gzip" /\ body # 0 /\ truncated)
    /\ cpc \in {"markAgain", "status", "headers"} =>
         (entry.decompressed <=> encoding = "gzip" /\ body # 0 /\ ~truncated)
    /\ cpc \in {"headers", "complete", "error", "truncated", "size", "log"}
         \/ logged > 0 => entry.status = statusCode
    /\ cpc \in {"complete", "error", "truncated", "size", "log"} \/ logged > 0 =>
         (entry.encoding = "gzip" /\ body # 0 <=> entry.raw)
    /\ cpc \in {"size", "log"} \/ logged > 0 => entry.truncated = truncated
    /\ cpc = "log" \/ logged > 0 => entry.size = currentSize

IInv ==
  /\ TypeOK /\ OneCallback /\ Flow /\ ReasonStored /\ ReasonsFounded /\ FlagsRead
  /\ Captured /\ EntryRead

-----------------------------------------------------------------------------
(* Reads and flags *)

\* The flags that finalize, a failed Write and the monitor set stay flags.
LEMMA FlagsTyped ==
  /\ WriteFails => isComplete' \in BOOLEAN /\ writeErr' \in BOOLEAN
  /\ MarkIncomplete => isComplete' \in BOOLEAN
  /\ TypeOK /\ (Swap \/ NoSwap) => completed' \in BOOLEAN
  /\ ReadHeaders \/ Decompress => fatal' \in BOOLEAN
<1>1. WriteFails => isComplete' \in BOOLEAN /\ writeErr' \in BOOLEAN
  BY Zenon DEF WriteFails
<1>2. MarkIncomplete => isComplete' \in BOOLEAN
  BY Zenon DEF MarkIncomplete
<1>3. ASSUME TypeOK, Swap \/ NoSwap PROVE completed' \in BOOLEAN
  <2>1. completed \in BOOLEAN
    BY <1>3 DEF TypeOK
  <2>2. completed' = TRUE \/ completed' = completed
    BY <1>3 DEF Swap, NoSwap
  <2>3. QED
    BY <2>1, <2>2, Zenon
<1>4. ReadHeaders \/ Decompress => fatal' \in BOOLEAN
  BY Zenon DEF ReadHeaders, Decompress
<1>5. QED
  BY <1>1, <1>2, <1>3, <1>4

\* So do those that tell what the client got in the end.
LEMMA ClientFlagsTyped ==
  TypeOK /\ (Leave \/ Recover) => finished' \in BOOLEAN /\ errorText' \in BOOLEAN
<1> SUFFICES ASSUME TypeOK, Leave \/ Recover
             PROVE finished' \in BOOLEAN /\ errorText' \in BOOLEAN
  OBVIOUS
<1>1. finished \in BOOLEAN /\ errorText \in BOOLEAN
  BY DEF TypeOK
<1>2. (~clientGone /\ ~writeErr) \in BOOLEAN
  BY Zenon
<1>3. finished' \in {finished, (~clientGone /\ ~writeErr)}
  BY Zenon DEF Leave, Recover
<1>4. errorText' \in {errorText, (~clientGone /\ ~writeErr)}
  BY Zenon DEF Leave, Recover
<1>5. QED
  BY <1>1, <1>2, <1>3, <1>4, Zenon

\* The entry with a body is an entry, whatever the read of the body races with.
LEMMA ReadBodyTyped ==
  TypeOK /\ Captured /\ ReadBody => entry' \in EntryType
<1> SUFFICES ASSUME TypeOK, Captured, ReadBody PROVE entry' \in EntryType
  OBVIOUS
<1>1. PICK b \in BodyReads : entry' = [entry EXCEPT !.body = b]
  BY Zenon DEF ReadBody
<1>2. b \in -1..MaxSize
  BY <1>1, MaxSizeAssumption
     DEF BodyReads, GarbledBody, Smaller, TypeOK, Captured
<1>3. entry \in EntryType
  BY DEF TypeOK
<1>4. QED
  BY <1>1, <1>2, <1>3 DEF EntryType

\* Decompressing leaves a flag in it.
LEMMA DecompressTyped == TypeOK /\ Decompress => entry' \in EntryType
<1> SUFFICES ASSUME TypeOK, Decompress PROVE entry' \in EntryType
  OBVIOUS
<1>1. PICK decodes \in Decodes(entry.body, entry.marked) :
        entry' = [entry EXCEPT !.raw = encoding = "gzip" /\ entry.body # 0 /\ ~decodes]
  BY Zenon DEF Decompress
<1> DEFINE raw == encoding = "gzip" /\ entry.body # 0 /\ ~decodes
<1>2. raw \in BOOLEAN
  BY Zenon
<1>3. entry' = [entry EXCEPT !.raw = raw]
  BY <1>1, Zenon
<1>4. entry \in EntryType
  BY DEF TypeOK
<1> HIDE DEF raw
<1>5. QED
  BY <1>2, <1>3, <1>4 DEF EntryType

\* So do the two reads that only compare.
LEMMA ReadAgainTyped ==
  TypeOK /\ (ReadBodyAgain \/ ReadMarkAgain) => entry' \in EntryType
<1> SUFFICES ASSUME TypeOK, ReadBodyAgain \/ ReadMarkAgain
             PROVE entry' \in EntryType
  OBVIOUS
<1>1. entry \in EntryType
  BY DEF TypeOK
<1>2. CASE ReadBodyAgain
  <2>1. PICK b \in BodyReads :
          entry' = [entry EXCEPT !.decompressed =
                      \/ encoding = "gzip" /\ entry.body # 0 /\ ~entry.raw
                      \/ b # entry.body]
    BY <1>2, Zenon DEF ReadBodyAgain
  <2> DEFINE changed == \/ encoding = "gzip" /\ entry.body # 0 /\ ~entry.raw
                        \/ b # entry.body
  <2>2. changed \in BOOLEAN
    BY Zenon
  <2>3. entry' = [entry EXCEPT !.decompressed = changed]
    BY <2>1, Zenon
  <2> HIDE DEF changed
  <2>4. QED
    BY <1>1, <2>2, <2>3 DEF EntryType
<1>3. CASE ReadMarkAgain
  <2> DEFINE changed == entry.decompressed \/ truncated # entry.marked
  <2>1. changed \in BOOLEAN
    BY Zenon
  <2>2. entry' = [entry EXCEPT !.decompressed = changed]
    BY <1>3, Zenon DEF ReadMarkAgain
  <2> HIDE DEF changed
  <2>3. QED
    BY <1>1, <2>1, <2>2 DEF EntryType
<1>4. QED
  BY <1>2, <1>3

\* Run by the handler after the end of the answer, gzip decodes what is captured
\* unless it was cut; a 502 is not gzip.
LEMMA DecompressUndisturbed ==
  TypeOK /\ Flow /\ Captured /\ EntryRead /\ Decompress /\ hpc = "callback" =>
    (entry'.raw <=> encoding = "gzip" /\ body # 0 /\ truncated)
<1> SUFFICES ASSUME TypeOK, Flow, Captured, EntryRead, Decompress, hpc = "callback"
             PROVE entry'.raw <=> encoding = "gzip" /\ body # 0 /\ truncated
  OBVIOUS
<1>1. entry.body = body /\ entry.marked = truncated
  BY DEF EntryRead, Decompress
<1>2. PICK decodes \in Decodes(body, truncated) :
        entry' = [entry EXCEPT !.raw = encoding = "gzip" /\ body # 0 /\ ~decodes]
  BY <1>1, Zenon DEF Decompress
<1>3. ~truncated => body = delivered
  BY MaxSizeAssumption, MaxBytesAssumption DEF Captured, Smaller, TypeOK
<1>4. truncated => decodes = FALSE
  BY <1>2 DEF Decodes
<1>5. ended /\ ~truncated => decodes = TRUE
  BY <1>2, <1>3, Zenon DEF Decodes
<1>6. ended \/ encoding = "identity"
  BY DEF Flow
<1>7. encoding = "gzip" => (~decodes <=> truncated)
  BY <1>4, <1>5, <1>6
<1>8. entry'.raw <=> encoding = "gzip" /\ body # 0 /\ ~decodes
  BY <1>2 DEF TypeOK, EntryType
<1>9. QED
  BY <1>7, <1>8

-----------------------------------------------------------------------------
(* The steps *)

\* Each step keeps the types: what is captured stays within MaxSize, and at
\* most one entry is sent.
LEMMA TypeStep ==
  TypeOK /\ OneCallback /\ Captured /\ [Next]_vars => TypeOK'
<1> SUFFICES ASSUME TypeOK /\ OneCallback /\ Captured, [Next]_vars PROVE TypeOK'
  OBVIOUS
<1> USE MaxSizeAssumption, MaxBytesAssumption
    DEF TypeOK, OneCallback, HandlerCalls, MonitorCalls, Captured, EntryType,
        Messages, NoError, GarbledError, Smaller, captureVars, clientVars,
        auditVars
<1>1. CASE Respond
  BY <1>1 DEF Respond
<1>2. CASE RequestFails
  BY <1>2 DEF RequestFails
<1>3. CASE UpstreamBreaks
  BY <1>3 DEF UpstreamBreaks
<1>4. CASE UpstreamEnds
  BY <1>4 DEF UpstreamEnds
<1>5. ASSUME NEW n \in 1..MaxBytes, Write(n) PROVE TypeOK'
  BY <1>5 DEF Write
<1>6. CASE WriteFails
  BY <1>6, FlagsTyped DEF WriteFails
<1>7. CASE ClientDisconnects
  BY <1>7 DEF ClientDisconnects
<1>8. CASE Deadline
  BY <1>8 DEF Deadline
<1>9. CASE CopyHeaders
  BY <1>9 DEF CopyHeaders
<1>10. CASE Append
  BY <1>10 DEF Append, Smaller
<1>11. CASE CountSize
  BY <1>11 DEF CountSize
<1>12. CASE FlagTruncation
  BY <1>12 DEF FlagTruncation
<1>13. CASE StoreWriteError
  BY <1>13 DEF StoreWriteError
<1>14. CASE HandlerFinalizes
  BY <1>14, FlagsTyped DEF HandlerFinalizes, Swap, NoSwap
<1>15. CASE HandlerCallbackReturns
  BY <1>15 DEF HandlerCallbackReturns
<1>16. CASE Leave
  BY <1>16, ClientFlagsTyped DEF Leave
<1>17. CASE Recover
  BY <1>17, ClientFlagsTyped DEF Recover
<1>18. CASE StoreReason
  BY <1>18 DEF StoreReason, Reason
<1>19. CASE MarkIncomplete
  BY <1>19, FlagsTyped DEF MarkIncomplete
<1>20. CASE MonitorFinalizes
  BY <1>20, FlagsTyped DEF MonitorFinalizes, Swap, NoSwap
<1>21. CASE MonitorCallbackReturns
  BY <1>21 DEF MonitorCallbackReturns
<1>22. CASE ReadBody
  <2>1. /\ cpc' = "mark"
        /\ UNCHANGED << hpc, mpc, ctx, captureVars, completed, clientVars, logged,
                        panicked, fatal >>
    BY <1>22 DEF ReadBody
  <2>2. entry' \in EntryType
    BY <1>22, ReadBodyTyped
  <2>3. QED
    BY <2>1, <2>2 DEF captureVars, clientVars
<1>23. CASE ReadMark
  BY <1>23 DEF ReadMark
<1>24. CASE Decompress
  <2>1. /\ cpc' = "bodyAgain"
        /\ UNCHANGED << hpc, mpc, ctx, captureVars, completed, clientVars, logged,
                        panicked >>
    BY <1>24 DEF Decompress
  <2>2. entry' \in EntryType
    BY <1>24, DecompressTyped
  <2>3. fatal' \in BOOLEAN
    BY <1>24, FlagsTyped
  <2>4. QED
    BY <2>1, <2>2, <2>3 DEF captureVars, clientVars
<1>25. CASE ReadBodyAgain
  <2>1. /\ cpc' = "markAgain"
        /\ UNCHANGED << hpc, mpc, ctx, captureVars, completed, clientVars, logged,
                        panicked, fatal >>
    BY <1>25 DEF ReadBodyAgain
  <2>2. entry' \in EntryType
    BY <1>25, ReadAgainTyped
  <2>3. QED
    BY <2>1, <2>2 DEF captureVars, clientVars
<1>26. CASE ReadMarkAgain
  <2>1. /\ cpc' = "status"
        /\ UNCHANGED << hpc, mpc, ctx, captureVars, completed, clientVars, logged,
                        panicked, fatal >>
    BY <1>26 DEF ReadMarkAgain
  <2>2. entry' \in EntryType
    BY <1>26, ReadAgainTyped
  <2>3. QED
    BY <2>1, <2>2 DEF captureVars, clientVars
<1>27. CASE CallbackPanics
  BY <1>27 DEF CallbackPanics
<1>28. CASE ReadStatus
  BY <1>28 DEF ReadStatus
<1>29. CASE ReadHeaders
  <2>1. entry' \in EntryType
    BY <1>29 DEF ReadHeaders
  <2>2. cpc' = "complete" /\ UNCHANGED << hpc, mpc, ctx, captureVars, completed,
                                         clientVars, logged, panicked >>
    BY <1>29 DEF ReadHeaders
  <2>3. QED
    BY <1>29, <2>1, <2>2, FlagsTyped DEF captureVars, clientVars
<1>30. CASE ReadFlags
  BY <1>30 DEF ReadFlags
<1>31. CASE LogEntry
  BY <1>31 DEF LogEntry
<1>32. CASE UNCHANGED vars
  BY <1>32 DEF vars
<1>33. QED
  BY <1>1, <1>2, <1>3, <1>4, <1>5, <1>6, <1>7, <1>8, <1>9, <1>10, <1>11, <1>12,
     <1>13, <1>14, <1>15, <1>16, <1>17, <1>18, <1>19, <1>20, <1>21, <1>22,
     <1>23, <1>24, <1>25, <1>26, <1>27, <1>28, <1>29, <1>30, <1>31, <1>32
     DEF Next, Network, HandlerStep, MonitorStep, CallbackStep, Terminated

\* CompareAndSwap lets one caller through, and nobody sends but its callback.
LEMMA OneCallbackStep ==
  OneCallback /\ [Next]_vars => OneCallback'
<1> SUFFICES ASSUME OneCallback, [Next]_vars PROVE OneCallback'
  OBVIOUS
<1> USE MaxSizeAssumption, MaxBytesAssumption
    DEF OneCallback, HandlerCalls, MonitorCalls, captureVars, clientVars,
        auditVars
<1>1. CASE Respond
  BY <1>1 DEF Respond
<1>2. CASE RequestFails
  BY <1>2 DEF RequestFails
<1>3. CASE UpstreamBreaks
  BY <1>3 DEF UpstreamBreaks
<1>4. CASE UpstreamEnds
  BY <1>4 DEF UpstreamEnds
<1>5. ASSUME NEW n \in 1..MaxBytes, Write(n) PROVE OneCallback'
  BY <1>5 DEF Write
<1>6. CASE WriteFails
  BY <1>6 DEF WriteFails
<1>7. CASE ClientDisconnects
  BY <1>7 DEF ClientDisconnects
<1>8. CASE Deadline
  BY <1>8 DEF Deadline
<1>9. CASE CopyHeaders
  BY <1>9 DEF CopyHeaders
<1>10. CASE Append
  BY <1>10 DEF Append, Smaller
<1>11. CASE CountSize
  BY <1>11 DEF CountSize
<1>12. CASE FlagTruncation
  BY <1>12 DEF FlagTruncation
<1>13. CASE StoreWriteError
  BY <1>13 DEF StoreWriteError
<1>14. CASE HandlerFinalizes
  BY <1>14 DEF HandlerFinalizes, Swap, NoSwap
<1>15. CASE HandlerCallbackReturns
  BY <1>15 DEF HandlerCallbackReturns
<1>16. CASE Leave
  BY <1>16 DEF Leave
<1>17. CASE Recover
  BY <1>17 DEF Recover
<1>18. CASE StoreReason
  BY <1>18 DEF StoreReason, Reason
<1>19. CASE MarkIncomplete
  BY <1>19 DEF MarkIncomplete
<1>20. CASE MonitorFinalizes
  BY <1>20 DEF MonitorFinalizes, Swap, NoSwap
<1>21. CASE MonitorCallbackReturns
  BY <1>21 DEF MonitorCallbackReturns
<1>22. CASE ReadBody
  BY <1>22 DEF ReadBody, BodyReads, Smaller, GarbledBody
<1>23. CASE ReadMark
  BY <1>23 DEF ReadMark
<1>24. CASE Decompress
  BY <1>24 DEF Decompress, Decodes
<1>25. CASE ReadBodyAgain
  BY <1>25 DEF ReadBodyAgain, BodyReads, Smaller, GarbledBody
<1>26. CASE ReadMarkAgain
  BY <1>26 DEF ReadMarkAgain
<1>27. CASE CallbackPanics
  BY <1>27 DEF CallbackPanics
<1>28. CASE ReadStatus
  BY <1>28 DEF ReadStatus
<1>29. CASE ReadHeaders
  BY <1>29 DEF ReadHeaders
<1>30. CASE ReadFlags
  BY <1>30 DEF ReadFlags
<1>31. CASE LogEntry
  BY <1>31 DEF LogEntry
<1>32. CASE UNCHANGED vars
  BY <1>32 DEF vars
<1>33. QED
  BY <1>1, <1>2, <1>3, <1>4, <1>5, <1>6, <1>7, <1>8, <1>9, <1>10, <1>11, <1>12,
     <1>13, <1>14, <1>15, <1>16, <1>17, <1>18, <1>19, <1>20, <1>21, <1>22,
     <1>23, <1>24, <1>25, <1>26, <1>27, <1>28, <1>29, <1>30, <1>31, <1>32
     DEF Next, Network, HandlerStep, MonitorStep, CallbackStep, Terminated

\* The handler completes after the end of the answer only, and nobody takes a
\* mark of incompleteness back.
LEMMA FlowStep ==
  TypeOK /\ Flow /\ [Next]_vars => Flow'
<1> SUFFICES ASSUME TypeOK /\ Flow, [Next]_vars PROVE Flow'
  OBVIOUS
<1> USE MaxSizeAssumption, MaxBytesAssumption
    DEF TypeOK, Flow, captureVars, clientVars, auditVars
<1>1. CASE Respond
  BY <1>1 DEF Respond
<1>2. CASE RequestFails
  BY <1>2 DEF RequestFails
<1>3. CASE UpstreamBreaks
  BY <1>3 DEF UpstreamBreaks
<1>4. CASE UpstreamEnds
  BY <1>4 DEF UpstreamEnds
<1>5. ASSUME NEW n \in 1..MaxBytes, Write(n) PROVE Flow'
  BY <1>5 DEF Write
<1>6. CASE WriteFails
  BY <1>6 DEF WriteFails
<1>7. CASE ClientDisconnects
  BY <1>7 DEF ClientDisconnects
<1>8. CASE Deadline
  BY <1>8 DEF Deadline
<1>9. CASE CopyHeaders
  BY <1>9 DEF CopyHeaders
<1>10. CASE Append
  BY <1>10 DEF Append, Smaller
<1>11. CASE CountSize
  BY <1>11 DEF CountSize
<1>12. CASE FlagTruncation
  BY <1>12 DEF FlagTruncation
<1>13. CASE StoreWriteError
  BY <1>13 DEF StoreWriteError
<1>14. CASE HandlerFinalizes
  BY <1>14 DEF HandlerFinalizes, Swap, NoSwap
<1>15. CASE HandlerCallbackReturns
  BY <1>15 DEF HandlerCallbackReturns
<1>16. CASE Leave
  BY <1>16 DEF Leave
<1>17. CASE Recover
  BY <1>17 DEF Recover
<1>18. CASE StoreReason
  BY <1>18 DEF StoreReason, Reason
<1>19. CASE MarkIncomplete
  BY <1>19 DEF MarkIncomplete
<1>20. CASE MonitorFinalizes
  BY <1>20 DEF MonitorFinalizes, Swap, NoSwap
<1>21. CASE MonitorCallbackReturns
  BY <1>21 DEF MonitorCallbackReturns
<1>22. CASE ReadBody
  BY <1>22 DEF ReadBody, BodyReads, Smaller, GarbledBody
<1>23. CASE ReadMark
  BY <1>23 DEF ReadMark
<1>24. CASE Decompress
  BY <1>24 DEF Decompress, Decodes
<1>25. CASE ReadBodyAgain
  BY <1>25 DEF ReadBodyAgain, BodyReads, Smaller, GarbledBody
<1>26. CASE ReadMarkAgain
  BY <1>26 DEF ReadMarkAgain
<1>27. CASE CallbackPanics
  BY <1>27 DEF CallbackPanics
<1>28. CASE ReadStatus
  BY <1>28 DEF ReadStatus
<1>29. CASE ReadHeaders
  BY <1>29 DEF ReadHeaders
<1>30. CASE ReadFlags
  BY <1>30 DEF ReadFlags
<1>31. CASE LogEntry
  BY <1>31 DEF LogEntry
<1>32. CASE UNCHANGED vars
  BY <1>32 DEF vars
<1>33. QED
  BY <1>1, <1>2, <1>3, <1>4, <1>5, <1>6, <1>7, <1>8, <1>9, <1>10, <1>11, <1>12,
     <1>13, <1>14, <1>15, <1>16, <1>17, <1>18, <1>19, <1>20, <1>21, <1>22,
     <1>23, <1>24, <1>25, <1>26, <1>27, <1>28, <1>29, <1>30, <1>31, <1>32
     DEF Next, Network, HandlerStep, MonitorStep, CallbackStep, Terminated

\* A stored reason may be overwritten by another one, never removed.
LEMMA ReasonStep ==
  TypeOK /\ ReasonStored /\ [Next]_vars => ReasonStored'
<1> SUFFICES ASSUME TypeOK /\ ReasonStored, [Next]_vars PROVE ReasonStored'
  OBVIOUS
<1> USE MaxSizeAssumption, MaxBytesAssumption
    DEF TypeOK, ReasonStored, HasReason, NoError, Messages, captureVars,
        clientVars, auditVars
<1>1. CASE Respond
  BY <1>1 DEF Respond
<1>2. CASE RequestFails
  BY <1>2 DEF RequestFails
<1>3. CASE UpstreamBreaks
  BY <1>3 DEF UpstreamBreaks
<1>4. CASE UpstreamEnds
  BY <1>4 DEF UpstreamEnds
<1>5. ASSUME NEW n \in 1..MaxBytes, Write(n) PROVE ReasonStored'
  BY <1>5 DEF Write
<1>6. CASE WriteFails
  BY <1>6 DEF WriteFails
<1>7. CASE ClientDisconnects
  BY <1>7 DEF ClientDisconnects
<1>8. CASE Deadline
  BY <1>8 DEF Deadline
<1>9. CASE CopyHeaders
  BY <1>9 DEF CopyHeaders
<1>10. CASE Append
  BY <1>10 DEF Append, Smaller
<1>11. CASE CountSize
  BY <1>11 DEF CountSize
<1>12. CASE FlagTruncation
  BY <1>12 DEF FlagTruncation
<1>13. CASE StoreWriteError
  BY <1>13 DEF StoreWriteError
<1>14. CASE HandlerFinalizes
  BY <1>14 DEF HandlerFinalizes, Swap, NoSwap
<1>15. CASE HandlerCallbackReturns
  BY <1>15 DEF HandlerCallbackReturns
<1>16. CASE Leave
  BY <1>16 DEF Leave
<1>17. CASE Recover
  BY <1>17 DEF Recover
<1>18. CASE StoreReason
  BY <1>18 DEF StoreReason, Reason
<1>19. CASE MarkIncomplete
  BY <1>19 DEF MarkIncomplete
<1>20. CASE MonitorFinalizes
  BY <1>20 DEF MonitorFinalizes, Swap, NoSwap
<1>21. CASE MonitorCallbackReturns
  BY <1>21 DEF MonitorCallbackReturns
<1>22. CASE ReadBody
  BY <1>22 DEF ReadBody, BodyReads, Smaller, GarbledBody
<1>23. CASE ReadMark
  BY <1>23 DEF ReadMark
<1>24. CASE Decompress
  BY <1>24 DEF Decompress, Decodes
<1>25. CASE ReadBodyAgain
  BY <1>25 DEF ReadBodyAgain, BodyReads, Smaller, GarbledBody
<1>26. CASE ReadMarkAgain
  BY <1>26 DEF ReadMarkAgain
<1>27. CASE CallbackPanics
  BY <1>27 DEF CallbackPanics
<1>28. CASE ReadStatus
  BY <1>28 DEF ReadStatus
<1>29. CASE ReadHeaders
  BY <1>29 DEF ReadHeaders
<1>30. CASE ReadFlags
  BY <1>30 DEF ReadFlags
<1>31. CASE LogEntry
  BY <1>31 DEF LogEntry
<1>32. CASE UNCHANGED vars
  BY <1>32 DEF vars
<1>33. QED
  BY <1>1, <1>2, <1>3, <1>4, <1>5, <1>6, <1>7, <1>8, <1>9, <1>10, <1>11, <1>12,
     <1>13, <1>14, <1>15, <1>16, <1>17, <1>18, <1>19, <1>20, <1>21, <1>22,
     <1>23, <1>24, <1>25, <1>26, <1>27, <1>28, <1>29, <1>30, <1>31, <1>32
     DEF Next, Network, HandlerStep, MonitorStep, CallbackStep, Terminated

\* The context ends once and for one reason, and a failed write stays one: a word
\* that was founded stays so.
LEMMA FoundedStep ==
  TypeOK /\ Flow /\ ReasonsFounded /\ [Next]_vars => ReasonsFounded'
<1> SUFFICES ASSUME TypeOK /\ Flow /\ ReasonsFounded, [Next]_vars PROVE ReasonsFounded'
  OBVIOUS
<1> USE MaxSizeAssumption, MaxBytesAssumption
    DEF TypeOK, Flow, ReasonsFounded, Founded, NoError, Messages, captureVars,
        clientVars, auditVars
<1>1. CASE Respond
  BY <1>1 DEF Respond
<1>2. CASE RequestFails
  BY <1>2 DEF RequestFails
<1>3. CASE UpstreamBreaks
  BY <1>3 DEF UpstreamBreaks
<1>4. CASE UpstreamEnds
  BY <1>4 DEF UpstreamEnds
<1>5. ASSUME NEW n \in 1..MaxBytes, Write(n) PROVE ReasonsFounded'
  BY <1>5 DEF Write
<1>6. CASE WriteFails
  BY <1>6 DEF WriteFails
<1>7. CASE ClientDisconnects
  BY <1>7 DEF ClientDisconnects
<1>8. CASE Deadline
  BY <1>8 DEF Deadline
<1>9. CASE CopyHeaders
  BY <1>9 DEF CopyHeaders
<1>10. CASE Append
  BY <1>10 DEF Append, Smaller
<1>11. CASE CountSize
  BY <1>11 DEF CountSize
<1>12. CASE FlagTruncation
  BY <1>12 DEF FlagTruncation
<1>13. CASE StoreWriteError
  BY <1>13 DEF StoreWriteError
<1>14. CASE HandlerFinalizes
  BY <1>14 DEF HandlerFinalizes, Swap, NoSwap
<1>15. CASE HandlerCallbackReturns
  BY <1>15 DEF HandlerCallbackReturns
<1>16. CASE Leave
  BY <1>16 DEF Leave
<1>17. CASE Recover
  BY <1>17 DEF Recover
<1>18. CASE StoreReason
  BY <1>18 DEF StoreReason, Reason
<1>19. CASE MarkIncomplete
  BY <1>19 DEF MarkIncomplete
<1>20. CASE MonitorFinalizes
  BY <1>20 DEF MonitorFinalizes, Swap, NoSwap
<1>21. CASE MonitorCallbackReturns
  BY <1>21 DEF MonitorCallbackReturns
<1>22. CASE ReadBody
  BY <1>22 DEF ReadBody, BodyReads, Smaller, GarbledBody
<1>23. CASE ReadMark
  BY <1>23 DEF ReadMark
<1>24. CASE Decompress
  BY <1>24 DEF Decompress, Decodes
<1>25. CASE ReadBodyAgain
  BY <1>25 DEF ReadBodyAgain, BodyReads, Smaller, GarbledBody
<1>26. CASE ReadMarkAgain
  BY <1>26 DEF ReadMarkAgain
<1>27. CASE CallbackPanics
  BY <1>27 DEF CallbackPanics
<1>28. CASE ReadStatus
  BY <1>28 DEF ReadStatus
<1>29. CASE ReadHeaders
  BY <1>29 DEF ReadHeaders
<1>30. CASE ReadFlags
  BY <1>30 DEF ReadFlags
<1>31. CASE LogEntry
  BY <1>31 DEF LogEntry
<1>32. CASE UNCHANGED vars
  BY <1>32 DEF vars
<1>33. QED
  BY <1>1, <1>2, <1>3, <1>4, <1>5, <1>6, <1>7, <1>8, <1>9, <1>10, <1>11, <1>12,
     <1>13, <1>14, <1>15, <1>16, <1>17, <1>18, <1>19, <1>20, <1>21, <1>22,
     <1>23, <1>24, <1>25, <1>26, <1>27, <1>28, <1>29, <1>30, <1>31, <1>32
     DEF Next, Network, HandlerStep, MonitorStep, CallbackStep, Terminated

\* The callback reads isComplete and the error after whoever runs it
\* has stored them.
LEMMA FlagsStep ==
  /\ TypeOK /\ OneCallback /\ Flow
  /\ ReasonStored /\ ReasonsFounded /\ FlagsRead
  /\ [Next]_vars
  => FlagsRead'
<1> SUFFICES ASSUME TypeOK /\ OneCallback /\ Flow,
                    ReasonStored /\ ReasonsFounded /\ FlagsRead, [Next]_vars
             PROVE  FlagsRead'
  OBVIOUS
<1> USE MaxSizeAssumption, MaxBytesAssumption
    DEF TypeOK, OneCallback, HandlerCalls, MonitorCalls, Flow, ReasonStored,
        ReasonsFounded, Founded, Explained, FlagsRead, EntryType, HasReason,
        NoError, GarbledError, Messages, captureVars, clientVars, auditVars
<1>1. CASE Respond
  BY <1>1 DEF Respond
<1>2. CASE RequestFails
  BY <1>2 DEF RequestFails
<1>3. CASE UpstreamBreaks
  BY <1>3 DEF UpstreamBreaks
<1>4. CASE UpstreamEnds
  BY <1>4 DEF UpstreamEnds
<1>5. ASSUME NEW n \in 1..MaxBytes, Write(n) PROVE FlagsRead'
  BY <1>5 DEF Write
<1>6. CASE WriteFails
  BY <1>6 DEF WriteFails
<1>7. CASE ClientDisconnects
  BY <1>7 DEF ClientDisconnects
<1>8. CASE Deadline
  BY <1>8 DEF Deadline
<1>9. CASE CopyHeaders
  BY <1>9 DEF CopyHeaders
<1>10. CASE Append
  BY <1>10 DEF Append, Smaller
<1>11. CASE CountSize
  BY <1>11 DEF CountSize
<1>12. CASE FlagTruncation
  BY <1>12 DEF FlagTruncation
<1>13. CASE StoreWriteError
  BY <1>13 DEF StoreWriteError
<1>14. CASE HandlerFinalizes
  BY <1>14 DEF HandlerFinalizes, Swap, NoSwap
<1>15. CASE HandlerCallbackReturns
  BY <1>15 DEF HandlerCallbackReturns
<1>16. CASE Leave
  BY <1>16 DEF Leave
<1>17. CASE Recover
  BY <1>17 DEF Recover
<1>18. CASE StoreReason
  BY <1>18 DEF StoreReason, Reason
<1>19. CASE MarkIncomplete
  BY <1>19 DEF MarkIncomplete
<1>20. CASE MonitorFinalizes
  BY <1>20 DEF MonitorFinalizes, Swap, NoSwap
<1>21. CASE MonitorCallbackReturns
  BY <1>21 DEF MonitorCallbackReturns
<1>22. CASE ReadBody
  BY <1>22 DEF ReadBody, BodyReads, Smaller, GarbledBody
<1>23. CASE ReadMark
  BY <1>23 DEF ReadMark
<1>24. CASE Decompress
  BY <1>24 DEF Decompress, Decodes
<1>25. CASE ReadBodyAgain
  BY <1>25 DEF ReadBodyAgain, BodyReads, Smaller, GarbledBody
<1>26. CASE ReadMarkAgain
  BY <1>26 DEF ReadMarkAgain
<1>27. CASE CallbackPanics
  BY <1>27 DEF CallbackPanics
<1>28. CASE ReadStatus
  BY <1>28 DEF ReadStatus
<1>29. CASE ReadHeaders
  BY <1>29 DEF ReadHeaders
<1>30. CASE ReadFlags
  BY <1>30 DEF ReadFlags
<1>31. CASE LogEntry
  BY <1>31 DEF LogEntry
<1>32. CASE UNCHANGED vars
  BY <1>32 DEF vars
<1>33. QED
  BY <1>1, <1>2, <1>3, <1>4, <1>5, <1>6, <1>7, <1>8, <1>9, <1>10, <1>11, <1>12,
     <1>13, <1>14, <1>15, <1>16, <1>17, <1>18, <1>19, <1>20, <1>21, <1>22,
     <1>23, <1>24, <1>25, <1>26, <1>27, <1>28, <1>29, <1>30, <1>31, <1>32
     DEF Next, Network, HandlerStep, MonitorStep, CallbackStep, Terminated

\* The three stores of a Write bring the capture from what was
\* delivered before it to what has been delivered with it.
LEMMA CapturedStep ==
  TypeOK /\ Captured /\ [Next]_vars => Captured'
<1> SUFFICES ASSUME TypeOK /\ Captured, [Next]_vars PROVE Captured'
  OBVIOUS
<1> USE MaxSizeAssumption, MaxBytesAssumption
    DEF TypeOK, Captured, Smaller, captureVars, clientVars, auditVars
<1>1. CASE Respond
  BY <1>1 DEF Respond
<1>2. CASE RequestFails
  BY <1>2 DEF RequestFails
<1>3. CASE UpstreamBreaks
  BY <1>3 DEF UpstreamBreaks
<1>4. CASE UpstreamEnds
  BY <1>4 DEF UpstreamEnds
<1>5. ASSUME NEW n \in 1..MaxBytes, Write(n) PROVE Captured'
  BY <1>5 DEF Write
<1>6. CASE WriteFails
  BY <1>6 DEF WriteFails
<1>7. CASE ClientDisconnects
  BY <1>7 DEF ClientDisconnects
<1>8. CASE Deadline
  BY <1>8 DEF Deadline
<1>9. CASE CopyHeaders
  BY <1>9 DEF CopyHeaders
<1>10. CASE Append
  BY <1>10 DEF Append, Smaller
<1>11. CASE CountSize
  BY <1>11 DEF CountSize
<1>12. CASE FlagTruncation
  <2>1. truncated' <=> currentSize >= MaxSize
    BY <1>12 DEF FlagTruncation
  <2>2. QED
    BY <1>12, <2>1 DEF FlagTruncation
<1>13. CASE StoreWriteError
  BY <1>13 DEF StoreWriteError
<1>14. CASE HandlerFinalizes
  BY <1>14 DEF HandlerFinalizes, Swap, NoSwap
<1>15. CASE HandlerCallbackReturns
  BY <1>15 DEF HandlerCallbackReturns
<1>16. CASE Leave
  BY <1>16 DEF Leave
<1>17. CASE Recover
  BY <1>17 DEF Recover
<1>18. CASE StoreReason
  BY <1>18 DEF StoreReason, Reason
<1>19. CASE MarkIncomplete
  BY <1>19 DEF MarkIncomplete
<1>20. CASE MonitorFinalizes
  BY <1>20 DEF MonitorFinalizes, Swap, NoSwap
<1>21. CASE MonitorCallbackReturns
  BY <1>21 DEF MonitorCallbackReturns
<1>22. CASE ReadBody
  BY <1>22 DEF ReadBody, BodyReads, Smaller, GarbledBody
<1>23. CASE ReadMark
  BY <1>23 DEF ReadMark
<1>24. CASE Decompress
  BY <1>24 DEF Decompress, Decodes
<1>25. CASE ReadBodyAgain
  BY <1>25 DEF ReadBodyAgain, BodyReads, Smaller, GarbledBody
<1>26. CASE ReadMarkAgain
  BY <1>26 DEF ReadMarkAgain
<1>27. CASE CallbackPanics
  BY <1>27 DEF CallbackPanics
<1>28. CASE ReadStatus
  BY <1>28 DEF ReadStatus
<1>29. CASE ReadHeaders
  BY <1>29 DEF ReadHeaders
<1>30. CASE ReadFlags
  BY <1>30 DEF ReadFlags
<1>31. CASE LogEntry
  BY <1>31 DEF LogEntry
<1>32. CASE UNCHANGED vars
  BY <1>32 DEF vars
<1>33. QED
  BY <1>1, <1>2, <1>3, <1>4, <1>5, <1>6, <1>7, <1>8, <1>9, <1>10, <1>11, <1>12,
     <1>13, <1>14, <1>15, <1>16, <1>17, <1>18, <1>19, <1>20, <1>21, <1>22,
     <1>23, <1>24, <1>25, <1>26, <1>27, <1>28, <1>29, <1>30, <1>31, <1>32
     DEF Next, Network, HandlerStep, MonitorStep, CallbackStep, Terminated

\* The callback of a handler at the end of the answer is alone with the capturer.
LEMMA EntryStep ==
  TypeOK /\ OneCallback /\ Flow /\ FlagsRead /\ Captured /\ EntryRead /\ [Next]_vars =>
    EntryRead'
<1> SUFFICES ASSUME TypeOK /\ OneCallback /\ Flow /\ FlagsRead /\ Captured /\ EntryRead,
                    [Next]_vars
             PROVE  EntryRead'
  OBVIOUS
<1> USE MaxSizeAssumption, MaxBytesAssumption
    DEF TypeOK, OneCallback, HandlerCalls, MonitorCalls, Flow, FlagsRead,
        Captured, EntryType, EntryRead, Smaller, captureVars, clientVars,
        auditVars
<1>1. CASE Respond
  BY <1>1 DEF Respond
<1>2. CASE RequestFails
  BY <1>2 DEF RequestFails
<1>3. CASE UpstreamBreaks
  BY <1>3 DEF UpstreamBreaks
<1>4. CASE UpstreamEnds
  BY <1>4 DEF UpstreamEnds
<1>5. ASSUME NEW n \in 1..MaxBytes, Write(n) PROVE EntryRead'
  BY <1>5 DEF Write
<1>6. CASE WriteFails
  BY <1>6 DEF WriteFails
<1>7. CASE ClientDisconnects
  BY <1>7 DEF ClientDisconnects
<1>8. CASE Deadline
  BY <1>8 DEF Deadline
<1>9. CASE CopyHeaders
  BY <1>9 DEF CopyHeaders
<1>10. CASE Append
  BY <1>10 DEF Append, Smaller
<1>11. CASE CountSize
  BY <1>11 DEF CountSize
<1>12. CASE FlagTruncation
  BY <1>12 DEF FlagTruncation
<1>13. CASE StoreWriteError
  BY <1>13 DEF StoreWriteError
<1>14. CASE HandlerFinalizes
  BY <1>14 DEF HandlerFinalizes, Swap, NoSwap
<1>15. CASE HandlerCallbackReturns
  BY <1>15 DEF HandlerCallbackReturns
<1>16. CASE Leave
  BY <1>16 DEF Leave
<1>17. CASE Recover
  BY <1>17 DEF Recover
<1>18. CASE StoreReason
  BY <1>18 DEF StoreReason, Reason
<1>19. CASE MarkIncomplete
  BY <1>19 DEF MarkIncomplete
<1>20. CASE MonitorFinalizes
  BY <1>20 DEF MonitorFinalizes, Swap, NoSwap
<1>21. CASE MonitorCallbackReturns
  BY <1>21 DEF MonitorCallbackReturns
<1>22. CASE ReadBody
  BY <1>22 DEF ReadBody, BodyReads
<1>23. CASE ReadMark
  BY <1>23 DEF ReadMark
<1>24. CASE Decompress
  <2>1. hpc' = hpc /\ cpc = "decode" /\ cpc' = "bodyAgain" /\ logged' = logged
    BY <1>24 DEF Decompress
  <2>2. body' = body /\ truncated' = truncated /\ encoding' = encoding
    BY <1>24 DEF Decompress, captureVars, clientVars
  <2>3. /\ entry'.complete = entry.complete /\ entry'.body = entry.body
        /\ entry'.marked = entry.marked
    BY <1>24 DEF Decompress
  <2>4. CASE hpc = "callback"
    <3>1. entry'.raw <=> encoding = "gzip" /\ body # 0 /\ truncated
      BY <1>24, <2>4, DecompressUndisturbed
    <3>2. QED
      BY <2>1, <2>2, <2>3, <3>1
  <2>5. CASE hpc # "callback"
    BY <2>1, <2>3, <2>5
  <2>6. QED
    BY <2>4, <2>5
<1>25. CASE ReadBodyAgain
  BY <1>25 DEF ReadBodyAgain, BodyReads
<1>26. CASE ReadMarkAgain
  BY <1>26 DEF ReadMarkAgain
<1>27. CASE CallbackPanics
  BY <1>27 DEF CallbackPanics
<1>28. CASE ReadStatus
  BY <1>28 DEF ReadStatus
<1>29. CASE ReadHeaders
  BY <1>29 DEF ReadHeaders
<1>30. CASE ReadFlags
  BY <1>30 DEF ReadFlags
<1>31. CASE LogEntry
  BY <1>31 DEF LogEntry
<1>32. CASE UNCHANGED vars
  BY <1>32 DEF vars
<1>33. QED
  BY <1>1, <1>2, <1>3, <1>4, <1>5, <1>6, <1>7, <1>8, <1>9, <1>10, <1>11, <1>12,
     <1>13, <1>14, <1>15, <1>16, <1>17, <1>18, <1>19, <1>20, <1>21, <1>22,
     <1>23, <1>24, <1>25, <1>26, <1>27, <1>28, <1>29, <1>30, <1>31, <1>32
     DEF Next, Network, HandlerStep, MonitorStep, CallbackStep, Terminated

-----------------------------------------------------------------------------
(* The theorems *)

LEMMA InitIInv == Init => IInv
<1> SUFFICES ASSUME Init PROVE IInv
  OBVIOUS
<1>1. /\ truncated \in BOOLEAN /\ isComplete \in BOOLEAN /\ completed \in BOOLEAN
      /\ clientGone \in BOOLEAN /\ ended \in BOOLEAN /\ writeErr \in BOOLEAN
      /\ errorText \in BOOLEAN /\ finished \in BOOLEAN
      /\ panicked \in BOOLEAN /\ fatal \in BOOLEAN
  BY Zenon DEF Init
<1>2. FALSE \in BOOLEAN
  BY Zenon
<1>3. entry \in EntryType
  BY <1>2, MaxSizeAssumption, MaxBytesAssumption DEF Init, Unread, EntryType, Messages
<1>4. TypeOK
  BY <1>1, <1>3, MaxSizeAssumption, MaxBytesAssumption DEF Init, TypeOK, Messages
<1>5. OneCallback /\ Flow /\ ReasonStored /\ ReasonsFounded /\ FlagsRead
  BY DEF Init, Unread, OneCallback, HandlerCalls, MonitorCalls, Flow, ReasonStored,
         ReasonsFounded, Founded, NoError, FlagsRead
<1>6. Captured /\ EntryRead
  BY MaxSizeAssumption DEF Init, Unread, Captured, EntryRead, Smaller
<1>7. QED
  BY <1>4, <1>5, <1>6 DEF IInv

\* All of it is inductive together: the types need the capture, and what the
\* entry holds needs the flags, the flow and the one callback.
LEMMA Invariance == Spec => []IInv
<1>1. IInv /\ [Next]_vars => IInv'
  BY TypeStep, OneCallbackStep, FlowStep, ReasonStep, FoundedStep, FlagsStep,
     CapturedStep, EntryStep DEF IInv
<1>2. QED
  BY InitIInv, <1>1, PTL DEF Spec

\* The capturer and the entry have their types; no more than MaxSize bytes are
\* ever captured, however Write, timeout and callback interleave.
THEOREM CapturerTypeCorrect == Spec => []TypeOK
<1>1. IInv => TypeOK
  BY DEF IInv
<1>2. QED
  BY Invariance, <1>1, PTL

\* The callback runs once, whichever of completion, timeout, disconnect and
\* write error coincide (finalize).
THEOREM RecordedOnce == Spec => []AtMostOneEntry
<1>1. IInv => AtMostOneEntry
  BY DEF IInv, TypeOK, AtMostOneEntry
<1>2. QED
  BY Invariance, <1>1, PTL

\* A complete entry has all that the client got, and nothing was sent behind it;
\* or it says that it is cut, and has the first MaxSize bytes of at least as many.
THEOREM CompleteEntriesWhole == Spec => []CompleteIsWhole
<1>1. IInv => CompleteIsWhole
  <2> SUFFICES ASSUME IInv, logged > 0, entry.complete
               PROVE /\ entry.size = delivered /\ ~errorText
                     /\ ~entry.truncated => entry.body = delivered
                     /\ entry.truncated => entry.body = MaxSize /\ delivered >= MaxSize
    BY DEF CompleteIsWhole
  <2>1. hpc \in {"callback", "leave", "gone"} /\ cpc = "end" /\ ~errorText
    BY DEF IInv, FlagsRead, OneCallback, TypeOK
  <2>2. /\ currentSize = delivered /\ body = Smaller(delivered, MaxSize)
        /\ truncated <=> delivered >= MaxSize
    BY <2>1 DEF IInv, Captured
  <2>3. entry.body = body /\ entry.size = currentSize /\ entry.truncated = truncated
    BY <2>1 DEF IInv, EntryRead
  <2>4. delivered \in Nat /\ MaxSize \in Nat
    BY MaxSizeAssumption, MaxBytesAssumption DEF IInv, TypeOK
  <2>5. QED
    BY <2>1, <2>2, <2>3, <2>4 DEF Smaller
<1>2. QED
  BY Invariance, <1>1, PTL

\* A complete entry says of its body whether it is gzip, and is only if it was
\* truncated.
THEOREM CompleteEntriesReadable == Spec => []CompleteIsReadable
<1>1. IInv => CompleteIsReadable
  <2> SUFFICES ASSUME IInv, logged > 0, entry.complete
               PROVE /\ entry.encoding = "gzip" /\ entry.body # 0 <=> entry.raw
                     /\ ~entry.truncated => ~entry.raw
    BY DEF CompleteIsReadable
  <2>1. cpc = "end"
    BY DEF IInv, OneCallback, TypeOK
  <2>2. /\ entry.body = body /\ entry.truncated = truncated
        /\ entry.raw => truncated
        /\ entry.encoding = "gzip" /\ body # 0 <=> entry.raw
    BY <2>1 DEF IInv, EntryRead
  <2>3. QED
    BY <2>2
<1>2. QED
  BY Invariance, <1>1, PTL

\* An incomplete entry has an error, although errorMsg and isComplete are stored
\* and read without a lock; what happened is what it names, and it is half of two
\* only when the context ended and a write failed.
THEOREM IncompleteEntriesExplained == Spec => []IncompleteHasReason
<1>1. IInv => IncompleteHasReason
  BY DEF IInv, FlagsRead, Explained, IncompleteHasReason
<1>2. QED
  BY Invariance, <1>1, PTL

\* What broke off, or was still going on, is not recorded as complete, but for
\* the proxy's own 502 in place of an answer.
THEOREM BrokenNeverComplete == Spec => []CompleteOnlyIfEnded
<1>1. IInv => CompleteOnlyIfEnded
  <2> SUFFICES ASSUME IInv, logged > 0, entry.complete
               PROVE ended \/ entry.status = 502
    BY DEF CompleteOnlyIfEnded
  <2>1. entry.status = statusCode
    BY DEF IInv, EntryRead
  <2>2. ended \/ statusCode = 502
    BY DEF IInv, FlagsRead
  <2>3. QED
    BY <2>1, <2>2
<1>2. QED
  BY Invariance, <1>1, PTL
=============================================================================
