-------------------------- MODULE ResponseCapturer --------------------------
(***************************************************************************)
(* One streamed response: internal/proxy/response_capturer.go with its     *)
(* client, handleStreamingResponse of internal/proxy/proxy.go.             *)
(*                                                                         *)
(* Two goroutines share the capturer and no lock.  The handler copies the  *)
(* upstream's answer through WriteHeader and Write and then calls          *)
(* Complete; the monitor waits for the stream's context to end.  Whoever   *)
(* is first to finalize runs the callback, which reads the capturer field  *)
(* by field into the audit entry.  Each access to a shared field is a step *)
(* of its own, in the order of the statements.                             *)
(*                                                                         *)
(* A body is the number of its bytes, which are gzip or not: the whole of  *)
(* a gzip body can be decompressed, a part of it or one with the           *)
(* truncation marker behind it cannot.  net/http is external: the handler  *)
(* sees the upstream answer, fail, end or break off, the client's          *)
(* connection fail, and ReverseProxy panic with ErrAbortHandler when       *)
(* copying a body fails.                                                   *)
(***************************************************************************)
EXTENDS Integers

CONSTANTS
  MaxSize,    \* maxSize: max_audit_body_size, positive (config.go:155)
  MaxBytes    \* bound: bytes the upstream sends

ASSUME MaxSizeAssumption == MaxSize \in Nat \ {0}
ASSUME MaxBytesAssumption == MaxBytes \in Nat \ {0}

VARIABLES
  hpc,            \* where the handler is
  mpc,            \* where the monitor is
  cpc,            \* where the callback is that one of the two runs
  ctx,            \* the stream's context: live, or why it ended
  \* the capturer
  statusCode,
  body,           \* bytes captured
  currentSize, truncated, isComplete, completed,
  errorMsg,       \* a Go string is two words, stored one after the other
  \* the client's connection
  delivered,      \* bytes written to it
  chunk,          \* bytes of the Write under way
  clientGone,     \* the client closed it
  encoding,       \* Content-Encoding of the answer
  ended,          \* history: ReverseProxy got to the end of the upstream's answer
  writeErr,       \* a write to it failed
  errorText,      \* history: "Internal server error" went out behind the answer
  finished,       \* history: it was told that this is the end of the answer
  \* the audit entry
  entry,          \* the fields the callback has read so far
  logged,         \* how many entries went to the audit worker
  panicked,       \* the callback panicked and recovered
  fatal           \* the process died of a concurrent map access

captureVars == << statusCode, body, currentSize, truncated, isComplete, errorMsg >>
clientVars == << delivered, chunk, clientGone, encoding, ended, writeErr, errorText,
                 finished >>
auditVars == << entry, logged, panicked, fatal >>
vars == << hpc, mpc, cpc, ctx, captureVars, completed, clientVars, auditVars >>

NoError == "NO_ERROR"   \* the empty string
Messages == {NoError, "STREAM_TIMEOUT", "CLIENT_DISCONNECT", "WRITE_ERROR"}

\* What a read races with a write may return: neither of the two values.
GarbledBody == -1
GarbledError == "GARBLED"

Unread == [body |-> 0, marked |-> FALSE, raw |-> FALSE, decompressed |-> FALSE,
           status |-> 0, encoding |-> "identity", complete |-> FALSE, error |-> NoError,
           truncated |-> FALSE, size |-> 0]

Smaller(m, n) == IF m <= n THEN m ELSE n

EntryType ==
  [body : -1..MaxSize, marked : BOOLEAN, raw : BOOLEAN, decompressed : BOOLEAN,
   status : {0, 200, 502}, encoding : {"identity", "gzip"}, complete : BOOLEAN,
   error : Messages \cup {GarbledError}, truncated : BOOLEAN, size : 0..MaxBytes]

TypeOK ==
  /\ hpc \in {"request", "headers", "body", "append", "size", "flag", "beyond",
              "errLength", "errText", "finalizeErr", "complete",
              "callback", "callbackErr", "leave", "panic", "recover", "gone"}
  /\ mpc \in {"wait", "text", "incomplete", "finalize", "callback", "gone"}
  /\ cpc \in {"none", "body", "mark", "decode", "bodyAgain", "markAgain", "status",
              "headers", "complete", "error", "truncated", "size", "log", "end"}
  /\ ctx \in {"live", "deadline", "canceled"}
  /\ statusCode \in {200, 502}
  /\ body \in 0..MaxSize
  /\ currentSize \in 0..MaxBytes /\ delivered \in 0..MaxBytes /\ chunk \in 0..MaxBytes
  /\ errorMsg \in [length : Messages, text : Messages]
  /\ truncated \in BOOLEAN /\ isComplete \in BOOLEAN /\ completed \in BOOLEAN
  /\ clientGone \in BOOLEAN /\ ended \in BOOLEAN /\ writeErr \in BOOLEAN
  /\ errorText \in BOOLEAN /\ finished \in BOOLEAN
  /\ panicked \in BOOLEAN /\ fatal \in BOOLEAN
  /\ encoding \in {"identity", "gzip"}
  /\ entry \in EntryType
  /\ logged \in 0..1

\* NewStreamingResponseCapturer, SetCompletionCallback, go StartMonitoring().
Init ==
  /\ hpc = "request" /\ mpc = "wait" /\ cpc = "none" /\ ctx = "live"
  /\ statusCode = 200 /\ body = 0 /\ currentSize = 0 /\ truncated = FALSE
  /\ isComplete = TRUE /\ completed = FALSE
  /\ errorMsg = [length |-> NoError, text |-> NoError]
  /\ delivered = 0 /\ chunk = 0 /\ clientGone = FALSE /\ ended = FALSE
  /\ encoding = "identity" /\ writeErr = FALSE
  /\ errorText = FALSE /\ finished = FALSE
  /\ entry = Unread /\ logged = 0 /\ panicked = FALSE /\ fatal = FALSE

-----------------------------------------------------------------------------
(* The context of the stream *)

\* WithTimeout: the timer fires.
Deadline ==
  /\ ctx = "live"
  /\ ctx' = "deadline"
  /\ UNCHANGED << hpc, mpc, cpc, captureVars, completed, clientVars, auditVars >>

\* The client closes its connection: the server cancels the request's context.
ClientDisconnects ==
  /\ ~clientGone /\ hpc # "gone"
  /\ clientGone' = TRUE
  /\ ctx' = IF ctx = "live" THEN "canceled" ELSE ctx
  /\ UNCHANGED << hpc, mpc, cpc, captureVars, completed, delivered, chunk, encoding,
                  ended, writeErr, errorText, finished, auditVars >>

-----------------------------------------------------------------------------
(* finalize *)

\* Faulty variant: the flag is set without a comparison.
SwapOnly ==
  /\ completed' = TRUE
  /\ cpc' = "body"

\* CompareAndSwap succeeds: the caller runs the callback.
Swap ==
  /\ ~completed
  /\ completed' = TRUE
  /\ cpc' = "body"

\* CompareAndSwap fails: finalize returns.
NoSwap ==
  /\ completed
  /\ UNCHANGED << completed, cpc >>

-----------------------------------------------------------------------------
(* The handler: ReverseProxy on the capturer, then Complete *)

\* The upstream answers: WriteHeader stores the status.
Respond ==
  /\ hpc = "request"
  /\ statusCode' = 200
  /\ encoding' \in {"identity", "gzip"}
  /\ hpc' = "headers"
  /\ UNCHANGED << mpc, cpc, ctx, body, currentSize, truncated, isComplete, errorMsg,
                  completed, delivered, chunk, clientGone, ended, writeErr,
                  errorText, finished, auditVars >>

\* No answer from the upstream, because it failed or because the client is gone:
\* ReverseProxy's error handler sends a 502 and returns as after any answer.
RequestFails ==
  /\ hpc = "request"
  /\ statusCode' = 502
  /\ hpc' = "headers"
  /\ UNCHANGED << mpc, cpc, ctx, body, currentSize, truncated, isComplete, errorMsg,
                  completed, clientVars, auditVars >>

\* WriteHeader copies the header map and forwards; a 502 has no body.
CopyHeaders ==
  /\ hpc = "headers"
  /\ hpc' = IF statusCode = 502 THEN "complete" ELSE "body"
  /\ UNCHANGED << mpc, cpc, ctx, captureVars, completed, clientVars, auditVars >>

\* Write forwards n bytes to the client and then looks at the limit.
Write(n) ==
  /\ hpc = "body"
  /\ delivered + n <= MaxBytes
  /\ delivered' = delivered + n
  /\ chunk' = n
  /\ hpc' = IF currentSize < MaxSize THEN "append" ELSE "beyond"
  /\ UNCHANGED << mpc, cpc, ctx, captureVars, completed, clientGone, encoding,
                  ended, writeErr, errorText, finished, auditVars >>

\* Faulty variant: the failed write is stored as an error, and not as the end.
WriteFailsUnmarked ==
  /\ hpc = "body"
  /\ hpc' = "errLength"
  /\ UNCHANGED << mpc, cpc, ctx, captureVars, completed, clientVars, auditVars >>

\* The write to the client fails, because the client is gone or the server's
\* WriteTimeout has passed: writeErr and isComplete are set.
WriteFails ==
  /\ hpc = "body"
  /\ writeErr' = TRUE
  /\ isComplete' = FALSE
  /\ hpc' = "errLength"
  /\ UNCHANGED << mpc, cpc, ctx, statusCode, body, currentSize, truncated, errorMsg,
                  completed, delivered, chunk, clientGone, encoding, ended,
                  errorText, finished, auditVars >>

\* Faulty variant: the whole chunk is captured, past the limit.
AppendWhole ==
  /\ hpc = "append"
  /\ body' = body + chunk
  /\ hpc' = "size"
  /\ UNCHANGED << mpc, cpc, ctx, statusCode, currentSize, truncated, isComplete,
                  errorMsg, completed, clientVars, auditVars >>

\* As much of the chunk as the limit leaves room for.
Append ==
  /\ hpc = "append"
  /\ body' = body + Smaller(chunk, MaxSize - currentSize)
  /\ hpc' = "size"
  /\ UNCHANGED << mpc, cpc, ctx, statusCode, currentSize, truncated, isComplete,
                  errorMsg, completed, clientVars, auditVars >>

\* currentSize counts the whole chunk, also beyond the limit.
CountSize ==
  /\ hpc \in {"size", "beyond"}
  /\ currentSize' = currentSize + chunk
  /\ hpc' = IF hpc = "size" THEN "flag" ELSE "body"
  /\ UNCHANGED << mpc, cpc, ctx, statusCode, body, truncated, isComplete, errorMsg,
                  completed, clientVars, auditVars >>

\* Faulty variant: the flag is set for every captured chunk but the first.
FlagIfSeveral ==
  /\ hpc = "flag"
  /\ truncated' = (truncated \/ currentSize > chunk)
  /\ hpc' = "body"
  /\ UNCHANGED << mpc, cpc, ctx, statusCode, body, currentSize, isComplete, errorMsg,
                  completed, clientVars, auditVars >>

\* truncated is set when the limit is reached, exactly or not.
FlagTruncation ==
  /\ hpc = "flag"
  /\ truncated' = (truncated \/ currentSize >= MaxSize)
  /\ hpc' = "body"
  /\ UNCHANGED << mpc, cpc, ctx, statusCode, body, currentSize, isComplete, errorMsg,
                  completed, clientVars, auditVars >>

\* errorMsg = "WRITE_ERROR: ...", one word after the other.
StoreWriteError ==
  /\ \/ hpc = "errLength" /\ errorMsg' = [errorMsg EXCEPT !.length = "WRITE_ERROR"]
                          /\ hpc' = "errText"
     \/ hpc = "errText" /\ errorMsg' = [errorMsg EXCEPT !.text = "WRITE_ERROR"]
                        /\ hpc' = "finalizeErr"
  /\ UNCHANGED << mpc, cpc, ctx, statusCode, body, currentSize, truncated, isComplete,
                  completed, clientVars, auditVars >>

\* The body breaks off: ReverseProxy panics and Complete() is not reached.
UpstreamBreaks ==
  /\ hpc = "body"
  /\ hpc' = "panic"
  /\ UNCHANGED << mpc, cpc, ctx, captureVars, completed, clientVars, auditVars >>

\* The body ends: ReverseProxy returns.
UpstreamEnds ==
  /\ hpc = "body"
  /\ hpc' = "complete"
  /\ ended' = TRUE
  /\ UNCHANGED << mpc, cpc, ctx, captureVars, completed, delivered, chunk, clientGone,
                  encoding, writeErr, errorText, finished, auditVars >>

\* finalize, from Complete or from the failed Write, after which ReverseProxy
\* panics.
HandlerFinalizes ==
  /\ \/ Swap /\ hpc = "complete" /\ hpc' = "callback"
     \/ Swap /\ hpc = "finalizeErr" /\ hpc' = "callbackErr"
     \/ NoSwap /\ hpc = "complete" /\ hpc' = "leave"
     \/ NoSwap /\ hpc = "finalizeErr" /\ hpc' = "panic"
  /\ UNCHANGED << mpc, ctx, captureVars, clientVars, auditVars >>

HandlerCallbackReturns ==
  /\ cpc = "end"
  /\ \/ hpc = "callback" /\ hpc' = "leave"
     \/ hpc = "callbackErr" /\ hpc' = "panic"
  /\ UNCHANGED << mpc, cpc, ctx, captureVars, completed, clientVars, auditVars >>

\* The deferred cancel(), on a return and on a panic.  After a return the server
\* ends the answer.
Leave ==
  /\ \/ hpc = "leave" /\ hpc' = "gone" /\ finished' = (~clientGone /\ ~writeErr)
     \/ hpc = "panic" /\ hpc' = "recover" /\ UNCHANGED finished
  /\ ctx' = IF ctx = "live" THEN "canceled" ELSE ctx
  /\ UNCHANGED << mpc, cpc, captureVars, completed, delivered, chunk, clientGone,
                  encoding, ended, writeErr, errorText, auditVars >>

\* ServeHTTP recovers the panic: http.Error puts its text behind what the client
\* has got so far, past the capturer, and the handler returns like any other:
\* the server ends the answer, of which no length was announced.
Recover ==
  /\ hpc = "recover"
  /\ hpc' = "gone"
  /\ errorText' = (~clientGone /\ ~writeErr)
  /\ finished' = (~clientGone /\ ~writeErr)
  /\ UNCHANGED << mpc, cpc, ctx, captureVars, completed, delivered, chunk, clientGone,
                  encoding, ended, writeErr, auditVars >>

-----------------------------------------------------------------------------
(* StartMonitoring *)

\* The texts for another context error and for a panic of the monitor cannot
\* occur: a context that is done has one of these two errors, and the callback
\* recovers its own panics.
Reason == IF ctx = "deadline" THEN "STREAM_TIMEOUT" ELSE "CLIENT_DISCONNECT"

\* Faulty variant: isComplete is stored before errorMsg is.
StoreReasonLate ==
  /\ \/ mpc = "wait" /\ ctx # "live" /\ mpc' = "text"
                     /\ isComplete' = FALSE /\ UNCHANGED errorMsg
     \/ mpc = "text" /\ mpc' = "incomplete"
                     /\ errorMsg' = [length |-> Reason, text |-> Reason]
                     /\ UNCHANGED isComplete
  /\ UNCHANGED << hpc, cpc, ctx, statusCode, body, currentSize, truncated,
                  completed, clientVars, auditVars >>

\* The context is done: errorMsg says why.
StoreReason ==
  /\ \/ mpc = "wait" /\ ctx # "live" /\ mpc' = "text"
                     /\ errorMsg' = [errorMsg EXCEPT !.length = Reason]
     \/ mpc = "text" /\ mpc' = "incomplete"
                     /\ errorMsg' = [errorMsg EXCEPT !.text = Reason]
  /\ UNCHANGED << hpc, cpc, ctx, statusCode, body, currentSize, truncated, isComplete,
                  completed, clientVars, auditVars >>

MarkIncomplete ==
  /\ mpc = "incomplete"
  /\ isComplete' = FALSE
  /\ mpc' = "finalize"
  /\ UNCHANGED << hpc, cpc, ctx, statusCode, body, currentSize, truncated, errorMsg,
                  completed, clientVars, auditVars >>

\* Faulty variant: the monitor marks the stream and leaves it to the handler
\* to finalize.
MonitorOnlyMarks ==
  /\ mpc = "finalize"
  /\ mpc' = "gone"
  /\ UNCHANGED << hpc, cpc, completed, ctx, captureVars, clientVars, auditVars >>

\* finalize, from StartMonitoring.
MonitorFinalizes ==
  /\ mpc = "finalize"
  /\ \/ Swap /\ mpc' = "callback"
     \/ NoSwap /\ mpc' = "gone"
  /\ UNCHANGED << hpc, ctx, captureVars, clientVars, auditVars >>

MonitorCallbackReturns ==
  /\ mpc = "callback" /\ cpc = "end"
  /\ mpc' = "gone"
  /\ UNCHANGED << hpc, cpc, ctx, captureVars, completed, clientVars, auditVars >>

-----------------------------------------------------------------------------
(* The callback: the entry is read from the capturer, field by field *)

\* What Body() can return: while the handler is inside body.Write, the old or
\* the new contents or a slice that is half of each.
BodyReads ==
  IF hpc = "append"
  THEN {body, body + Smaller(chunk, MaxSize - currentSize), GarbledBody}
  ELSE {body}

\* DecompressedBody calls Body(): first the captured bytes are read,
ReadBody ==
  /\ cpc = "body"
  /\ \E b \in BodyReads : entry' = [entry EXCEPT !.body = b]
  /\ cpc' = "mark"
  /\ UNCHANGED << hpc, mpc, ctx, captureVars, completed, clientVars,
                  logged, panicked, fatal >>

\* then truncated, which puts the marker behind them.
ReadMark ==
  /\ cpc = "mark"
  /\ entry' = [entry EXCEPT !.marked = truncated]
  /\ cpc' = "decode"
  /\ UNCHANGED << hpc, mpc, ctx, captureVars, completed, clientVars,
                  logged, panicked, fatal >>

\* Whether gzip can decode b bytes: surely not a part of the answer, nor with
\* the truncation marker behind them; all bytes so far may be all there are.
Decodes(b, marked) == IF b # delivered \/ marked THEN {FALSE} ELSE {TRUE, ended}

\* DecompressedBody looks into the header map, which WriteHeader may be filling:
\* the Go runtime ends the process if it notices.  What gzip cannot decode is
\* kept as it is.
Decompress ==
  /\ cpc = "decode"
  /\ \E decodes \in Decodes(entry.body, entry.marked) :
       entry' = [entry EXCEPT !.raw = encoding = "gzip" /\ entry.body # 0 /\ ~decodes]
  /\ fatal' \in {FALSE, hpc = "headers"}
  /\ cpc' = "bodyAgain"
  /\ UNCHANGED << hpc, mpc, ctx, captureVars, completed, clientVars,
                  logged, panicked >>

\* bodyWasDecompressed: Body() is called again and compared with the result, its
\* bytes
ReadBodyAgain ==
  /\ cpc = "bodyAgain"
  /\ \E b \in BodyReads :
       entry' = [entry EXCEPT !.decompressed =
                   \/ encoding = "gzip" /\ entry.body # 0 /\ ~entry.raw
                   \/ b # entry.body]
  /\ cpc' = "markAgain"
  /\ UNCHANGED << hpc, mpc, ctx, captureVars, completed, clientVars,
                  logged, panicked, fatal >>

\* and its marker.
ReadMarkAgain ==
  /\ cpc = "markAgain"
  /\ entry' = [entry EXCEPT !.decompressed = entry.decompressed
                                              \/ truncated # entry.marked]
  /\ cpc' = "status"
  /\ UNCHANGED << hpc, mpc, ctx, captureVars, completed, clientVars,
                  logged, panicked, fatal >>

\* reconstructStreamResponse panics on the upstream's data; the callback
\* recovers and there is no entry.
CallbackPanics ==
  /\ cpc = "status" /\ entry.body > 0 /\ ~entry.raw
  /\ panicked' = TRUE
  /\ cpc' = "end"
  /\ UNCHANGED << hpc, mpc, ctx, captureVars, completed, clientVars,
                  entry, logged, fatal >>

ReadStatus ==
  /\ cpc = "status"
  /\ entry' = [entry EXCEPT !.status = statusCode]
  /\ cpc' = "headers"
  /\ UNCHANGED << hpc, mpc, ctx, captureVars, completed, clientVars,
                  logged, panicked, fatal >>

\* Faulty variant: Content-Encoding is removed from every gzip answer.
ReadHeadersPlain ==
  /\ cpc = "headers"
  /\ fatal' \in {FALSE, hpc = "headers"}
  /\ entry' = [entry EXCEPT !.encoding = "identity"]
  /\ cpc' = "complete"
  /\ UNCHANGED << hpc, mpc, ctx, captureVars, completed, clientVars,
                  logged, panicked >>

\* cloneHeaders ranges over the map that WriteHeader may be filling;
\* sanitizeResponseHeaders removes Content-Encoding if the body was
\* decompressed.
ReadHeaders ==
  /\ cpc = "headers"
  /\ fatal' \in {FALSE, hpc = "headers"}
  /\ entry' = [entry EXCEPT !.encoding =
       IF hpc \in {"request", "headers"} \/ entry.decompressed THEN "identity"
                                                              ELSE encoding]
  /\ cpc' = "complete"
  /\ UNCHANGED << hpc, mpc, ctx, captureVars, completed, clientVars,
                  logged, panicked >>

\* IsComplete(), Error(), IsTruncated() and TruncatedAtBytes(), in this order.
ReadFlags ==
  /\ \/ /\ cpc = "complete" /\ cpc' = "error"
        /\ entry' = [entry EXCEPT !.complete = isComplete]
     \/ /\ cpc = "error" /\ cpc' = "truncated"
        /\ entry' = [entry EXCEPT !.error =
                       IF errorMsg.length = errorMsg.text THEN errorMsg.text
                                                          ELSE GarbledError]
     \/ /\ cpc = "truncated" /\ cpc' = "size"
        /\ entry' = [entry EXCEPT !.truncated = truncated]
     \/ /\ cpc = "size" /\ cpc' = "log"
        /\ entry' = [entry EXCEPT !.size = currentSize]
  /\ UNCHANGED << hpc, mpc, ctx, captureVars, completed, clientVars,
                  logged, panicked, fatal >>

\* auditWorker.Log(entry)
LogEntry ==
  /\ cpc = "log"
  /\ logged' = logged + 1
  /\ cpc' = "end"
  /\ UNCHANGED << hpc, mpc, ctx, captureVars, completed, clientVars,
                  entry, panicked, fatal >>

-----------------------------------------------------------------------------

\* What depends on the upstream and on the client.
Network ==
  \/ Respond \/ RequestFails \/ UpstreamBreaks \/ UpstreamEnds
  \/ \E n \in 1..MaxBytes : Write(n)
  \/ WriteFails
  \/ ClientDisconnects

\* What the two goroutines do of themselves.
HandlerStep ==
  CopyHeaders \/ Append \/ CountSize \/ FlagTruncation \/ StoreWriteError
    \/ HandlerFinalizes \/ HandlerCallbackReturns \/ Leave \/ Recover
MonitorStep ==
  StoreReason \/ MarkIncomplete \/ MonitorFinalizes \/ MonitorCallbackReturns
CallbackStep ==
  ReadBody \/ ReadMark \/ Decompress \/ ReadBodyAgain \/ ReadMarkAgain
    \/ CallbackPanics \/ ReadStatus \/ ReadHeaders \/ ReadFlags \/ LogEntry

Terminated ==
  /\ fatal \/ (hpc = "gone" /\ mpc = "gone")
  /\ UNCHANGED vars

Next ==
  \/ ~fatal /\ (Network \/ Deadline \/ HandlerStep \/ MonitorStep \/ CallbackStep)
  \/ Terminated

Spec == Init /\ [][Next]_vars

\* The scheduler runs every goroutine that can go on, and timers fire.  The
\* upstream owes nothing: it may never answer, and a stream may never end.
Fairness ==
  /\ WF_vars(~fatal /\ HandlerStep)
  /\ WF_vars(~fatal /\ MonitorStep)
  /\ WF_vars(~fatal /\ CallbackStep)
  /\ WF_vars(~fatal /\ Deadline)

FairSpec == Spec /\ Fairness

-----------------------------------------------------------------------------
(* Properties *)

\* "The callback is guaranteed to be called exactly once" (line 75): a stream
\* has at most one entry, whichever of completion, timeout, disconnect and
\* write error coincide.
AtMostOneEntry == logged <= 1

\* An entry that says it is complete holds the whole response: everything the
\* client got and its true length, no write of the handler is missing and nothing
\* was sent behind it.  Or it says that it is cut: then it has the first MaxSize
\* bytes, and there were as many.
CompleteIsWhole ==
  logged > 0 /\ entry.complete =>
    /\ entry.size = delivered /\ ~errorText
    /\ ~entry.truncated => entry.body = delivered
    /\ entry.truncated => entry.body = MaxSize /\ delivered >= MaxSize

\* A complete entry can be read: Content-Encoding says gzip exactly if the body
\* still is gzip, and an answer that was not truncated never is.
CompleteIsReadable ==
  logged > 0 /\ entry.complete =>
    /\ entry.encoding = "gzip" /\ entry.body # 0 <=> entry.raw
    /\ ~entry.truncated => ~entry.raw

\* An entry marked incomplete never comes without an error, although one
\* goroutine may store it while the callback of another is reading; the timeout
\* and a failed write are only given as the error when they happened.  The error
\* is half of two when both of them are reported at once, and only then.
IncompleteHasReason ==
  logged > 0 /\ ~entry.complete =>
    /\ entry.error # NoError
    /\ entry.error = "STREAM_TIMEOUT" => ctx = "deadline"
    /\ entry.error = "WRITE_ERROR" => writeErr
    /\ entry.error = GarbledError => writeErr /\ ctx # "live"

\* A stream that broke off, in the upstream or towards the client, is never
\* recorded as complete, whoever records it; nor is one that has not ended.  The
\* one exception can be told by its status: the proxy's own 502, when there was
\* no answer.
CompleteOnlyIfEnded ==
  logged > 0 /\ entry.complete => ended \/ entry.status = 502

\* Every stream is recorded: it is "force-finalized" at the timeout
\* (config.go:43-44) although the upstream never ends it.  Only a panic of the
\* callback, or the end of the process, prevents the entry.
EveryStreamRecorded == <>(logged > 0 \/ panicked \/ fatal)

\* An entry is either complete or has an error: "Empty string means no error
\* occurred" (models/audit.go:209).  The code does not keep this: the timeout
\* may fire while Complete's callback is reading.
CompleteHasNoError ==
  logged > 0 /\ entry.complete => entry.error = NoError

\* CLIENT_DISCONNECT is recorded when the client disconnected; an upstream
\* failure has an error of its own (models/audit.go:208).  The code does not
\* keep this: ReverseProxy's panic skips Complete, and the deferred cancel
\* wakes the monitor.
DisconnectMeansClient ==
  logged > 0 /\ entry.error = "CLIENT_DISCONNECT" => clientGone

\* "All gzip-compressed responses are automatically decompressed before
\* storage" (README.md:369), at least those that were received as a whole.  The
\* code does not keep this at max_audit_body_size: gzip cannot read the
\* truncation marker, nor a part.
GzipDecompressed == logged > 0 /\ entry.complete => ~entry.raw

\* Content-Encoding is removed "if the body was decompressed" (proxy.go:186): a
\* body that is still gzip keeps it.  The code does not keep this: it takes a
\* body that grew between two reads for one that was decompressed.
RawSaysGzip == logged > 0 /\ entry.raw => entry.encoding = "gzip"

\* The proxy is "transparent" (README.md:4): a client that is told that this is
\* the end of the answer has an answer that ended.  The code does not keep this:
\* ServeHTTP recovers ErrAbortHandler, with which ReverseProxy wants the
\* connection broken off, so that a half answer looks whole.
FinishedMeansEnded == finished => ended \/ statusCode = 502

\* And it gets the upstream's bytes and no others: Write forwards "to client
\* first (maintain transparency)" (response_capturer.go:135).  The code does not
\* keep this: http.Error in the recover (proxy.go:57) appends a text of its own.
NothingAppended == ~errorText

\* Truncated is "Only applicable when body exceeds max_audit_body_size"
\* (models/audit.go:217).  The code does not keep this: a body of exactly that
\* size is flagged, and gets the marker "response exceeded max_audit_body_size
\* limit" (response_capturer.go:208), although nothing of it is missing.
TruncatedMeansExceeded ==
  logged > 0 /\ entry.complete /\ entry.truncated => delivered > MaxSize

\* The error is one of those the proxy knows: "CLIENT_DISCONNECT",
\* "UPSTREAM_ERROR: connection reset", "STREAM_TIMEOUT" (models/audit.go:208).
\* The code does not keep this: monitor and handler may store theirs at the same
\* time, and a string that is read between its two words is neither.
ErrorIsKnown == logged > 0 => entry.error \in Messages

\* A stream that the client left before there was an answer is not complete:
\* IsComplete is "False if stream was interrupted before natural completion"
\* (models/audit.go:213).  The code does not keep this: ReverseProxy answers 502
\* to a request that was canceled, too, and returns to Complete(), which may
\* overtake the monitor.
CompleteMeansAnswered == logged > 0 /\ entry.complete => ended
=============================================================================
