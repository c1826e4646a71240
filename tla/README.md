# AIBlackBox: specifications and proofs

AIBlackBox is an audit proxy for LLM applications: it forwards HTTP requests to
named endpoints, records each request with its response as one line of
`logs/audit.jsonl`, and links the lines into a SHA-256 chain that `cmd/verify`
checks. This directory holds TLA+ models of the parts where goroutines,
failures and restarts meet and of the algorithms that decide what an entry says,
TLC configurations that check them on small instances, and TLAPS proofs of what
holds for every instance.

Run inside this directory: `tlc -config worker_order.cfg MCAuditWorker`
(`PROJECT.json` lists the module and the .cfg of each run) and
`tlapm AuditWorkerProofs.tla`.

## 1. The system

| component | source | state it keeps | operations |
|---|---|---|---|
| request handlers | `internal/proxy/proxy.go` | `nextSequenceID` | `ServeHTTP`, `handleRegularResponse`, `handleStreamingResponse` |
| response capturer, one per stream, with a monitor goroutine | `internal/proxy/response_capturer.go` | status, body, size, `truncated`, `isComplete`, `errorMsg`, `completed` | `WriteHeader`, `Write`, `Complete`, `StartMonitoring`, `finalize`, accessors |
| audit worker, one goroutine | `internal/audit/worker.go` | `entries` channel, `expectedSeq`, `pendingEntries`, `prevHash` | `NewWorker`, `Log`, `run`, `processEntry`, `Shutdown` |
| file storage | `internal/audit/file_storage.go` | the open file | `NewFileStorage`, `Write`, `Close` |
| main | `cmd/proxy/main.go` | - | start, signal, ordered shutdown with a 30 s limit |
| verifier | `cmd/verify/main.go` | the scan: expected hash, parse errors | `verifyLog`, `calculateHash` |
| routing | `proxy.go`, `internal/config/config.go` | - | `parseEndpoint`, `GetEndpoint`, `singleJoiningSlash` |
| stream reconstruction | `internal/proxy/stream_reconstruct.go` | - | `parseSSEChunks`, `reconstructOpenAIStream` |
| media extraction | `internal/media/extractor.go` | files on disk | `ExtractFromBody`, `saveMedia` |
| trace enrichment | `internal/trace/` | - | `EnrichTraceContext`, detectors |
| header masking | `proxy.go` | - | `sanitizeHeaders`, `maskSensitiveValue` |
| configuration | `internal/config/config.go` | - | `Load`, `Validate` |

How they interact. A handler proxies a request and builds an audit entry. A
regular request takes its sequence ID when its response is over, a stream when
it begins. The entry of a stream is built by a callback that runs once, in the
handler (`Complete`, or a failed `Write`) or in the monitor goroutine (timeout,
client gone, or the handler's deferred `cancel()`). Either way the entry goes
through a bounded channel to the worker, which writes entries in the order of
their IDs, parks the early ones in a bounded map, and gives the order up when
the map is full. On a signal, main waits up to 30 s for the handlers, closes
the channel, and waits for the worker to write what is left.

What is hard, and what makes each part correct:

- worker: entries arrive in any order, the map overflows, writes fail, and the
  channel closes under senders. The chain must have no gap; no entry may be lost
  or written twice; the order holds until it is explicitly given up; the worker
  never waits for what it already has.
- capturer: two goroutines share the capturer without a lock. There must be one
  entry per stream, and its flags must agree with its contents.
- shutdown and timeouts: handlers, monitors, worker and main end in some order.
  What a handler recorded must reach the file, and the process must end.
- restart: only the file survives. Each run's part of it must be sound, and the
  loss bounded.
- verifier: it must accept exactly what is a chain, and so find what was done to
  hashed contents; it cannot find what was done to the fields no digest covers.
- stream reconstruction: chunks arrive in any interleaving of text, fragments of
  tool calls, usage and noise, and the capture may be cut anywhere. What the
  rebuilt response says must be what was sent.
- traces: a request carries its whole conversation, with parallel calls, results
  in any order, images and failures. A span must be about the call or the turn
  that is new.
- media: images alike, too small or broken stand side by side in two bodies, the
  day changes, also between two images of one body, and numbering starts over.
  An entry and its files together must still be the body.
- routing: a path must lose nothing on its way to the endpoint its first segment
  names, whatever slashes base path and request have.

`PROJECT.json` lists each hazard at its line with the properties aimed at it.

## 2. Modules

| module | models | depends on |
|---|---|---|
| `HashChain` | entries, digests, genesis, `Chained` | - |
| `FileStorage` | the file and the three error returns of `Write` | `HashChain` |
| `AuditWorker` | worker with its clients, shutdown; properties | `FileStorage` |
| `AuditLog` | what the worker promises: an ordered log | `HashChain` |
| `Verify` | `verifyLog` as a fold over the file; reference definitions | `HashChain` |
| `AuditRestart` | several runs of the process on one file | `AuditWorker`, `Verify` |
| `ResponseCapturer` | one stream: handler, monitor, callback | - |
| `Proxy` | handlers, monitors, worker and main together | `AuditWorker` |
| `StreamReconstruct` | the fold over the captured lines of a stream | - |
| `Stream` | an upstream that streams, and a capture that may be cut | `StreamReconstruct` |
| `TraceContext` | the detectors and `EnrichTraceContext` | `StreamReconstruct` |
| `Conversation` | agents that talk to a model, and the spans of it | `TraceContext` |
| `MediaStore` | extraction from bodies over requests, days and restarts | - |
| `Routing` | `Load`, `Validate`, and `ServeHTTP` up to the `ReverseProxy` | - |
| `MCAuditWorker`, `MCAuditRestart`, `MCProxy`, `MCConversation`, `MCMediaStore`, `MCRouting` | constants and symmetry for TLC | |
| `AuditWorkerProofs` | types, chain, accounting, flush, bound, order, and that the worker implements `AuditLog`; then the proxy as its client, and the proxy's shutdown: proved | `Proxy` (with `AuditWorker`), TLAPS |
| `FoldTheorems` | induction, folds, flattening, the two loops of `stream_reconstruct.go`: lemmas | `StreamReconstruct`, TLAPS |
| `AuditRestartProofs` | what the verifier decides; chains, single records and bounded loss over restarts: proved | `AuditRestart`, `AuditWorkerProofs`, `FoldTheorems` |
| `ResponseCapturerProofs` | the entry of a stream, proved | `ResponseCapturer`, TLAPS |
| `StreamProofs` | text, arguments and finish of a rebuilt stream, proved | `Stream`, `FoldTheorems` |
| `ConversationProofs` | what the spans of a conversation say, proved | `Conversation`, `FoldTheorems` |
| `RoutingProofs` | names and paths arrive, proved | `Routing`, `FoldTheorems` |
| `MediaStoreProofs` | bodies come back, large images leave, proved | `MediaStore`, `FoldTheorems` |

`Stream` and `TraceContext` share `StreamReconstruct`: a span is made from the
response as the fold rebuilt it. `Routing`, `MediaStore` and `Conversation` are
not composed with the worker: they decide what an entry holds, and the worker
handles entries without looking into them.

Definitions named "Faulty variant" are not part of any specification. Each is
an operation with a bug that could plausibly be made in that code, and replaces
it in one model-checking run that must then fail.

### State and actions against the code

**HashChain.** A request stands for everything `computeHash` hashes on its
behalf; a digest is the sequence of everything hashed to reach it, which makes
two digests equal exactly when the hashed data are (SHA-256 without
collisions). The sequence ID is not hashed, as in the code. The genesis seed is
the same in every run.

**FileStorage.** `WriteOK` appends the line. `WriteErr` fails and leaves
nothing (`reject`: marshalling or writing fails), part of the line (`torn`) or
the whole line (`nosync`: `Sync` fails after the write). The mutex never
blocks, because one goroutine writes.

**AuditWorker.** `Receive` takes an entry from the channel, whose slot is free from
then on, into `inHand`; then one action per branch of `run`: `InSequence`, `Park`,
`FailOpen` (they share `Handle`), `Drain`, `DrainBreak`, `EndOfEntries`, `Flush`,
`CloseStorage`. Each contains the whole `processEntry`. A handler takes a number,
then logs once (`Log`, enabled while the channel has room), finds the channel closed
(`LogPanics`) or panics in between (`Abandon`, for `Malformed` streams).
`CloseEntries` is `Shutdown`; it may come at any time, because main goes on after 30
seconds whatever the handlers do. `pendingEntries` is keyed by sequence ID in the
code; IDs are distinct, so the model keeps the set of entries. `refused` and
`failedOpen` are history: they record what the code only logs.

**AuditLog.** Numbered entries are submitted, and recorded or refused once each,
at the end of one chain. An entry is decided in its turn unless the order is
given up. `AuditWorker!ImplementsAuditLog` maps the worker's state to it: the
file is the log, the order is given up by an overflow and by the flush at the
shutdown.

**Verify.** `ScanPart` is the loop body of `verifyLog`; the scan is a
`FoldLeft`. A torn part has no newline, so that it swallows the line after it.
`ReadsAsChain` says independently of the scan which files should pass.
`HashedEdits` are changes of what the digests cover: a line with other hashed
contents, an inner line removed, a line repeated, two neighbours exchanged.
`UnhashedEdits` changes the sequence ID, which stands for every change that leaves
what `computeHash` writes as it was: of the path, the method, the headers, the
duration, the truncation flag, and of bytes moved from the request body to the
response body, which are hashed without anything in between.

**AuditRestart.** `Crash` kills the process in any state, also with an entry in the
worker's hand; inside `processEntry` it may leave a torn line.
`RestartAfterShutdown` follows an orderly end. `Start` sets everything in memory
back, and keeps the file.

**ResponseCapturer.** Each access to a shared field is an action, in the order
of the statements. A string is two words that are stored one after the other,
so that a racing read can see one of each (`GARBLED`). A read of the body
during `body.Write` may return the old contents, the new ones or neither.
Iterating over the header map while it is written may end the process. Bodies
are numbers of bytes, gzip or not: `Decodes` says what decompression makes of a
body that is whole, cut, or has the truncation marker behind it. The callback
reads the captured bytes, then the truncation flag, then the header map (`ReadBody`,
`ReadMark`, `Decompress`), and bytes and flag once more (`ReadBodyAgain`,
`ReadMarkAgain`) for `bodyWasDecompressed`.
`net/http` is external: the upstream answers or not, sends, ends or breaks off,
and `ReverseProxy` panics when copying a body fails, which skips `Complete`.
A 502 is the proxy's own answer, to an upstream that failed as to a client that is
gone; the handler goes on to `Complete` without the upstream's answer having `ended`.
`Leave` is the handler's return with its deferred `cancel()`, `Recover` the recovered
panic of `ServeHTTP`, whose `http.Error` puts a text behind what the client got
(`errorText`); `finished` is what the client then sees of the answer's end. Of the
monitor's reasons `CONTEXT_ERROR` and `MONITORING_PANIC` are left out: a context that
is done has one of the other two errors, and the callback recovers its own panics.

**Proxy.** `AuditWorker` with its free clients replaced by handlers and
monitors that go through their stages, and its free `CloseEntries` by main. A
step of a handler that takes a number or logs *is* the client action of
`AuditWorker`, so that the composition is a behaviour of `AuditWorker!Spec` (lemma
`ProxyUsesWorker`) and what is proved there is true here. That numbers are distinct
is in `GetNextSequenceID`, one atomic add, and is not checked.

**StreamReconstruct.** A line is what is left of it after `TrimSpace`, `TrimPrefix`
and `Unmarshal`: no data, or an object with the fields the loop looks at; `"none"`
is a string that is absent or empty. `Parse` is the loop body of `parseSSEChunks`,
`Chunks` its fold. `Collect` is the loop body with its `continue`s in their order,
`Panics` its unchecked assertion, `Template` the first chunk as a template,
`Message` and `Reconstruct` the rest of the function with its early returns.

**Stream.** The upstream (external) says pieces of text, starts and continues a
tool call, finishes, sends usage, comments, or an error event; `Cut` ends the
capture at any line (limit, timeout, disconnect). `said` is what was meant, and
the properties compare it with `Recorded`, the fold over the lines so far.

**TraceContext.** Requests are sequences of messages. A message whose content is
a list of parts makes `Unmarshal` into a string field fail for the request, so
that no detector sees any of it. `DetermineSpanType` and `EnrichTraceContext`
keep the order of the code's cases, with the return before the metadata is added.
A hash stands for what it hashes.

**Conversation.** Agents and model are external, as the OpenAI protocol has them: a
request carries the whole history; an answer is text, calls or both; each call gets
its result, in any order; a user may add questions while there is no answer.
`Record` is one request through the proxy, with the answer as it is, or streamed
(`AsStream`, in fragments or not) and rebuilt. `entries` keeps what each span was
meant to say beside what it says.

**MediaStore.** A body is a sequence of atoms: heads of images, pieces of base64,
loose pieces (another spelling of the same bytes, which `DecodeString` accepts),
pieces that do not decode, other text, placeholders. Files hold the decoded bytes,
hashes are of the text. `Matches` are the positions where `FindAllStringSubmatch`
finds an image, `Match` the image there; `Extract` is one turn of the loop, which
replaces the *first* occurrence of the match's text. A path is day, number, body,
index and type; the clock is read for each image (`Savings`), so that midnight may
fall between two of one body. A kill between two images leaves what it leaves when
the later ones cannot be saved. `Store` writes a file over what was there; a save
can be impossible (no directory, no file) or be cut short, which leaves a truncated
file. `Number`, `ExtractRequest`, `ExtractResponse` and `Record` are the steps of
one request, `Midnight` changes the day between any two, `Restart` starts the
numbers over and forgets the requests under way.

**Routing.** `Loaded` is the precedence of environment, file and default,
`Validate` its checks, `Start` the process that serves or does not. `Route` has
the early returns of `ServeHTTP` in their order, `ParseEndpoint`, `GetEndpoint`
and `SingleJoiningSlash`, and what the director makes of the path. Paths are
sequences of slashes, escaped slashes and words, and begin with a slash, as the
paths of HTTP requests do. `Segments`, in which the properties compare paths, goes
through one once.

## 3. Runs

Runs that must pass:

| run | instance | what it shows |
|---|---|---|
| `worker_order` | 4 requests, room for 3 early ones, channel of 1, 1 rejected write | order, chain, accounting, flush, refinement of `AuditLog`; each logged entry is eventually decided and `Shutdown` returns |
| `worker_overflow` | 5 requests, one abandoned, room for 1 early entry, channel of 2 | the order is given up only when more entries are held back than the map can take; then the map keeps its bound and the worker still implements `AuditLog` |
| `restart` | 4 requests, one with a line too long for the verifier, 3 runs, 1 failing write of any kind, kills anywhere | each run's lines are a chain, nothing twice, loss bounded; the verifier accepts exactly the chains, for all these files and all edits of the undamaged ones; of a first run's file it refuses all `HashedEdits` and accepts all `UnhashedEdits` |
| `capturer` | limit of 2 bytes, upstream of at most 3, plain or gzip | one entry per stream; a complete entry is whole, its stream ended, and it says whether its body is still gzip; an incomplete one has an error, which is half of two only when two are reported at once; every stream is recorded |
| `proxy` | 2 streams, 1 regular request, channel of 1, room for 2 | shutdown in time loses nothing a handler recorded; a slow stream holds others back only until its timeout; a signal ends the process |
| `stream` | every stream of up to 6 events for one choice, cut anywhere | the text is a beginning of what was said, and all of it if the capture was whole; no fragment of arguments is lost or moved, if there is no text beside the calls; it looks finished only if it finished |
| `conversation` | 2 agents, one with up to 2 calls in an answer, one with up to 3 messages before an answer, up to 3 entries | a call is reported exactly when the model made one (streamed beside text excepted), with its identifier; a result names a call that really returned in its conversation; a span is multi-turn after an answer, and before one only if the user asked more than once; the conversation of an agent stays the same |
| `media` | 2 requests, 2 bodies each, of two kinds, 2 runs, 2 days with midnight also between two images, one failing save for each body, with and without a file left | each body can be had back from its entry and the files, unless a later run wrote on the same day or its base64 is not canonical; no large image stays in an entry |
| `routing` | paths of up to 5 tokens, 7 lists of endpoints, 4 settings, 3 environments | every endpoint with the path's first segment as its name has the host the request was sent to, and the other segments arrive behind the base path as they were |

Runs that must find a violation. Each checks a sentence of the repository that
the code does not keep (`findings` in `PROJECT.json` quotes them):

| run | property | what happens |
|---|---|---|
| `gap_stalls` | `EventuallyRecorded` | a stream whose first choice is no JSON object panics after it was numbered (`stream_reconstruct.go:117`); all later entries wait until the shutdown, or until the map is full and the order is given up |
| `restart_breaks_chain` | `ChainSurvivesRestart` | a second run starts from the genesis digest; the verifier says "chain broken" |
| `upstream_blamed` | `DisconnectMeansClient` | an upstream that breaks off is recorded as `CLIENT_DISCONNECT` |

Further disagreements. The modules define these properties, too, each with the
sentence it is taken from; no run is kept for them. Each is violated when it is
added as an INVARIANT to the .cfg named, with the change in the last column:

| property | what happens | source | .cfg, change |
|---|---|---|---|
| `NoneReadyParkedEver` | after an overflow `expectedSeq` may point at a parked entry, and nobody looks | `worker.go:103` | `worker_overflow` |
| `AnyTamperingDetected` | fields that no digest covers can be changed unnoticed | `worker.go:154` | `restart` |
| `UntouchedNotTampered` | the hash covers raw bytes, the file U+FFFD; the verifier says "data tampered" | `file_storage.go:48` | `restart`, `NotUTF8 <- OneBinary`, `LongLines = {}` |
| `CompleteHasNoError` | the timeout fires between the callback's reads of `isComplete` and `errorMsg` | `proxy.go:488` | `capturer` |
| `ErrorIsKnown` | a timeout and a failed write store their errors at once; the callback reads one word of each | `response_capturer.go:102` | `capturer` |
| `TruncatedMeansExceeded` | a body of exactly the limit is flagged and marked as exceeding it | `response_capturer.go:161` | `capturer` |
| `CompleteMeansAnswered` | a client gone before the answer makes `ReverseProxy` send a 502, and `Complete` follows | `proxy.go:526` | `capturer` |
| `GzipDecompressed` | a body at the limit has the truncation marker behind it, and is not decompressed | `response_capturer.go:240` | `capturer` |
| `RawSaysGzip` | the body grows between the two reads, is stored raw and loses its Content-Encoding | `proxy.go:449` | `capturer` |
| `NothingAppended` | `http.Error` in the recover puts its text behind half an answer | `proxy.go:57` | `capturer` |
| `FinishedMeansEnded` | the recovered panic ends a broken answer as if it were whole | `proxy.go:55` | `capturer` |
| `ShutdownLosesNothing` | `server.Shutdown` does not wait for a monitor that has an entry to send | `cmd/proxy/main.go:85` | `proxy` |
| `NumberedOnArrival` | a regular request is numbered after its response | `proxy.go:345` | `proxy` |
| `RegularRecorded` | a regular response that breaks off leaves no entry | `proxy.go:339` | `proxy` |
| `UsageRebuilt` | usage in a last chunk without choices is skipped | `stream_reconstruct.go:113` | `stream` |
| `CallsRebuilt` | the fragments of a call become calls of their own | `stream_reconstruct.go:135` | `stream` |
| `ContentRebuilt` | several choices end up in one message | `stream_reconstruct.go:117` | `stream`, `Wanted = {0, 1}` |
| `TextSearchable` | a completions stream is recorded as an empty message | `stream_reconstruct.go:119` | `stream`, `Legacy = TRUE` |
| `ResultMatchesParent` | from the second call on, the result names the first | `detector.go:95` | `conversation` |
| `ConversationThreaded` | tool spans and requests with images have no conversation | `detector.go:214` | `conversation` |
| `ToolCallSpans` | streamed calls beside text are dropped | `stream_reconstruct.go:158` | `conversation` |
| `ErrorsClassified` | an HTTP error is an `AGENT_THINKING` span | `detector.go:155` | `conversation` |
| `MediaAuthentic` | after a restart on the same day files are overwritten; of an image in another spelling than an encoder's the text has the hash, not the file | `extractor.go:118` | `media` |
| `LargeExtracted` | the placeholder goes into a broken image that begins alike | `extractor.go:97` | `media`, `Bodies <- AlikeBodies` |
| `PathTransparent` | an escaped slash is sent as a slash | `proxy.go:105` | `routing` |
| `ValidConfigServes` | a target that does not parse passes `Validate` and answers 500 | `config.go:140` | `routing`, `Files <- BrokenFiles` |
| `EnvironmentWins` | `ABB_SERVER_PORT` is not looked for | `config.go:85` | `routing` |

### Bounds

- Requests: 3 are enough for an entry that arrives early, waits and is drained
  with another; 4 and 5 add overflow with entries on both sides of the jump,
  and shutdown with entries in the channel, the map and a handler at once.
- `BufferSize` 1 or 2 and `MaxPending` 1 to 3 stand for 1000 and 1000: full,
  not full and (for `MaxPending` = requests - 1) never full.
- `MaxFaults` 1: the code keeps nothing about a failed write, so that a second
  one meets the same states.
- `MaxRuns` 3: two boundaries between runs, so that a run has one on each side.
- `MaxParseErrors` 1 stands for 10: both sides of the limit occur.
- `MaxSize` 2, `MaxBytes` 3: bodies below, at and beyond the limit, in one
  chunk and in several, and a chunk that crosses the limit.
- `MaxEvents` 6: text before and after a call in two fragments, with its finish
  and usage. `Wanted` and `Legacy` are choices the client makes.
- `MaxAsked` 3 for the agent without calls, 0 for the other: a question, with and
  without a system message, and enough more of them for the count to decide.
- `MaxEntries` 3: call, result and the answer to it; `MaxCalls` 2 for one agent,
  so that results come in both orders, and 0 for the other.
- `MaxFailed` 1: a failing save before or after one that works. The bodies have
  broken images before two alike, and one too small before a loose one.
- `MinSize` 2: images of one piece are too small. Two requests, runs and days:
  one boundary of each kind, with requests before, across and after it.
- Paths of 5 tokens: a slash, the name, and every arrangement of three more.
- Symmetry only among requests that are alike, and only in runs without
  liveness; `restart` leaves the request with the long line out of it.

### Fairness

- The worker, each goroutine of a stream and main go on when they can: the Go
  scheduler (weak fairness).
- A sender blocked on the full channel gets its turn: Go queues senders first in
  first out (strong fairness of `Log`, because other senders may fill the
  channel again).
- Timers fire: the stream's deadline, and the 30 seconds of the shutdown.
- Nothing is assumed of upstreams and clients: a stream may never end, no
  request has to arrive, no signal has to come. Handlers between their number
  and `Log` only compute, so they go on.

## 4. Proofs

For every set of requests (infinite ones too), every `BufferSize` and
`MaxPending` and every number of failing writes:

| theorem | says | assumes |
|---|---|---|
| `TypeCorrect` | `Spec => []TypeOK` | - |
| `PendingStaysBounded` | `Spec => []PendingBounded` | - |
| `ChainUnbroken` | `Spec => []ChainLinked` | failing writes leave the file alone |
| `EntriesAccounted` | `Spec => []Accounted` | the same |
| `FlushedAtShutdown` | `Spec => []ShutdownFlushes` | the same |
| `OrderKeptWhileRoom` | `Spec => GivesUpOnlyWhenFull` | the same |
| `WrittenInOrder` | `Spec => []InSequenceOrder` | failing writes leave the file alone |
| `TurnNotMissed` | `Spec => []NoneReadyParked` | the same |
| `WorkerImplementsLog` | `Spec => ImplementsAuditLog` | failing writes leave the file alone |
| `RestartTypeCorrect` | `RestartSpec => []TypeOK` | - |
| `RunsChained` | `RestartSpec => []EachRunChained` | - |
| `NothingRecordedTwice` | `RestartSpec => []NotRecordedTwice` | - |
| `LossStaysBounded` | `RestartSpec => []LossBounded` | - |
| `ProxyTypeCorrect` | `ProxySpec => []ProxyTypeOK` | - |
| `ProxyKeepsLog` | `ProxySpec => [](ChainLinked /\ Accounted /\ ShutdownFlushes)` | failing writes leave the file alone |
| `ProxyImplementsLog` | `ProxySpec => ImplementsAuditLog` | failing writes leave the file alone |
| `OnlyMonitorsLose` | `ProxySpec => []OnlyMonitorsFindClosed` | - |
| `ShutdownKeepsHandlersEntries` | `ProxySpec => []HandlersRecorded` | failing writes leave the file alone |

For every file of any length, and for the file of every behaviour of the restarts:

| theorem | says | assumes |
|---|---|---|
| `VerifierExact` | `verifyLog` succeeds exactly for the files that read as one chain and have no body outside UTF-8 | - |
| `ChainAccepted` | it accepts every chain of lines it can read | - |
| `EditsRefused` | it refuses every edit of a chain's hashed contents, of its lines and of their order | - |
| `UnhashedEditsPass` | it accepts every chain with another sequence ID in one line | - |
| `VerifierDecides` | `RestartSpec => []VerifierDecidesChain` | bodies are UTF-8 |
| `FirstRunJudged` | `RestartSpec => []FirstRunTamperEvident` | bodies are UTF-8 |

For streams, conversations, endpoints, paths and bodies of every length and number:

| theorem | says | assumes |
|---|---|---|
| `TextRebuilt` | `Spec => []ContentRebuilt` | a chat with one choice |
| `ArgumentsRebuilt` | `Spec => []ArgumentsKept` | - |
| `ReasonRebuilt` | `Spec => []FinishRebuilt` | a chat |
| `CallSpans` | `Spec => []CallsDetected` | - |
| `ResultSpans` | `Spec => []ResultsResolve` | - |
| `TurnsCounted` | `Spec => []MultiTurnMeant` | - |
| `ConversationsKeptApart` | `Spec => []ConversationStable` | no agent's prompt is the question another asks after an empty one |
| `RoutesByName` | `Spec => []RoutedByName` | - |
| `PathsArriveWhole` | `Spec => []PathKept` | - |
| `BodiesComeBack` | `Spec => []BodiesRestorable` | - |
| `LargeImagesLeave` | `Spec => []LargeExtracted` | no image that does not decode begins like a large one (`BrokenApart`) |

For every `MaxSize` and every number of bytes and chunks, of
`ResponseCapturer!Spec` without fairness, and with no assumption but those on
the constants' types:

| theorem | says |
|---|---|
| `CapturerTypeCorrect` | `[]TypeOK` |
| `RecordedOnce` | `[]AtMostOneEntry` |
| `CompleteEntriesWhole` | `[]CompleteIsWhole` |
| `CompleteEntriesReadable` | `[]CompleteIsReadable` |
| `IncompleteEntriesExplained` | `[]IncompleteHasReason` |
| `BrokenNeverComplete` | `[]CompleteOnlyIfEnded` |

`Faults \subseteq {"reject"}` is a real restriction: after a `nosync` or `torn`
write the file holds something `prevHash` does not cover, and then `ChainLinked`
is false. What remains true in that case is `EachRunChained`, which leaves out
the lines of writes that failed, and which is proved without the restriction.

The assumptions of the second and third table are where the code stops keeping
the promise, and each has its counterexample. A body that is not UTF-8 comes
back from JSON as another one than was hashed (`UntouchedNotTampered` in section
3; `VerifierExact` says it without the assumption). With several choices, or on the
completions endpoint, the text is not what was sent (`ContentRebuilt`,
`TextSearchable` there). `GenerateConversationID` skips an empty question and hashes
the next one, so that somebody who begins with that one has the same identifier;
`ConversationsKeptApart` assumes that nobody does. The replacement of an image hits
an earlier one that was left inline because it does not decode, if that one begins
with the same text (`LargeExtracted` in section 3); `BrokenApart` says that none does.
The bodies come back even then, if they are canonical: of an image that spells its
bytes as no encoder does the file has the bytes and not the spelling
(`DecodeEncode`). Both theorems about media rest on
`BodiesAssumption`: no body contains the text of a placeholder, which could not be told
from the code's own, and text stands between an image and the next, as the quotes of
JSON strings do, so that the pattern finds each image where it begins; and only the
last piece of an image can be loose.

The argument. `TypeInv` adds to `TypeOK` that whatever is in the channel or in
the map has a number (`Numbering`): without it `processEntry` could write a line
whose sequence ID is no natural number. `ChainLinked` is then inductive: only
`ProcessEntry` changes the file or `prevHash`, and the lemma `ChainAppend`
covers its two outcomes. `Accounted` needs both: that a line is appended as a
whole comes from the chain lemmas, that an entry leaves one place and enters
another from `LogPlaces`, `ReceiveTakes` and `ProcessEntryDecides`, which turn
sequences into the sets the invariant speaks of. `AccountInv` is their
conjunction. The flush then needs `Ending` (a worker that has left its loop has
an empty channel that stays closed).

The order (`OrderInv`) needs the accounting once more. `InSequenceOrder` speaks
of the numbers of the decided requests, and a number is given only to a request
that is not decided, because what is decided was logged (`DecidedLogged`). That
each line carries the number of its request (`LinesNumbered`) turns "the decided
numbers are those below `expectedSeq`" into "every line's number is below
`expectedSeq`", so that the line appended for the expected entry continues the
order (`ProcessExpected`). The bound on the map is no premise: an overflow ends
the promise instead. `TurnNotMissed` ends with it, too (`NoneReady` extends it to the
moment in which an entry is in hand); what happens afterwards is in section 3.
`OrderKeptWhileRoom` is about the overflow itself: when the map is found full, neither
a parked entry nor the one in hand is due (`NoneReady`), and none has a number of
those the worker is done with, so that all of them are held back (`OverflowHolds`), and
they are one more than the map has room for.

The refinement. Every step of the worker is a step of `AuditLog` under the
mapping, or a stutter (`RefineStep`). What has to be shown is that an entry the
abstract log decides in order *has its turn*: that every number below its own
belongs to a decided entry. `OrderInv` says the worker is done with exactly the
numbers below `expectedSeq`, and `NumbersUnique` (numbers are distinct and below
`nextSequenceID`) that no other entry has the number in question
(`ExpectedHasTurn`). After an overflow or during the flush the abstract log has
given the order up, and nothing needs to be shown.

Restarts. `RestartInv` needs two things of what a kill leaves behind. `Tracked`:
a logged entry is in the channel, in the map, decided, or lost in an earlier
run, and in one of these only, so that no later run can write it again.
`ChainedSoFar`: `prevHash` is the hash of the last accepted line of the *present*
run's part of the file (`EndsIn`), or the genesis digest. A line whose write
failed is refused in the same step, so that it is not accepted and moves no end
(`EndsInSkips`); a part at the end of the file changes nothing about the parts
before it (`EndsInKept`, `LinksKept`), and the first line of a run starts from
the genesis digest because `Start` sets `prevHash` back. `LossInv` adds that the
lost entries are finite in number: at a kill `lost` grows by at most the channel
(`ChannelSize`), the map (`PendingBounded`) and the one entry in hand
(`OneInHand`), and the number of runs by one.

The capturer. `IInv` has one part per reason an entry could be wrong. `OneCallback`:
`completed` is set exactly when the callback has begun, it runs in one goroutine,
and the entry is sent in its last step; this gives `RecordedOnce`. `Flow`: a
handler that completes has seen the answer's end, and whoever finalizes for
another reason has cleared `isComplete`. `ReasonStored`: whoever clears it stores
both words of the error before it finalizes, so that the callback reads them, and
`ReasonsFounded` that each word is that of a reason there was: half a timeout and half
a failed write need both.
`FlagsRead` says what the flags the callback has read tell. `Captured` relates
body, size and `truncated` to the bytes delivered, through the steps of `Write`;
`EntryRead` what the callback has read of them to what they are,
because a handler that completes writes no more, whereas a callback of the monitor,
during whose reads the handler may still write, has read `isComplete` as false.

The proxy. `ProxyStepRefines` maps each step of handlers, monitors and main to a
step of `AuditWorker` (a number, a `Log` or its panic, the close) or to none;
the worker's theorems then hold of the proxy as they stand. The shutdown needs
`ShutdownInv`: the channel stays open until main leaves the draining
(`MainInOrder`); if the server drained in time no handler is running then, and
none starts; and where a handler stands says how far its entry is
(`HandlersInOrder`: a handler that recorded has returned with its entry logged,
or panicked). A handler can therefore panic on the closed channel only after a
timeout, and with `ShutdownFlushes` every logged entry is decided at the exit.

Folds. What a fold computes is induction over data, which the library states
for operators; here it is derived from the pigeonhole principle for a *set* of
indices instead (`SetInduction`: a set of numbers that has 0 and no last element
is all of them). `FoldLeft` is a choice of some function that satisfies a
recursion; `FoldExists` and `FoldChoice` show that there is one and what it is,
`FoldIsFolded` that the result is the last of a course of values, and
`FoldedAppend` that one more element is one more step. The loops then have a
lemma each that says what one more line does (`ChunksAppend`, `GatheredAppend`,
`SegmentsAppend`), and nothing else is needed of them.

The verifier. The scan keeps the parsed lines, the expected hash and the number of
lines it could not parse; it is intact as long as each line's digest is the one
computed and each `prev` that of the line before (the invariant of the scan in
`VerifierExact`). An edit of a chain is refused because every kind of it leaves a
line whose digest is not its own, or two neighbours that do not fit: a digest
holds everything hashed before it and is longer than the one before, so that the
line that follows a removed, repeated or exchanged one cannot start from it
(`EditsBreak`). An edit of the sequence ID changes no digest and no link, so that the
file stays a chain (`UnhashedEditsPass`).

Streams. `StreamInv` compares what the loop has *gathered* of the captured lines
(`Gathered`) with what was said, for text, calls and finish. A captured event adds to
both what it says; after the cut only `said` grows, so that the recorded text
is a beginning. `ReconstructShows` takes this from the loop to the response that is
recorded, through the early returns at its end.

Conversations. `TalkMeans` says what messages mean: their results are those of
tools that returned, there is an answer among them exactly if the agent got one,
and before it questions alone but for a system message in front. `EntryMeans` says the
same of an entry, and `TurnsMeant` ties roles and number of messages to the answers:
three messages without an answer have two questions among them, which is what
`IsMultiTurnConversation` counts on. That a streamed answer gives the span
of the answer itself is `AnswerStreamed`, by way of `Gathered`.

Routing. A slash of the path cuts its segments in two, wherever it is
(`SegmentsCut`). `ParseEndpoint` takes the first segment and leaves the rest
(`ParseKeeps`), `SingleJoiningSlash` puts rest behind base with exactly one slash
in between, for the four cases of slashes there (`JoinKeeps`). That every endpoint
of the name has the same host is the uniqueness `Validate` checks, which is true
of any process that serves.

Media. A list of references shows each placeholder as the image it stands for
(`Showing`), and a body shows the concatenation of what its atoms show
(`Expand`). A turn of the loop replaces one occurrence of an image, whichever it is,
by a placeholder that shows the same, so that the body goes on showing the original
(`ReplacedExpands`, `TurnShows`, and `ExtractSound` for the whole loop). To put
this on disk, `MediaInv` says that requests under way have distinct numbers of the
present run (`Numbered`), that no entry of this run in the log has the number of one of
them (`OwnNumber`), and that the files hold what an entry's references say until a
later run stores files on one of the entry's days (`LogKept`). A request writes
only under its own number, kind of body and day (`Since`), so that it leaves
everybody else's files alone (`StillHeld`). That no large image stays needs the
*place* of the replacement: behind turn i everything before some position of the
body is done, and everything from there on is as it was in the original
(`ThroughAt`). An image to be replaced begins at that position, and nowhere
before it: a head that is done has no piece, or is of an image that is too small
to contain this one, or of a broken one, which `BrokenApart` excludes
(`NotEarlier`).

Only model-checked: everything with liveness or fairness, which is beyond the
prover.

## 5. Not modelled

- Header masking: sequential code about the characters of single values.
- How `viper` reads YAML and converts values: only valid and invalid ones are
  told apart.
- Random trace and span identifiers, names of spans, hashes of payloads,
  durations and timing metadata: no state of another part depends on them.
- `DetectBase64Images` and `EstimateBase64ImageSize`: no callers.
- Regular responses are captured by the code of `ResponseCapturer` without a
  limit and without a monitor; `Proxy` models their handlers.
- The durations themselves, HTTP beyond what reaches the capturer, logging.
- The verifier's exit code for an unreadable file and its printed output.

## 6. Plan

Done, in this order: the worker with its abstract log (`HashChain`,
`FileStorage`, `AuditWorker`, `AuditLog`), the file over several runs (`Verify`,
`AuditRestart`), streams and composition (`ResponseCapturer`, `Proxy`), their
proofs; then `StreamReconstruct` with `Stream`, `TraceContext` with
`Conversation`, `MediaStore`, `Routing`; the proofs of the capturer, of the
refinement and of the restarts; then of the verifier, the streams, the traces, the
routing and the media.

Open:

1. What the disagreements of section 3 come to when the code is changed: each
   property there is ready to become an invariant of the run named beside it.
2. `MediaStore` composed with `AuditRestart`, so that the kill that restarts the
   numbers is the same that loses entries whose files are already written.
3. `ChainLinked` for a worker that reads the end of the chain from the file at
   its start, should `NewWorker` come to do so: `EachRunChained` and its proof
   then become one chain over all runs.
