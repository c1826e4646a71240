-------------------------------- MODULE Proxy --------------------------------
(***************************************************************************)
(* The proxy as a whole: request handlers (internal/proxy/proxy.go), each  *)
(* streamed response with its monitor goroutine, the audit worker, and     *)
(* main (cmd/proxy/main.go), which ends them in order.                     *)
(*                                                                         *)
(* A regular request takes its sequence number when its response is over,  *)
(* a streamed one when it begins.  What a stream's entry holds is the      *)
(* subject of module ResponseCapturer; here it only matters who records    *)
(* it: the handler or the monitor, whoever wins finalize.                  *)
(***************************************************************************)
EXTENDS AuditWorker

CONSTANT Streams    \* the requests that are handled as streams
ASSUME StreamsAssumption == Streams \subseteq Requests

VARIABLES
  stage,      \* where the handler of each request is
  monitor,    \* where the monitor of each stream is
  recorder,   \* who won finalize: it runs the callback
  mainpc,     \* where main is
  timedOut    \* server.Shutdown gave up after 30 seconds

proxyVars == << stage, monitor, recorder, mainpc, timedOut >>
allVars == << vars, proxyVars >>

Regular == Requests \ Streams

\* The variables that Proxy adds.
StagesTypeOK ==
  /\ stage \in [Requests -> {"idle", "proxying", "answered", "streaming",
                             "recording", "returned"}]
  /\ monitor \in [Streams -> {"none", "waiting", "recording", "gone"}]
  /\ recorder \in [Streams -> {"none", "handler", "monitor"}]
  /\ mainpc \in {"running", "draining", "flushing", "exit"}
  /\ timedOut \in BOOLEAN

ProxyTypeOK == TypeOK /\ StagesTypeOK

ProxyInit ==
  /\ Init
  /\ stage = [r \in Requests |-> "idle"]
  /\ monitor = [r \in Streams |-> "none"]
  /\ recorder = [r \in Streams |-> "none"]
  /\ mainpc = "running"
  /\ timedOut = FALSE

Goto(r, from, to) ==
  /\ stage[r] = from
  /\ stage' = [stage EXCEPT ![r] = to]

\* The callback, or the end of handleRegularResponse: the entry is handed to
\* the worker, or a panic is recovered.
Records(r) == Log(r) \/ LogPanics(r) \/ Abandon(r)

-----------------------------------------------------------------------------
(* handleRegularResponse *)

\* A request may arrive while server.Shutdown waits, and after it gave up, on a
\* connection that was open before; if it returned in time there is none.
Serving == mainpc \in {"running", "draining"} \/ timedOut

Accept(r) ==
  /\ r \in Regular /\ Serving
  /\ Goto(r, "idle", "proxying")
  /\ UNCHANGED << vars, monitor, recorder, mainpc, timedOut >>

\* ReverseProxy panics with ErrAbortHandler: ServeHTTP recovers and the
\* request leaves no entry and takes no number.
RegularBreaks(r) ==
  /\ r \in Regular
  /\ Goto(r, "proxying", "returned")
  /\ UNCHANGED << vars, monitor, recorder, mainpc, timedOut >>

\* The response is over: the request gets its number.
RegularAnswered(r) ==
  /\ r \in Regular
  /\ Goto(r, "proxying", "answered")
  /\ GetNextSequenceID(r)
  /\ UNCHANGED << monitor, recorder, mainpc, timedOut >>

RegularRecords(r) ==
  /\ r \in Regular
  /\ Goto(r, "answered", "returned")
  /\ Records(r)
  /\ UNCHANGED << monitor, recorder, mainpc, timedOut >>

-----------------------------------------------------------------------------
(* handleStreamingResponse *)

StreamStarts(r) ==
  /\ r \in Streams /\ Serving
  /\ Goto(r, "idle", "streaming")
  /\ GetNextSequenceID(r)
  /\ monitor' = [monitor EXCEPT ![r] = "waiting"]
  /\ UNCHANGED << recorder, mainpc, timedOut >>

\* ReverseProxy returns and Complete finalizes, or a Write to the client fails
\* and finalizes: the handler records unless the monitor was first.
StreamEnds(r) ==
  /\ r \in Streams
  /\ \/ /\ recorder[r] = "none"
        /\ Goto(r, "streaming", "recording")
        /\ recorder' = [recorder EXCEPT ![r] = "handler"]
     \/ /\ recorder[r] = "monitor"
        /\ Goto(r, "streaming", "returned")
        /\ UNCHANGED recorder
  /\ UNCHANGED << vars, monitor, mainpc, timedOut >>

\* The upstream breaks off: ReverseProxy panics, ServeHTTP recovers, and the
\* deferred cancel leaves the recording to the monitor.
StreamBreaks(r) ==
  /\ r \in Streams
  /\ Goto(r, "streaming", "returned")
  /\ UNCHANGED << vars, monitor, recorder, mainpc, timedOut >>

StreamRecords(r) ==
  /\ r \in Streams /\ recorder[r] = "handler"
  /\ Goto(r, "recording", "returned")
  /\ Records(r)
  /\ UNCHANGED << monitor, recorder, mainpc, timedOut >>

-----------------------------------------------------------------------------
(* StartMonitoring *)

\* Faulty variant: the monitor does not return from Done() on the deadline,
\* only when the handler has returned.
MonitorWakesOnReturn(r) ==
  /\ r \in Streams /\ monitor[r] = "waiting" /\ stage[r] = "returned"
  /\ \/ /\ recorder[r] = "none"
        /\ recorder' = [recorder EXCEPT ![r] = "monitor"]
        /\ monitor' = [monitor EXCEPT ![r] = "recording"]
     \/ /\ recorder[r] = "handler"
        /\ monitor' = [monitor EXCEPT ![r] = "gone"]
        /\ UNCHANGED recorder
  /\ UNCHANGED << vars, stage, mainpc, timedOut >>

\* The stream's context ends: at its deadline, when the client disconnects,
\* and at the latest when the handler returns.  The monitor finalizes.
MonitorWakes(r) ==
  /\ r \in Streams /\ monitor[r] = "waiting"
  /\ \/ /\ recorder[r] = "none"
        /\ recorder' = [recorder EXCEPT ![r] = "monitor"]
        /\ monitor' = [monitor EXCEPT ![r] = "recording"]
     \/ /\ recorder[r] = "handler"
        /\ monitor' = [monitor EXCEPT ![r] = "gone"]
        /\ UNCHANGED recorder
  /\ UNCHANGED << vars, stage, mainpc, timedOut >>

MonitorRecords(r) ==
  /\ r \in Streams /\ monitor[r] = "recording"
  /\ Records(r)
  /\ monitor' = [monitor EXCEPT ![r] = "gone"]
  /\ UNCHANGED << stage, recorder, mainpc, timedOut >>

-----------------------------------------------------------------------------
(* main *)

\* SIGINT or SIGTERM: server.Shutdown closes the listener and waits.
Signal ==
  /\ mainpc = "running"
  /\ mainpc' = "draining"
  /\ UNCHANGED << vars, stage, monitor, recorder, timedOut >>

\* Faulty variant: the worker is shut down without waiting for the server.
ShutdownAtOnce ==
  /\ mainpc = "draining"
  /\ CloseEntries
  /\ mainpc' = "flushing"
  /\ UNCHANGED << stage, monitor, recorder, timedOut >>

\* server.Shutdown returns because no request is active; it knows nothing of
\* the monitors.  auditWorker.Shutdown closes the channel.
ServerDrained ==
  /\ mainpc = "draining"
  /\ \A r \in Requests : stage[r] \in {"idle", "returned"}
  /\ CloseEntries
  /\ mainpc' = "flushing"
  /\ UNCHANGED << stage, monitor, recorder, timedOut >>

\* Faulty variant: server.Shutdown is given a context without a deadline.
ShutdownWithoutDeadline ==
  /\ mainpc = "draining"
  /\ \A r \in Requests : stage[r] \in {"idle", "returned"}
  /\ CloseEntries
  /\ mainpc' = "flushing"
  /\ timedOut' = TRUE
  /\ UNCHANGED << stage, monitor, recorder >>

\* server.Shutdown returns with an error after shutdownTimeout, which main
\* logs; it goes on all the same.
ShutdownTimeout ==
  /\ mainpc = "draining"
  /\ \E r \in Requests : stage[r] \notin {"idle", "returned"}
  /\ CloseEntries
  /\ mainpc' = "flushing"
  /\ timedOut' = TRUE
  /\ UNCHANGED << stage, monitor, recorder >>

\* auditWorker.Shutdown returns and main with it: the process ends.
Exit ==
  /\ mainpc = "flushing" /\ wpc = "done"
  /\ mainpc' = "exit"
  /\ UNCHANGED << vars, stage, monitor, recorder, timedOut >>

-----------------------------------------------------------------------------

WorkerRuns == Worker /\ UNCHANGED proxyVars
Main == Signal \/ ServerDrained \/ ShutdownTimeout \/ Exit

\* What a goroutine does of itself once the network has done its part.
Proceeds(r) == RegularRecords(r) \/ StreamRecords(r)
                 \/ MonitorWakes(r) \/ MonitorRecords(r)
Upstream(r) == Accept(r) \/ RegularBreaks(r) \/ RegularAnswered(r)
                 \/ StreamStarts(r) \/ StreamEnds(r) \/ StreamBreaks(r)

ProxyNext ==
  \/ /\ mainpc # "exit"
     /\ \/ \E r \in Requests : Upstream(r) \/ Proceeds(r)
        \/ WorkerRuns
        \/ Main
  \/ mainpc = "exit" /\ UNCHANGED allVars

ProxySpec == ProxyInit /\ [][ProxyNext]_allVars

\* The scheduler, Go's first-in-first-out queue of blocked senders, the timers
\* of the streams and of the shutdown.  An upstream owes nothing.
ProxyFairness ==
  /\ WF_allVars(mainpc # "exit" /\ WorkerRuns)
  /\ WF_allVars(mainpc # "exit" /\ (ServerDrained \/ ShutdownTimeout \/ Exit))
  /\ \A r \in Requests :
       /\ SF_allVars(mainpc # "exit" /\ (RegularRecords(r) \/ StreamRecords(r)))
       /\ SF_allVars(mainpc # "exit" /\ MonitorRecords(r))
       /\ WF_allVars(mainpc # "exit" /\ MonitorWakes(r))

FairProxySpec == ProxySpec /\ ProxyFairness

-----------------------------------------------------------------------------
(* Properties *)

\* An orderly shutdown that did not time out loses nothing that a handler
\* recorded: every regular request that was answered and every stream the
\* handler finalized is written or refused before the process ends.
HandlersRecorded ==
  mainpc = "exit" /\ ~timedOut =>
    \A r \in Requests \ Malformed :
      (IF r \in Streams THEN recorder[r] = "handler" ELSE seqOf[r] # Unnumbered)
        => r \in Decided

\* The channel is closed under a goroutine that still has an entry to send
\* only after a timed-out shutdown, or if that goroutine is a monitor.
OnlyMonitorsFindClosed ==
  \A r \in Requests \ Malformed :
    hpc[r] = "panicked" => timedOut \/ (r \in Streams /\ recorder[r] = "monitor")

\* A stream that never ends holds the entries of later requests back only
\* until its timeout: what was handed to the worker is written or refused
\* although the upstream owes nothing.
RecordedDespiteSlowStreams ==
  \A r \in Requests : r \in Logged ~> (r \in Decided \/ mainpc = "exit")

\* A signal ends the process, whatever the handlers, the upstreams and the
\* clients do.
SignalEnds == mainpc = "draining" ~> mainpc = "exit"

\* An orderly shutdown loses nothing at all: main is "flushing remaining audit
\* entries" and the proxy "ensures that every request and response is ...
\* stored" (README.md:4).  The code does not keep this: server.Shutdown does
\* not wait for a monitor that has an entry to record.
ShutdownLosesNothing ==
  mainpc = "exit" /\ ~timedOut =>
    \A r \in Requests \ Malformed : seqOf[r] # Unnumbered => r \in Decided

\* "Each request receives a sequence ID at the start" (README.md:360).  The code
\* keeps this for streams only: a regular request is numbered when its response
\* is over, after streams that arrived later.
NumberedOnArrival == \A r \in Requests : stage[r] # "idle" => seqOf[r] # Unnumbered

\* Every request that arrived is audited (README.md:4), at least when the
\* process ends in time.  The code does not keep this for a regular request
\* whose response breaks off: the panic of ReverseProxy skips all that follows.
RegularRecorded ==
  mainpc = "exit" /\ ~timedOut =>
    \A r \in Regular \ Malformed : stage[r] # "idle" => r \in Decided
=============================================================================
