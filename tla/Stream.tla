------------------------------- MODULE Stream --------------------------------
(***************************************************************************)
(* A streamed answer on its way into the audit log: the upstream (external)*)
(* sends events, the capturer keeps their lines until it is full or the    *)
(* stream is cut, and the callback may run at any time and rebuild the     *)
(* response from the lines there are (StreamReconstruct).                  *)
(***************************************************************************)
EXTENDS StreamReconstruct

CONSTANTS
  Wanted,       \* the choices the client asked for: {0}, or {0, 1} for n = 2
  Legacy,       \* choices have a text and no delta (the completions API)
  MaxEvents     \* bound: events the upstream sends

ASSUME WantedAssumption == 0 \in Wanted /\ Wanted \subseteq {0, 1}
ASSUME LegacyAssumption == Legacy \in BOOLEAN
ASSUME MaxEventsAssumption == MaxEvents \in Nat \ {0}

VARIABLES
  phase,    \* of the upstream: "open", "finished", "over"
  sent,     \* events so far
  said,     \* history: what they said, of choice 0
  lines,    \* what is captured of them
  cut       \* the capture ended before the stream

vars == << phase, sent, said, lines, cut >>

\* The entry, if the callback ran now.
Recorded == Reconstruct(lines)

Init ==
  /\ phase = "open" /\ sent = 0
  /\ said = [role |-> "none", content |-> <<>>, calls |-> <<>>, finish |-> "none", usage |-> FALSE]
  /\ lines = <<>> /\ cut = FALSE

Emit(line) ==
  /\ sent < MaxEvents /\ phase # "over"
  /\ sent' = sent + 1
  /\ lines' = IF cut THEN lines ELSE Append(lines, line)
  /\ UNCHANGED cut

Chunk == IF Legacy THEN NoDelta("cmpl") ELSE Delta("cmpl")

-----------------------------------------------------------------------------
(* The upstream *)

\* A piece of the text of choice c, unlike any other; the first chunk names the
\* role.
Say(c) ==
  LET piece == << c, sent + 1 >>
      role == IF said.role = "none" THEN "assistant" ELSE "none" IN
  /\ phase = "open"
  /\ IF Legacy THEN Emit([Chunk EXCEPT !.text = <<piece>>])
               ELSE Emit([Chunk EXCEPT !.role = role, !.content = <<piece>>])
  /\ IF c = 0
     THEN said' = [said EXCEPT !.role = "assistant", !.content = Append(@, piece)]
     ELSE UNCHANGED said
  /\ UNCHANGED phase

\* A tool call with its identifier and its arguments, or the start of them.
CallTool ==
  LET call == [id |-> <<"call">>, args |-> <<sent + 1>>] IN
  /\ phase = "open" /\ ~Legacy
  /\ Emit([Chunk EXCEPT !.role = "assistant", !.calls = <<call>>])
  /\ said' = [said EXCEPT !.role = "assistant", !.calls = Append(@, call)]
  /\ UNCHANGED phase

\* More of the arguments of the last call: the fragment has no identifier.
ContinueCall ==
  /\ phase = "open" /\ said.calls # <<>>
  /\ Len(Last(said.calls).args) = 1
  /\ Emit([Chunk EXCEPT !.calls = <<[id |-> <<>>, args |-> <<sent + 1>>]>>])
  /\ said' = [said EXCEPT !.calls[Len(said.calls)].args = Append(@, sent + 1)]
  /\ UNCHANGED phase

\* The usage comes with the finish reason or in a chunk of its own.
Finish ==
  /\ phase = "open"
  /\ \E withUsage \in BOOLEAN :
       /\ Emit([Chunk EXCEPT !.finish = "stop", !.usage = withUsage])
       /\ said' = [said EXCEPT !.finish = "stop", !.usage = withUsage]
  /\ phase' = "finished"

Usage ==
  /\ phase = "finished" /\ ~said.usage
  /\ Emit([Bare EXCEPT !.id = "cmpl", !.usage = TRUE])
  /\ said' = [said EXCEPT !.usage = TRUE]
  /\ phase' = "over"

\* A comment that keeps the connection open, [DONE], malformed JSON.
SendNoise ==
  /\ Emit(Noise)
  /\ UNCHANGED << phase, said >>

\* The upstream gives up with an error event, or with a choice that is no
\* object.
Fail ==
  /\ phase = "open"
  /\ Emit(Bare) \/ Emit(Scalar("cmpl"))
  /\ phase' = "over"
  /\ UNCHANGED said

\* The capture ends inside a line, or after one with the truncation marker.
Cut ==
  /\ ~cut /\ lines # <<>>
  /\ \/ lines' = Append(lines, Noise)
     \/ lines' = Append(Front(lines), Noise)
  /\ cut' = TRUE
  /\ UNCHANGED << phase, sent, said >>

Next ==
  \/ \E c \in Wanted : Say(c)
  \/ CallTool \/ ContinueCall \/ Finish \/ Usage \/ SendNoise \/ Fail \/ Cut

Spec == Init /\ [][Next]_vars

-----------------------------------------------------------------------------
(* Properties *)

HasEntry == ~Panics(lines)
Rebuilt == HasEntry /\ Recorded.json

\* What was recorded of a sequence agrees with what was sent: the whole of it,
\* or the beginning if the capture was cut.
Agrees(recorded, original) ==
  IF cut THEN IsPrefix(recorded, original) ELSE recorded = original

\* The recorded text is what the upstream said, in its order, each piece once,
\* whatever comes in between ("rebuilds the complete response", line 13).
ContentRebuilt == Rebuilt => Agrees(Recorded.content, said.content)

\* The pieces of the arguments of all calls, in their order.
Arguments(calls) == FlattenSeq([k \in DOMAIN calls |-> calls[k].args])

\* No piece of a tool call's arguments is lost, repeated or moved on the way
\* into the entry, if the message has no text beside the calls.
ArgumentsKept ==
  Rebuilt /\ Recorded.content = <<>> =>
    Agrees(Arguments(Recorded.calls), Arguments(said.calls))

\* A recorded finish reason is the upstream's: an entry of a stream that was
\* cut, or that failed, never looks finished, and one that finished does.
FinishRebuilt ==
  Rebuilt => /\ Recorded.finish # "none" => said.finish = Recorded.finish
             /\ ~cut => Recorded.finish = said.finish

\* The consolidated response has the usage the upstream sent, "usually in last
\* chunk" (line 143).  The code does not keep this for a chunk without choices.
UsageRebuilt == Rebuilt /\ ~cut => Recorded.usage = said.usage

\* The recorded tool calls are those the upstream made: the stream "rebuilds
\* the complete response" (line 13).  The code does not keep this: it appends
\* the fragments of a call as calls of their own.
CallsRebuilt ==
  Rebuilt /\ Recorded.content = <<>> /\ ~cut => Recorded.calls = said.calls

\* Consolidation maintains "full searchability" (README.md:354): text that the
\* captured lines have is in the recorded body.  The code does not keep this
\* for choices without a delta.
TextSearchable ==
  Rebuilt => \A k \in DOMAIN lines :
               ToSet(lines[k].content) \cup ToSet(lines[k].text)
                 \subseteq ToSet(Recorded.content)
=============================================================================
