---------------------------- MODULE Conversation -----------------------------
(***************************************************************************)
(* Agents that talk to a model through the proxy, and the spans the proxy  *)
(* records of it (TraceContext, StreamReconstruct).                        *)
(*                                                                         *)
(* Agent and model are external, as the OpenAI protocol has them: each     *)
(* request carries the whole conversation; an answer is text, tool calls,  *)
(* or both; each call is answered by a message with its identifier, in any *)
(* order; then the agent asks the model again.  An answer comes as one     *)
(* JSON value or as a stream.  The user may add questions before there is  *)
(* an answer, as when a request failed.                                    *)
(***************************************************************************)
EXTENDS TraceContext

CONSTANTS
  Agents,       \* each has one conversation
  Prompt,       \* what each agent's user asks first
  MaxEntries,   \* bound: requests to the model
  MaxAsked,     \* bound, for each agent: messages with which its user still adds one
                \* without having got an answer
  MaxCalls      \* bound, for each agent: tool calls in one answer

ASSUME PromptAssumption == Prompt \in [Agents -> STRING]
ASSUME MaxEntriesAssumption == MaxEntries \in Nat
ASSUME MaxAskedAssumption == MaxAsked \in [Agents -> Nat]
ASSUME MaxCallsAssumption == MaxCalls \in [Agents -> Nat]

VARIABLES
  turn,         \* of each agent: "user", "model" or "tools"
  history,      \* the messages of its conversation
  open,         \* the calls that have no result yet
  outcomes,     \* history: how its tools ended
  entries       \* what was recorded, and of what

vars == << turn, history, open, outcomes, entries >>

Answer == [NotJSON(<<>>) EXCEPT !.json = TRUE, !.choices = TRUE, !.role = "assistant"]
ErrorBody == [NotJSON(<<>>) EXCEPT !.json = TRUE]

Init ==
  /\ turn = [a \in Agents |-> "user"]
  /\ history \in [Agents -> {<<>>, << Msg("system", "be kind") >>}]
  /\ open = [a \in Agents |-> {}]
  /\ outcomes = [a \in Agents |-> {}]
  /\ entries = <<>>

Says(a, m) == history' = [history EXCEPT ![a] = Append(@, m)]

\* The user asks, in words or with an image, or adds words to a question that has
\* no answer yet.
UserAsks(a) ==
  /\ turn[a] = "user" \/ (turn[a] = "model" /\ Len(history[a]) < MaxAsked[a])
  /\ Len(entries) < MaxEntries
  /\ \E image \in (IF turn[a] = "user" THEN BOOLEAN ELSE {FALSE}) :
       LET first == \A k \in DOMAIN history[a] : history[a][k].role # "user"
           text == IF first THEN Prompt[a] ELSE "and then?" IN
       Says(a, [Msg("user", text) EXCEPT !.parts = image])
  /\ turn' = [turn EXCEPT ![a] = "model"]
  /\ UNCHANGED << open, outcomes, entries >>

AskedAgain(messages) ==
  \E j, k \in DOMAIN messages :
    j # k /\ messages[j].role = "user" /\ messages[k].role = "user"

\* The end of a handler: the entry's span.  meant is what the model answered,
\* response what the recorded body shows of it.
Record(a, meant, response) ==
  entries' = Append(entries,
    [agent |-> a, again |-> AskedAgain(history[a]),
     choices |-> meant.choices, content |-> meant.content, calls |-> meant.calls,
     intact |-> response = meant,
     span |-> EnrichTraceContext(history[a], response)])

\* The answer as a stream: the text, then the calls, each in one chunk or in a
\* chunk with its identifier and one with its arguments.
AsStream(answer, fragmented) ==
  LET text == <<[Delta("none") EXCEPT !.role = "assistant", !.content = answer.content]>>
      Of(call) ==
        IF fragmented
        THEN << [Delta("none") EXCEPT !.calls = <<[call EXCEPT !.args = <<>>]>>],
                [Delta("none") EXCEPT !.calls = <<[call EXCEPT !.id = <<>>]>>] >>
        ELSE << [Delta("none") EXCEPT !.calls = <<call>>] >>
  IN text \o FlattenSeq([k \in DOMAIN answer.calls |-> Of(answer.calls[k])]) \o <<Noise>>

\* Identifiers that no earlier call has.
NewCalls(n) ==
  [k \in 1..n |-> [id |-> << Len(entries), k >>, args |-> <<"args">>]]

ModelAnswers(a) ==
  /\ turn[a] = "model" /\ Len(entries) < MaxEntries
  /\ \E n \in 0..MaxCalls[a], content \in {<<>>, <<"text">>} :
       LET answer == [Answer EXCEPT !.content = content, !.calls = NewCalls(n)] IN
       /\ n > 0 \/ content # <<>>
       /\ \/ Record(a, answer, answer)
          \/ \E fragmented \in BOOLEAN :
               Record(a, answer, Reconstruct(AsStream(answer, fragmented)))
       /\ Says(a, Msg("assistant", "text"))
       /\ open' = [open EXCEPT ![a] = {answer.calls[k].id : k \in 1..n}]
       /\ turn' = [turn EXCEPT ![a] = IF n = 0 THEN "user" ELSE "tools"]
  /\ UNCHANGED outcomes

\* An HTTP error, with a JSON body without choices; the agent asks again.
ModelFails(a) ==
  /\ turn[a] = "model" /\ Len(entries) < MaxEntries
  /\ Record(a, ErrorBody, ErrorBody)
  /\ UNCHANGED << turn, history, open, outcomes >>

ToolReturns(a, id) ==
  /\ id \in open[a]
  /\ \E failed \in BOOLEAN :
       /\ Says(a, [Msg("tool", "result") EXCEPT !.callID = id, !.failed = failed])
       /\ outcomes' = [outcomes EXCEPT ![a] = @ \cup {[id |-> id, failed |-> failed]}]
  /\ open' = [open EXCEPT ![a] = @ \ {id}]
  /\ turn' = [turn EXCEPT ![a] = IF open[a] = {id} THEN "model" ELSE @]
  /\ UNCHANGED entries

Next ==
  \E a \in Agents :
    \/ UserAsks(a) \/ ModelAnswers(a) \/ ModelFails(a)
    \/ \E id \in open[a] : ToolReturns(a, id)

Spec == Init /\ [][Next]_vars

-----------------------------------------------------------------------------
(* Properties *)

Every(P(_)) == \A k \in DOMAIN entries : P(entries[k])

\* A TOOL_CALL span is recorded only when the model asked for tools, and then
\* always but for a streamed answer with text beside the calls (ToolCallSpans).
\* It has the identifier of the first call, whatever results the request carries;
\* of an answer that came in one piece also all the call's arguments.
CallsDetected ==
  Every(LAMBDA e :
    /\ e.span.type = "TOOL_CALL" => e.calls # <<>>
    /\ e.calls # <<>> /\ (e.content = <<>> \/ e.intact) =>
         e.span.type = "TOOL_CALL" /\ e.span.callID = e.calls[1].id
    /\ e.calls # <<>> /\ e.intact => e.span.args = e.calls[1].args)

\* A TOOL_RESULT span names a call whose tool really returned in the same
\* conversation, and whether that tool failed.
ResultsResolve ==
  Every(LAMBDA e :
    e.span.type = "TOOL_RESULT" =>
      [id |-> e.span.callID, failed |-> e.span.isError] \in outcomes[e.agent])

\* The conversation identifier is the same in every span of a conversation
\* that has one, and not that of a conversation that began otherwise.
ConversationStable ==
  \A k, n \in DOMAIN entries :
    LET d == entries[k]  e == entries[n] IN
    d.span.conversation # "none" /\ e.span.conversation # "none" =>
      (d.span.conversation = e.span.conversation <=> Prompt[d.agent] = Prompt[e.agent])

AnsweredBefore(n) ==
  \E k \in 1..(n - 1) : entries[k].agent = entries[n].agent /\ entries[k].choices

\* A span is marked multi-turn whenever its agent already had an answer in the
\* conversation.  Without one it is marked only if the user asked more than once
\* ("Long single turn", session_test.go:127): one question, with or without a
\* system message, is not multi-turn, however often the request is retried.
MultiTurnMeant ==
  \A n \in DOMAIN entries :
    entries[n].span.count > 0 =>
      /\ AnsweredBefore(n) => entries[n].span.multi
      /\ entries[n].span.multi => AnsweredBefore(n) \/ entries[n].again

Before(n, type) ==
  {k \in 1..(n - 1) : entries[k].agent = entries[n].agent /\ entries[k].span.type = type}

\* A tool result "must match ToolCallInfo.ID from the parent TOOL_CALL span"
\* (models/audit.go:95): the last one of the conversation.  The code does not
\* keep this: it takes the conversation's first result.
ResultMatchesParent ==
  \A n \in DOMAIN entries :
    LET calls == Before(n, "TOOL_CALL") IN
    entries[n].span.type = "TOOL_RESULT" /\ calls # {} =>
      entries[n].span.callID = entries[Max(calls)].span.callID

\* "Conversation Threading: Groups related messages via conversation_id"
\* (README.md:117).  The code does not keep this: spans with a tool call or a
\* result have none, nor has a request with an image.
ConversationThreaded == Every(LAMBDA e : e.span.conversation # "none")

\* TOOL_CALL is detected when the "response contains tool_calls"
\* (README.md:161).  The code does not keep this for a stream with text beside
\* the calls.
ToolCallSpans ==
  Every(LAMBDA e : e.calls # <<>> => e.span.type = "TOOL_CALL")

\* An HTTP error status makes an ERROR span (README.md:166).  The code assigns
\* that type nowhere.
ErrorsClassified ==
  Every(LAMBDA e : ~e.choices => e.span.type = "ERROR")
=============================================================================
