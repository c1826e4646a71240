---------------------------- MODULE TraceContext -----------------------------
(***************************************************************************)
(* internal/trace: what a span says of a request and its response.         *)
(*                                                                         *)
(* A request is the sequence of its messages.  The detectors decode a      *)
(* message's content into a Go string: one message whose content is a list *)
(* of parts (an image) makes the decoding of the whole request fail.  A    *)
(* response is as in StreamReconstruct.  Hashes stand for what they hash;  *)
(* "none" is an empty text, or a field that is not set.                    *)
(***************************************************************************)
EXTENDS StreamReconstruct

\* parts: the content is a list of parts; failed: it is an object with "error".
Msg(role, text) ==
  [role |-> role, text |-> text, callID |-> <<>>, parts |-> FALSE, failed |-> FALSE]

Decodes(request) == \A k \in DOMAIN request : ~request[k].parts

NoSpan == [type |-> "none", callID |-> <<>>, args |-> <<>>, isError |-> FALSE,
           conversation |-> "none", count |-> 0, multi |-> FALSE]

-----------------------------------------------------------------------------
(* detector.go and session.go; an empty sequence stands for nil *)

\* Of several tool calls the first.
DetectToolCalls(response) ==
  IF response.json /\ response.choices /\ response.calls # <<>>
  THEN <<response.calls[1]>> ELSE <<>>

IsResult(m) == m.role = "tool" /\ m.callID # <<>>

\* Faulty variant: every message that is not the user's counts as a result.
DetectAnyMessage(request) ==
  LET k == SelectInSeq(request, LAMBDA m : m.role # "user") IN
  IF Decodes(request) /\ k # 0 THEN <<request[k]>> ELSE <<>>

\* Of several tool messages the first of the request, which holds the whole
\* conversation.
DetectToolResults(request) ==
  LET k == SelectInSeq(request, IsResult) IN
  IF Decodes(request) /\ k # 0 THEN <<request[k]>> ELSE <<>>

DetermineSpanType(request, response) ==
  IF DetectToolCalls(response) # <<>> THEN "TOOL_CALL"
  ELSE IF DetectToolResults(request) # <<>> THEN "TOOL_RESULT"
  ELSE IF response.json /\ response.choices THEN "FINAL_RESPONSE"
  ELSE "AGENT_THINKING"

HasMetadata(request) == Decodes(request) /\ request # <<>>

\* Faulty variant: the identifier is that of the last user message.
ConversationOfLast(request) ==
  LET k == SelectLastInSeq(request, LAMBDA m : m.role = "user" /\ m.text # "none") IN
  IF k = 0 THEN "none" ELSE request[k].text

\* The hash of the first user message that is not empty.
ConversationID(request) ==
  LET k == SelectInSeq(request, LAMBDA m : m.role = "user" /\ m.text # "none") IN
  IF k = 0 THEN "none" ELSE request[k].text

\* Faulty variant: a system message with a question counts as several turns.
IsMultiTurnFromTwo(request) ==
  /\ HasMetadata(request)
  /\ \/ \E k \in DOMAIN request : request[k].role \in {"assistant", "tool"}
     \/ Len(request) >= 2

IsMultiTurnConversation(request) ==
  /\ HasMetadata(request)
  /\ \/ \E k \in DOMAIN request : request[k].role \in {"assistant", "tool"}
     \/ Len(request) > 2

\* Faulty variant: the request is looked at before the response.
EnrichResultsFirst(request, response) ==
  LET call == DetectToolCalls(response)
      result == DetectToolResults(request)
      type == DetermineSpanType(request, response) IN
  IF result # <<>>
  THEN [NoSpan EXCEPT !.type = "TOOL_RESULT", !.callID = result[1].callID,
                      !.isError = result[1].failed]
  ELSE IF call # <<>>
  THEN [NoSpan EXCEPT !.type = type, !.callID = call[1].id, !.args = call[1].args]
  ELSE [NoSpan EXCEPT !.type = type]

\* A call in the response, else a result in the request, else the metadata of
\* the conversation: a span has one of the three.
EnrichTraceContext(request, response) ==
  LET call == DetectToolCalls(response)
      result == DetectToolResults(request)
      type == DetermineSpanType(request, response) IN
  IF call # <<>>
  THEN [NoSpan EXCEPT !.type = type, !.callID = call[1].id, !.args = call[1].args]
  ELSE IF result # <<>>
  THEN [NoSpan EXCEPT !.type = type, !.callID = result[1].callID,
                      !.isError = result[1].failed]
  ELSE IF HasMetadata(request)
  THEN [NoSpan EXCEPT !.type = type, !.count = Len(request),
                      !.multi = IsMultiTurnConversation(request),
                      !.conversation = ConversationID(request)]
  ELSE [NoSpan EXCEPT !.type = type]
=============================================================================
