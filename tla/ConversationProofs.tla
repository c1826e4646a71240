-------------------------- MODULE ConversationProofs ---------------------------
(***************************************************************************)
(* Theorems: what the spans say of a conversation is true of it, for any   *)
(* number of agents, requests and tool calls.  The invariant relates the   *)
(* messages a request carries to what was answered and to how the tools    *)
(* ended.                                                                  *)
(***************************************************************************)
EXTENDS Conversation, FoldTheorems, TLAPS

Ids == Seq(Nat)
Args == Seq({"args"})
Calls == [id : Ids, args : Args]
Pieces == {"text"}
Contents == Seq(Pieces)
Labels == {"none", "delta", "noDelta", "scalar", "assistant"}
Reasons == {"none"}

Lines == Events(Pieces, Calls, Labels, Reasons)
Bodies == Responses(Pieces, Calls, Labels, Reasons)

Roles == {"system", "user", "assistant", "tool"}
Texts == {"none", "be kind", "and then?", "text", "result"} \cup {Prompt[a] : a \in Agents}
Messages == [role : Roles, text : Texts, callID : Ids, parts : BOOLEAN, failed : BOOLEAN]
Outcomes == [id : Ids, failed : BOOLEAN]

SpanTypes == {"none", "TOOL_CALL", "TOOL_RESULT", "FINAL_RESPONSE", "AGENT_THINKING"}
Spans == [type : SpanTypes, callID : Ids, args : Args, isError : BOOLEAN,
          conversation : Texts, count : Nat, multi : BOOLEAN]

Entries == [agent : Agents, again : BOOLEAN, choices : BOOLEAN, content : Contents,
            calls : Seq(Calls), intact : BOOLEAN, span : Spans]

-----------------------------------------------------------------------------
(* The first message of a kind *)

\* SelectInSeq finds the least position, or none.
LEMMA FirstResult ==
  ASSUME NEW request \in Seq(Messages)
  PROVE  LET k == SelectInSeq(request, IsResult) IN
         k # 0 => k \in DOMAIN request /\ IsResult(request[k])
<1> DEFINE I == {i \in 1..Len(request) : IsResult(request[i])}
<1>1. SelectInSeq(request, IsResult) = IF I # {} THEN Min(I) ELSE 0
  BY DEF SelectInSeq
<1>2. I # {} => Min(I) \in I
  <2>1. I \subseteq Nat
    OBVIOUS
  <2> HIDE DEF I
  <2>2. QED
    BY <2>1, LeastElement
<1>3. DOMAIN request = 1..Len(request)
  OBVIOUS
<1>4. QED
  BY <1>1, <1>2, <1>3

Asks(m) == m.role = "user" /\ m.text # "none"

\* The conversation identifier is the text of the first user message that is
\* not empty.
LEMMA FirstAsked ==
  ASSUME NEW request \in Seq(Messages)
  PROVE  \/ ConversationID(request) = "none"
         \/ \E k \in DOMAIN request :
              /\ Asks(request[k]) /\ ConversationID(request) = request[k].text
              /\ \A j \in 1..(k - 1) : ~Asks(request[j])
<1> DEFINE I == {i \in 1..Len(request) : request[i].role = "user" /\ request[i].text # "none"}
           k == IF I # {} THEN Min(I) ELSE 0
<1>1. ConversationID(request) = IF k = 0 THEN "none" ELSE request[k].text
  BY Zenon DEF ConversationID, SelectInSeq
<1>2. I # {} => Min(I) \in I /\ \A i \in I : Min(I) <= i
  <2>1. I \subseteq Nat
    OBVIOUS
  <2> HIDE DEF I
  <2>2. QED
    BY <2>1, LeastElement
<1>3. DOMAIN request = 1..Len(request) /\ Len(request) \in Nat
  OBVIOUS
<1>4. CASE k # 0
  <2>1. k \in I /\ \A i \in I : k <= i
    BY <1>2, <1>4
  <2>2. ConversationID(request) = request[k].text
    BY <1>1, <1>4
  <2> HIDE DEF k
  <2>3. \A j \in 1..(k - 1) : ~Asks(request[j])
    BY <1>3, <2>1 DEF Asks
  <2>4. QED
    BY <1>3, <2>1, <2>2, <2>3 DEF Asks
<1>5. QED
  BY <1>1, <1>4

-----------------------------------------------------------------------------
(* What a span says *)

\* A span with a call names the response's first, one with a result a result
\* that is in the request, and only one with neither has a conversation.
SpanMeans(span, request, response) ==
  /\ span \in Spans
  /\ span.type = "TOOL_CALL" <=> response.json /\ response.choices /\ response.calls # << >>
  /\ span.type = "TOOL_CALL" =>
       span.callID = response.calls[1].id /\ span.args = response.calls[1].args
  /\ span.type = "TOOL_RESULT" =>
       \E k \in DOMAIN request : /\ request[k].role = "tool"
                                 /\ span.callID = request[k].callID
                                 /\ span.isError = request[k].failed
  /\ span.count > 0 =>
       (span.multi <=> \/ \E k \in DOMAIN request : request[k].role \in {"assistant", "tool"}
                       \/ Len(request) > 2)
  /\ span.conversation \in {"none", ConversationID(request)}

LEMMA NoSpanTyped == NoSpan \in Spans
<1> DEFINE nothing == << >>
<1>1. nothing \in Ids /\ nothing \in Args
  BY DEF Ids, Args
<1>2. NoSpan = [type |-> "none", callID |-> nothing, args |-> nothing, isError |-> FALSE,
                conversation |-> "none", count |-> 0, multi |-> FALSE]
  BY DEF NoSpan
<1> HIDE DEF nothing
<1>3. QED
  BY <1>1, <1>2 DEF Spans, SpanTypes, Texts

LEMMA SpanOf ==
  ASSUME NEW request \in Seq(Messages), NEW response \in Bodies
  PROVE  SpanMeans(EnrichTraceContext(request, response), request, response)
<1> DEFINE called == response.json /\ response.choices /\ response.calls # << >>
           k == SelectInSeq(request, IsResult)
           returned == Decodes(request) /\ k # 0
           span == EnrichTraceContext(request, response)
           type == DetermineSpanType(request, response)
<1>1. DetectToolCalls(response) = IF called THEN <<response.calls[1]>> ELSE << >>
  BY DEF DetectToolCalls
<1>2. DetectToolResults(request) = IF returned THEN <<request[k]>> ELSE << >>
  BY Zenon DEF DetectToolResults
<1>3. returned => k \in DOMAIN request /\ request[k].role = "tool"
  BY FirstResult DEF IsResult
<1>4. NoSpan \in Spans /\ NoSpan.count = 0 /\ NoSpan.conversation = "none"
  BY NoSpanTyped DEF NoSpan
<1> HIDE DEF k
<1>5. CASE called
  <2>1. DetectToolCalls(response) = <<response.calls[1]>> /\ type = "TOOL_CALL"
    BY <1>1, <1>5 DEF DetermineSpanType
  <2>2. span = [NoSpan EXCEPT !.type = "TOOL_CALL", !.callID = response.calls[1].id,
                              !.args = response.calls[1].args]
    BY <2>1 DEF EnrichTraceContext
  <2>3. response.calls[1] \in Calls
    <3> DEFINE C == Calls
    <3>1. response.calls \in Seq(C)
      BY DEF Bodies, Responses
    <3> HIDE DEF C
    <3>2. response.calls[1] \in C
      BY <1>5, <3>1
    <3>3. QED
      BY <3>2 DEF C
  <2>4. response.calls[1].id \in Ids /\ response.calls[1].args \in Args
    BY <2>3 DEF Calls
  <2> HIDE DEF span
  <2>5. /\ span \in Spans /\ span.type = "TOOL_CALL"
        /\ span.callID = response.calls[1].id /\ span.args = response.calls[1].args
        /\ span.count = 0 /\ span.conversation = "none"
    BY <1>4, <2>2, <2>4 DEF Spans, SpanTypes
  <2>6. QED
    BY <1>5, <2>5 DEF SpanMeans, span
<1>6. CASE ~called /\ returned
  <2>1. /\ DetectToolCalls(response) = << >>
        /\ DetectToolResults(request) = <<request[k]>> /\ type = "TOOL_RESULT"
    BY <1>1, <1>2, <1>6 DEF DetermineSpanType
  <2>2. span = [NoSpan EXCEPT !.type = "TOOL_RESULT", !.callID = request[k].callID,
                              !.isError = request[k].failed]
    BY <2>1 DEF EnrichTraceContext
  <2>3. request[k] \in Messages
    BY <1>3, <1>6
  <2>4. request[k].callID \in Ids /\ request[k].failed \in BOOLEAN
    BY <2>3 DEF Messages
  <2> HIDE DEF span
  <2>5. /\ span \in Spans /\ span.type = "TOOL_RESULT"
        /\ span.callID = request[k].callID /\ span.isError = request[k].failed
        /\ span.count = 0 /\ span.conversation = "none"
    BY <1>4, <2>2, <2>4 DEF Spans, SpanTypes
  <2>6. QED
    BY <1>3, <1>6, <2>5 DEF SpanMeans, span
<1>7. CASE ~called /\ ~returned
  <2>1. /\ DetectToolCalls(response) = << >> /\ DetectToolResults(request) = << >>
        /\ type \in {"FINAL_RESPONSE", "AGENT_THINKING"}
    BY <1>1, <1>2, <1>7 DEF DetermineSpanType
  <2>2. CASE HasMetadata(request)
    <3> DEFINE c == ConversationID(request)
               multi == IsMultiTurnConversation(request)
               n == Len(request)
    <3>1. span = [NoSpan EXCEPT !.type = type, !.count = n, !.multi = multi,
                                !.conversation = c]
      BY <2>1, <2>2 DEF EnrichTraceContext
    <3>2. multi <=> \/ \E j \in DOMAIN request : request[j].role \in {"assistant", "tool"}
                    \/ Len(request) > 2
      BY <2>2 DEF IsMultiTurnConversation
    <3>3. c \in Texts
      <4>1. \A j \in DOMAIN request : request[j].text \in Texts
        <5>1. \A j \in DOMAIN request : request[j] \in Messages
          OBVIOUS
        <5>2. QED
          BY <5>1 DEF Messages
      <4>2. "none" \in Texts
        BY DEF Texts
      <4>3. QED
        BY <4>1, <4>2, FirstAsked
    <3>4. n \in Nat /\ multi \in BOOLEAN
      BY DEF IsMultiTurnConversation
    <3> HIDE DEF span, type, c, multi, n
    <3>5. /\ span \in Spans /\ span.type = type
          /\ span.multi = multi /\ span.conversation = c
      BY <1>4, <2>1, <3>1, <3>3, <3>4 DEF Spans, SpanTypes
    <3>6. QED
      BY <1>7, <2>1, <3>2, <3>5 DEF SpanMeans, span, c
  <2>3. CASE ~HasMetadata(request)
    <3>1. span = [NoSpan EXCEPT !.type = type]
      BY <2>1, <2>3 DEF EnrichTraceContext
    <3> HIDE DEF span, type
    <3>2. /\ span \in Spans /\ span.type = type /\ span.count = 0
          /\ span.conversation = "none"
      BY <1>4, <2>1, <3>1 DEF Spans, SpanTypes
    <3>3. QED
      BY <1>7, <2>1, <3>2 DEF SpanMeans, span
  <2>4. QED
    BY <2>2, <2>3
<1>8. QED
  BY <1>5, <1>6, <1>7

-----------------------------------------------------------------------------
(* An answer that comes as a stream *)

\* A chunk with a call, or with a part of one, and nothing else.
CallLines == {l \in Lines : Counts(l) /\ l.content = << >> /\ \E c \in Calls : l.calls = <<c>>}

\* The chunks of one call.
CallChunks(call, fragmented) ==
  IF fragmented
  THEN << [Delta("none") EXCEPT !.calls = <<[call EXCEPT !.args = <<>>]>>],
          [Delta("none") EXCEPT !.calls = <<[call EXCEPT !.id = <<>>]>>] >>
  ELSE << [Delta("none") EXCEPT !.calls = <<call>>] >>

\* An empty chunk and noise are lines.
LEMMA LinesTyped ==
  /\ Delta("none") \in Lines /\ Counts(Delta("none"))
  /\ Delta("none").content = << >> /\ Delta("none").calls = << >>
  /\ Delta("none").finish = "none"
  /\ Noise \in Lines /\ ~Counts(Noise) /\ ~Noise.data
<1> DEFINE nothing == << >>
<1>1. nothing \in Seq(Pieces) /\ nothing \in Seq(Calls)
  OBVIOUS
<1>2. Bare = [data |-> TRUE, id |-> "none", choices |-> "none", role |-> "none",
              content |-> nothing, text |-> nothing, calls |-> nothing,
              finish |-> "none", usage |-> FALSE]
  BY DEF Bare
<1>3. Bare.content = << >> /\ Bare.calls = << >> /\ Bare.finish = "none" /\ Bare.data
  BY <1>2
<1> HIDE DEF nothing
<1>4. Bare \in Lines
  BY <1>1, <1>2 DEF Lines, Events, Labels, Reasons
<1>5. Noise \in Lines /\ ~Counts(Noise) /\ ~Noise.data
  BY <1>4 DEF Noise, Counts, Lines, Events
<1>6. Delta("none") \in Lines /\ Counts(Delta("none"))
  BY <1>3, <1>4 DEF Delta, Counts, Lines, Events, Labels
<1>7. /\ Delta("none").content = Bare.content /\ Delta("none").calls = Bare.calls
      /\ Delta("none").finish = Bare.finish
  BY <1>4 DEF Delta, Lines, Events
<1>8. QED
  BY <1>3, <1>5, <1>6, <1>7

\* A chunk with one call.
LEMMA CallLine ==
  ASSUME NEW c \in Calls
  PROVE  /\ [Delta("none") EXCEPT !.calls = <<c>>] \in CallLines
         /\ [Delta("none") EXCEPT !.calls = <<c>>].calls = <<c>>
<1> DEFINE w == <<c>>
           x == [Delta("none") EXCEPT !.calls = w]
<1>1. w \in Seq(Calls)
  OBVIOUS
<1> HIDE DEF w
<1>2. /\ x \in Lines /\ x.calls = w /\ x.content = Delta("none").content
      /\ x.data = Delta("none").data /\ x.choices = Delta("none").choices
  BY <1>1, LinesTyped DEF Lines, Events
<1>3. Counts(x) /\ x.content = << >>
  BY <1>2, LinesTyped DEF Counts
<1> HIDE DEF x
<1>4. x \in CallLines
  BY <1>2, <1>3 DEF CallLines, w
<1>5. QED
  BY <1>2, <1>4 DEF x, w

\* A call has at least one chunk, and the first one names it.
LEMMA ChunksOfCall ==
  ASSUME NEW call \in Calls, NEW fragmented \in BOOLEAN
  PROVE  /\ CallChunks(call, fragmented) \in Seq(CallLines)
         /\ CallChunks(call, fragmented) # << >>
         /\ CallChunks(call, fragmented)[1].calls[1].id = call.id
<1> DEFINE nothing == << >>
           named == [call EXCEPT !.args = nothing]
           rest == [call EXCEPT !.id = nothing]
<1>1. nothing \in Ids /\ nothing \in Args
  BY DEF Ids, Args
<1> HIDE DEF nothing
<1>2. named \in Calls /\ named.id = call.id /\ rest \in Calls
  BY <1>1 DEF Calls
<1> HIDE DEF named, rest
<1> DEFINE x == [Delta("none") EXCEPT !.calls = <<named>>]
           y == [Delta("none") EXCEPT !.calls = <<rest>>]
           z == [Delta("none") EXCEPT !.calls = <<call>>]
<1>3. /\ x \in CallLines /\ x.calls = <<named>> /\ y \in CallLines
      /\ z \in CallLines /\ z.calls = <<call>>
  BY <1>2, CallLine
<1>4. CallChunks(call, fragmented) = IF fragmented THEN <<x, y>> ELSE <<z>>
  BY DEF CallChunks, named, rest, nothing
<1> DEFINE X == CallLines
<1>5. x \in X /\ y \in X /\ z \in X
  BY <1>3
<1> HIDE DEF x, y, z, X
<1>6. <<x, y>> \in Seq(X) /\ <<z>> \in Seq(X)
  BY <1>5
<1>7. CallChunks(call, fragmented) \in Seq(X)
  BY <1>4, <1>6
<1>8. /\ CallChunks(call, fragmented) # << >>
      /\ CallChunks(call, fragmented)[1] = IF fragmented THEN x ELSE z
  BY <1>4
<1>9. QED
  BY <1>2, <1>3, <1>7, <1>8 DEF X

\* What one more line adds to a capture.
LEMMA LineAdds ==
  ASSUME NEW u \in Seq(Lines), NEW x \in Lines
  PROVE  /\ Gathered(u) \in Bodies /\ Gathered(<< >>) = Blank
         /\ Gathered(Append(u, x)).json = Gathered(u).json
         /\ Gathered(Append(u, x)).choices = Gathered(u).choices
         /\ Gathered(Append(u, x)).content = Gathered(u).content \o TextOf(x)
         /\ Gathered(Append(u, x)).calls = Gathered(u).calls \o CallsOf(x)
<1>1. "none" \in Labels /\ "none" \in Reasons
  BY DEF Labels, Reasons
<1>2. /\ u \in Seq(Events(Pieces, Calls, Labels, Reasons))
      /\ x \in Events(Pieces, Calls, Labels, Reasons)
  BY DEF Lines
<1>3. Gathered(u) \in Bodies /\ Gathered(<< >>) = Blank
  BY <1>1, <1>2, GatheredAppend DEF Bodies
<1>4. QED
  BY <1>1, <1>2, <1>3, GatheredLine

\* What is gathered of the text's chunk and the first i chunks of the calls.
BodySoFar(s, text, i) ==
  LET g == Gathered(SubSeq(s, 1, i)) IN
  /\ Chunks(SubSeq(s, 1, i)) # << >>
  /\ g.json /\ g.choices /\ g.content = text
  /\ i = 1 => g.calls = << >>
  /\ i > 1 => g.calls # << >> /\ g.calls[1] = s[2].calls[1]

\* A chunk with text and then chunks with calls: the text stays, and the first
\* call is the first call.
LEMMA CallsGathered ==
  ASSUME NEW s \in Seq(Lines), s # << >>, Counts(s[1]), s[1].calls = << >>,
         \A i \in 2..Len(s) : s[i] \in CallLines
  PROVE  BodySoFar(s, s[1].content, Len(s))
<1> DEFINE n == Len(s)
           text == s[1].content
           S == {i \in 0..n : i # 0 => BodySoFar(s, text, i)}
<1>0. n \in Nat \ {0} /\ s[1] \in Lines /\ "none" \in Labels /\ "none" \in Reasons
  BY EmptySeq DEF Labels, Reasons
<1>1. ASSUME NEW i \in 1..n
      PROVE  LET u == SubSeq(s, 1, i - 1)
                 g == Gathered(u)
                 h == Gathered(SubSeq(s, 1, i)) IN
             /\ u \in Seq(Lines) /\ s[i] \in Lines
             /\ h.json = g.json /\ h.choices = g.choices
             /\ h.content = g.content \o TextOf(s[i]) /\ h.calls = g.calls \o CallsOf(s[i])
             /\ g.content \in Contents /\ g.calls \in Seq(Calls)
             /\ Chunks(SubSeq(s, 1, i)) = Parse(Chunks(u), s[i])
             /\ Chunks(u) \in Seq(Lines)
  <2> DEFINE u == SubSeq(s, 1, i - 1)
             x == s[i]
  <2>1. u \in Seq(Lines) /\ x \in Lines /\ SubSeq(s, 1, i) = Append(u, x)
    BY PrefixStep
  <2> HIDE DEF u, x
  <2>2. /\ Gathered(Append(u, x)).json = Gathered(u).json
        /\ Gathered(Append(u, x)).choices = Gathered(u).choices
        /\ Gathered(Append(u, x)).content = Gathered(u).content \o TextOf(x)
        /\ Gathered(Append(u, x)).calls = Gathered(u).calls \o CallsOf(x)
    BY <2>1, LineAdds
  <2>3. Gathered(u) \in Bodies
    BY <2>1, LineAdds
  <2>4. Gathered(u).content \in Contents /\ Gathered(u).calls \in Seq(Calls)
    BY <2>3 DEF Bodies, Responses, Contents
  <2>5. Chunks(Append(u, x)) = Parse(Chunks(u), x) /\ Chunks(u) \in Seq(Lines)
    BY <2>1, ChunksAppend
  <2>6. QED
    BY <2>1, <2>2, <2>4, <2>5 DEF u, x
<1>2. 0 \in S
  BY <1>0
<1>3. ASSUME NEW i \in 1..n, i - 1 \in S PROVE i \in S
  <2> DEFINE u == SubSeq(s, 1, i - 1)
             v == SubSeq(s, 1, i)
             x == s[i]
             g == Gathered(u)
             h == Gathered(v)
  <2>1. /\ u \in Seq(Lines) /\ x \in Lines
        /\ h.json = g.json /\ h.choices = g.choices
        /\ h.content = g.content \o TextOf(x) /\ h.calls = g.calls \o CallsOf(x)
        /\ g.content \in Contents /\ g.calls \in Seq(Calls)
        /\ Chunks(v) = Parse(Chunks(u), x) /\ Chunks(u) \in Seq(Lines)
    BY <1>1
  <2>2. i \in 0..n /\ i \in Nat
    BY <1>0
  <2>3. x.data /\ TextOf(x) = x.content /\ CallsOf(x) = x.calls
    <3>1. Counts(x)
      <4>1. i = 1 \/ i \in 2..Len(s)
        BY <1>0
      <4>2. QED
        BY <4>1 DEF CallLines
    <3>2. QED
      BY <3>1 DEF Counts, TextOf, CallsOf
  <2>4. Chunks(v) # << >>
    BY <2>1, <2>3, AppendProperties DEF Parse
  <2>5. CASE i = 1
    <3>1. u = << >>
      BY <2>5, SubSeqEmpty
    <3>2. g = Blank
      <4>1. Gathered(<< >>) = Blank
        BY <2>1, LineAdds
      <4>2. QED
        BY <3>1, <4>1
    <3>3. /\ g.json /\ g.choices /\ g.content = << >> /\ g.calls = << >>
      <4>1. /\ Blank.json = TRUE /\ Blank.choices = TRUE
            /\ Blank.content = NotJSON(<< >>).content /\ Blank.calls = NotJSON(<< >>).calls
        BY DEF Blank, NotJSON
      <4>2. NotJSON(<< >>).content = << >> /\ NotJSON(<< >>).calls = << >>
        BY DEF NotJSON
      <4> HIDE DEF g
      <4>3. QED
        BY <3>2, <4>1, <4>2
    <3>4. x.content \in Contents
      BY <2>1 DEF Lines, Events, Contents
    <3>5. << >> \o x.content = x.content /\ << >> \o << >> = << >>
      BY <3>4, ConcatEmptySeq DEF Contents
    <3>6. x.calls = << >> /\ x.content = text
      BY <2>5
    <3> HIDE DEF u, v, x, g, h, text
    <3>7. h.json /\ h.choices /\ h.content = text /\ h.calls = << >>
      BY <2>1, <2>3, <3>3, <3>5, <3>6
    <3>8. BodySoFar(s, text, i)
      BY <2>4, <2>5, <3>7 DEF BodySoFar, v, h
    <3>9. QED
      BY <2>2, <3>8
  <2>6. CASE i # 1
    <3>1. i \in 2..Len(s) /\ i - 1 # 0
      BY <1>0, <2>6
    <3>2. x.content = << >> /\ \E c \in Calls : x.calls = <<c>>
      BY <3>1 DEF CallLines
    <3>3. BodySoFar(s, text, i - 1)
      BY <1>3, <3>1
    <3>4. /\ g.json /\ g.choices /\ g.content = text
          /\ i - 1 = 1 => g.calls = << >>
          /\ i - 1 > 1 => g.calls # << >> /\ g.calls[1] = s[2].calls[1]
      BY <3>3 DEF BodySoFar
    <3> HIDE DEF u, v, g, h, text
    <3>5. h.content = text
      <4>1. g.content \o << >> = g.content
        BY <2>1, ConcatEmptySeq DEF Contents
      <4>2. QED
        BY <2>1, <2>3, <3>2, <3>4, <4>1
    <3>6. h.calls # << >> /\ h.calls[1] = s[2].calls[1]
      <4> PICK c \in Calls : x.calls = <<c>>
        BY <3>2
      <4> HIDE DEF x
      <4>1. h.calls = Append(g.calls, c)
        BY <2>1, <2>3, AppendIsConcat
      <4>2. /\ h.calls # << >> /\ Len(g.calls) \in Nat
            /\ \A k \in 1..Len(g.calls) : h.calls[k] = g.calls[k]
            /\ h.calls[Len(g.calls) + 1] = c
        <5> DEFINE q == g.calls
        <5>1. q \in Seq(Calls) /\ h.calls = Append(q, c)
          BY <2>1, <4>1
        <5> HIDE DEF q
        <5>2. /\ Append(q, c) # << >> /\ Append(q, c)[Len(q) + 1] = c
              /\ \A k \in 1..Len(q) : Append(q, c)[k] = q[k]
          BY <5>1, AppendProperties
        <5>3. Len(q) \in Nat
          BY <5>1
        <5>4. QED
          BY <5>1, <5>2, <5>3 DEF q
      <4>3. CASE i = 2
        <5>1. Len(g.calls) = 0 /\ s[2].calls[1] = c
          BY <3>4, <4>3 DEF x
        <5>2. QED
          BY <4>2, <5>1
      <4>4. CASE i # 2
        <5>1. i - 1 > 1
          BY <2>2, <3>1, <4>4
        <5>2. g.calls # << >> /\ g.calls[1] = s[2].calls[1]
          BY <3>4, <5>1
        <5>3. 1 \in 1..Len(g.calls)
          BY <2>1, <5>2, EmptySeq
        <5>4. QED
          BY <4>2, <5>2, <5>3
      <4>5. QED
        BY <4>3, <4>4
    <3>7. BodySoFar(s, text, i)
      BY <2>1, <2>4, <2>6, <3>4, <3>5, <3>6 DEF BodySoFar, v, h
    <3>8. QED
      BY <2>2, <3>7
  <2>7. QED
    BY <2>5, <2>6
<1>4. n \in S
  <2>1. \A i \in 0..n : i \in S
    <3> HIDE DEF S, n
    <3> QED
      BY <1>0, <1>2, <1>3, ScanInduction, Zenon
  <2>2. QED
    BY <1>0, <2>1
<1>5. QED
  BY <1>0, <1>4

\* The chunk with the text.
TextChunk(content) == [Delta("none") EXCEPT !.role = "assistant", !.content = content]

LEMMA TextChunkTyped ==
  ASSUME NEW content \in Contents
  PROVE  /\ TextChunk(content) \in Lines /\ Counts(TextChunk(content))
         /\ TextChunk(content).content = content /\ TextChunk(content).calls = << >>
<1> DEFINE d == Delta("none")
           x == [d EXCEPT !.role = "assistant", !.content = content]
<1>1. d \in Lines /\ Counts(d) /\ d.calls = << >>
  BY LinesTyped
<1>2. TextChunk(content) = x
  BY DEF TextChunk
<1> HIDE DEF d
<1>3. /\ x \in Lines /\ x.content = content /\ x.calls = d.calls
      /\ x.data = d.data /\ x.choices = d.choices
  BY <1>1 DEF Lines, Events, Contents, Labels
<1>4. QED
  BY <1>1, <1>2, <1>3 DEF Counts

\* The chunks of all the calls: the first one names the first call.
CallsChunks(calls, fragmented) ==
  FlattenSeq([k \in DOMAIN calls |-> CallChunks(calls[k], fragmented)])

LEMMA CallsChunksTyped ==
  ASSUME NEW calls \in Seq(Calls), NEW fragmented \in BOOLEAN
  PROVE  /\ CallsChunks(calls, fragmented) \in Seq(CallLines)
         /\ calls = << >> => CallsChunks(calls, fragmented) = << >>
         /\ calls # << >> =>
              /\ CallsChunks(calls, fragmented) # << >>
              /\ CallsChunks(calls, fragmented)[1].calls[1].id = calls[1].id
<1> DEFINE ss == [k \in DOMAIN calls |-> CallChunks(calls[k], fragmented)]
           X == CallLines
<1>1. \A k \in 1..Len(calls) : calls[k] \in Calls
  OBVIOUS
<1>2. \A k \in 1..Len(calls) :
        /\ CallChunks(calls[k], fragmented) \in Seq(X)
        /\ CallChunks(calls[k], fragmented) # << >>
        /\ CallChunks(calls[k], fragmented)[1].calls[1].id = calls[k].id
  BY <1>1, ChunksOfCall
<1>3. DOMAIN calls = 1..Len(calls) /\ Len(calls) \in Nat
  OBVIOUS
<1>4. CallsChunks(calls, fragmented) = FlattenSeq(ss)
  BY DEF CallsChunks
<1> HIDE DEF X
<1>5. /\ ss \in Seq(Seq(X)) /\ Len(ss) = Len(calls)
      /\ \A k \in 1..Len(calls) : ss[k] = CallChunks(calls[k], fragmented)
  <2> DEFINE Q == Seq(X)
             c(k) == CallChunks(calls[k], fragmented)
             n == Len(calls)
  <2>1. \A k \in 1..n : c(k) \in Q
    BY <1>2
  <2>2. ss = [k \in 1..n |-> c(k)] /\ n \in Nat
    BY <1>3
  <2> HIDE DEF Q, c, n
  <2>3. /\ [k \in 1..n |-> c(k)] \in Seq(Q) /\ Len([k \in 1..n |-> c(k)]) = n
        /\ \A k \in 1..n : [j \in 1..n |-> c(j)][k] = c(k)
    BY <2>1, <2>2
  <2>4. QED
    BY <2>2, <2>3 DEF Q, c, n
<1> HIDE DEF ss
<1>6. FlattenSeq(ss) \in Seq(X) /\ FlattenSeq(<< >>) = << >>
  BY <1>5, FlattenAppend
<1>7. CASE calls = << >>
  <2>1. ss = << >>
    BY <1>5, <1>7
  <2>2. QED
    BY <1>4, <1>6, <1>7, <2>1 DEF X
<1>8. CASE calls # << >>
  <2>1. 1 \in 1..Len(calls)
    BY <1>3, <1>8
  <2>2. ss # << >> /\ \A k \in 1..Len(ss) : ss[k] # << >>
    BY <1>2, <1>5, <2>1
  <2>3. FlattenSeq(ss) # << >> /\ FlattenSeq(ss)[1] = ss[1][1]
    BY <1>5, <2>2, FlattenHead
  <2>4. QED
    BY <1>2, <1>4, <1>5, <1>6, <1>8, <2>1, <2>3 DEF X
<1>9. QED
  BY <1>7, <1>8

Answered(content, calls) == [Answer EXCEPT !.content = content, !.calls = calls]

LEMMA AnsweredTyped ==
  ASSUME NEW content \in Contents, NEW calls \in Seq(Calls)
  PROVE  /\ Answered(content, calls) \in Bodies
         /\ Answered(content, calls).json /\ Answered(content, calls).choices
         /\ Answered(content, calls).content = content
         /\ Answered(content, calls).calls = calls
         /\ ErrorBody \in Bodies /\ ErrorBody.json /\ ~ErrorBody.choices
         /\ ErrorBody.content = << >> /\ ErrorBody.calls = << >>
<1> DEFINE nothing == << >>
           b == NotJSON(nothing)
<1>1. nothing \in Contents /\ nothing \in Seq(Calls) /\ nothing \in Seq(Lines)
  BY DEF Contents
<1>2. b = [json |-> FALSE, lines |-> nothing, choices |-> FALSE, id |-> "none",
           role |-> "none", content |-> nothing, calls |-> nothing, finish |-> "none",
           usage |-> FALSE]
  BY DEF NotJSON
<1>3. /\ Answered(content, calls) =
            [[b EXCEPT !.json = TRUE, !.choices = TRUE, !.role = "assistant"]
               EXCEPT !.content = content, !.calls = calls]
      /\ ErrorBody = [b EXCEPT !.json = TRUE]
  BY DEF Answered, Answer, ErrorBody
<1> HIDE DEF nothing, b
<1>4. /\ b \in Bodies /\ ~b.choices /\ b.content = nothing /\ b.calls = nothing
  BY <1>1, <1>2 DEF Bodies, Responses, Lines, Labels, Reasons, Contents
<1>5. QED
  BY <1>3, <1>4 DEF Bodies, Responses, Lines, Labels, Contents, nothing

\* What a reader of the rebuilt response sees of the answer.
Shown(r, content, calls) ==
  /\ r \in Bodies /\ r.json /\ r.choices /\ r.content = content
  /\ r.calls # << >> <=> content = << >> /\ calls # << >>
  /\ r.calls # << >> => r.calls[1].id = calls[1].id

\* The stream of an answer rebuilds its text, and, of an answer without text,
\* the identifier of its first call.
LEMMA AnswerStreamed ==
  ASSUME NEW content \in Contents, NEW calls \in Seq(Calls), NEW fragmented \in BOOLEAN
  PROVE  Shown(Reconstruct(AsStream(Answered(content, calls), fragmented)), content, calls)
<1> DEFINE t == TextChunk(content)
           flat == CallsChunks(calls, fragmented)
           s == <<t>> \o flat
           all == AsStream(Answered(content, calls), fragmented)
           g == Gathered(all)
<1>1. all = s \o <<Noise>>
  <2>1. /\ Answered(content, calls).content = content
        /\ Answered(content, calls).calls = calls
    BY AnsweredTyped
  <2> HIDE DEF s
  <2>2. all = (<<t>> \o flat) \o <<Noise>>
    BY <2>1, Zenon DEF AsStream, TextChunk, CallsChunks, CallChunks
  <2>3. QED
    BY <2>2 DEF s
<1>2. /\ t \in Lines /\ Counts(t) /\ t.content = content /\ t.calls = << >>
  BY TextChunkTyped
<1>3. /\ flat \in Seq(CallLines)
      /\ calls = << >> => flat = << >>
      /\ calls # << >> => flat # << >> /\ flat[1].calls[1].id = calls[1].id
  BY CallsChunksTyped
<1> HIDE DEF t, flat
<1>4. /\ s \in Seq(Lines) /\ s # << >> /\ s[1] = t /\ Len(s) = Len(flat) + 1
      /\ \A i \in 2..Len(s) : s[i] = flat[i - 1] /\ s[i] \in CallLines
  <2> DEFINE w == <<t>>
  <2>1. w \in Seq(Lines) /\ Len(w) = 1 /\ w[1] = t
    BY <1>2
  <2>2. flat \in Seq(Lines) /\ Len(flat) \in Nat
    BY <1>3 DEF CallLines
  <2> HIDE DEF w
  <2>3. /\ w \o flat \in Seq(Lines) /\ Len(w \o flat) = Len(w) + Len(flat)
        /\ \A i \in 1 .. Len(w) + Len(flat) :
             (w \o flat)[i] = IF i <= Len(w) THEN w[i] ELSE flat[i - Len(w)]
    BY <2>1, <2>2, ConcatProperties
  <2>4. s = w \o flat
    BY DEF w
  <2> HIDE DEF s
  <2>5. \A i \in 1..Len(flat) : flat[i] \in CallLines
    BY <1>3
  <2>6. QED
    BY <2>1, <2>2, <2>3, <2>4, <2>5
<1> HIDE DEF s
<1>5. BodySoFar(s, content, Len(s))
  BY <1>2, <1>4, CallsGathered
<1>6. SubSeq(s, 1, Len(s)) = s
  BY <1>4, SubSeqFull
<1>7. /\ Chunks(s) # << >> /\ Gathered(s).json /\ Gathered(s).choices
      /\ Gathered(s).content = content
      /\ Len(s) = 1 => Gathered(s).calls = << >>
      /\ Len(s) > 1 => Gathered(s).calls # << >> /\ Gathered(s).calls[1] = s[2].calls[1]
  BY <1>5, <1>6 DEF BodySoFar
<1>8. all = Append(s, Noise) /\ Append(s, Noise) \in Seq(Lines)
  BY <1>1, <1>4, LinesTyped, AppendIsConcat, AppendProperties
<1> HIDE DEF all
<1>9. /\ g \in Bodies /\ g.json /\ g.choices /\ g.content = content
      /\ g.calls = Gathered(s).calls
  <2>1. Noise \in Lines /\ TextOf(Noise) = << >> /\ CallsOf(Noise) = << >>
    BY LinesTyped DEF TextOf, CallsOf
  <2>2. g \in Bodies
    BY <1>8, <2>1, LineAdds
  <2>3. Gathered(s) \in Bodies
    BY <1>4, <2>1, LineAdds
  <2>4. Gathered(s).content \o << >> = Gathered(s).content
    BY <1>7, ConcatEmptySeq DEF Contents
  <2>5. Gathered(s).calls \o << >> = Gathered(s).calls
    <3> DEFINE q == Gathered(s).calls
    <3>1. q \in Seq(Calls)
      BY <2>3 DEF Bodies, Responses
    <3> HIDE DEF q
    <3>2. q \o << >> = q
      BY <3>1, ConcatEmptySeq
    <3>3. QED
      BY <3>2 DEF q
  <2>6. /\ g.json = Gathered(s).json /\ g.choices = Gathered(s).choices
        /\ g.content = Gathered(s).content \o TextOf(Noise)
        /\ g.calls = Gathered(s).calls \o CallsOf(Noise)
    BY <1>4, <1>8, <2>1, LineAdds
  <2>7. QED
    BY <1>7, <2>1, <2>2, <2>4, <2>5, <2>6
<1>10. Chunks(all) # << >>
  <2>1. Chunks(all) = Parse(Chunks(s), Noise)
    BY <1>4, <1>8, LinesTyped, ChunksAppend
  <2>2. QED
    BY <1>7, <2>1, LinesTyped DEF Parse
<1>11. Reconstruct(all) = Message(g)
  BY <1>10, ReconstructShows
<1>12. calls # << >> <=> g.calls # << >>
  <2>1. calls # << >> <=> Len(s) > 1
    BY <1>3, <1>4, EmptySeq
  <2>2. Len(s) >= 1
    BY <1>3, <1>4
  <2>3. QED
    BY <1>4, <1>7, <1>9, <2>1, <2>2
<1>13. calls # << >> => g.calls[1].id = calls[1].id
  <2>1. calls # << >> => 2 \in 2..Len(s) /\ Len(s) > 1
    BY <1>3, <1>4, EmptySeq
  <2>2. calls # << >> => s[2] = flat[1]
    BY <1>4, <2>1
  <2>3. QED
    BY <1>3, <1>7, <1>9, <2>1, <2>2
<1> HIDE DEF g
<1>14. CASE content = << >>
  <2>1. Reconstruct(all) = g
    BY <1>9, <1>11, <1>14 DEF Message
  <2>2. QED
    BY <1>9, <1>12, <1>13, <1>14, <2>1 DEF Shown, all
<1>15. CASE content # << >>
  <2> DEFINE nothing == << >>
             r == [g EXCEPT !.calls = nothing]
  <2>1. nothing \in Seq(Calls)
    OBVIOUS
  <2>2. Reconstruct(all) = r
    BY <1>9, <1>11, <1>15 DEF Message
  <2> HIDE DEF nothing
  <2>3. r \in Bodies /\ r.json /\ r.choices /\ r.content = content /\ r.calls = nothing
    BY <1>9, <2>1 DEF Bodies, Responses
  <2> HIDE DEF r
  <2>4. QED
    BY <1>15, <2>2, <2>3 DEF Shown, nothing, all
<1>16. QED
  BY <1>14, <1>15

-----------------------------------------------------------------------------
(* The invariant *)

Turns == {"user", "model", "tools"}

TypeOK ==
  /\ turn \in [Agents -> Turns]
  /\ history \in [Agents -> Seq(Messages)]
  /\ open \in [Agents -> SUBSET Ids]
  /\ outcomes \in [Agents -> SUBSET Outcomes]
  /\ entries \in Seq(Entries)

\* One of the first n entries is an answer to the agent.
AnsweredIn(es, n, a) == \E k \in 1..n : es[k].agent = a /\ es[k].choices

\* A conversation as the requests carry it: its results are those of the
\* tools, it holds an answer exactly when one was recorded, before that it has
\* questions alone but for a system message in front, and its first question is
\* the prompt.
TalkMeans(prompt, t, messages, calls, results, answered) ==
  /\ t # "user" => messages # << >>
  /\ \A k \in DOMAIN messages : messages[k].role = "tool" =>
       [id |-> messages[k].callID, failed |-> messages[k].failed] \in results
  /\ answered <=> \E k \in DOMAIN messages : messages[k].role = "assistant"
  /\ ~answered => /\ t # "tools" /\ calls = {}
                  /\ \A k \in DOMAIN messages : messages[k].role # "tool"
  /\ \A k \in DOMAIN messages : messages[k].role = "system" => k = 1
  /\ \A k \in DOMAIN messages : messages[k].role = "user" =>
       \/ messages[k].text = prompt
       \/ /\ messages[k].text = "and then?"
          /\ \E j \in 1..(k - 1) : messages[j].role = "user" /\ messages[j].text = prompt

TalkInv(a) ==
  TalkMeans(Prompt[a], turn[a], history[a], open[a], outcomes[a],
            AnsweredIn(entries, Len(entries), a))

\* The text that identifies the conversation of an agent.
Opening(a) == IF Prompt[a] = "none" THEN "and then?" ELSE Prompt[a]

\* What an entry says, given how the tools of its agent ended.
EntryMeans(e, results) ==
  /\ e.span.type = "TOOL_CALL" => e.calls # << >>
  /\ e.calls # << >> /\ (e.content = << >> \/ e.intact) =>
       e.span.type = "TOOL_CALL" /\ e.span.callID = e.calls[1].id
  /\ e.calls # << >> /\ e.intact => e.span.args = e.calls[1].args
  /\ e.span.type = "TOOL_RESULT" =>
       [id |-> e.span.callID, failed |-> e.span.isError] \in results
  /\ e.span.conversation \in {"none", Opening(e.agent)}

\* What MultiTurnMeant asks of an entry, given whether there was an answer.
MultiMeans(e, answered) ==
  e.span.count > 0 =>
    /\ answered => e.span.multi
    /\ e.span.multi => answered \/ e.again

TurnsMeant(es, n) == MultiMeans(es[n], AnsweredIn(es, n - 1, es[n].agent))

EntryInv ==
  \A n \in DOMAIN entries :
    EntryMeans(entries[n], outcomes[entries[n].agent]) /\ TurnsMeant(entries, n)

Inv == TypeOK /\ (\A a \in Agents : TalkInv(a)) /\ EntryInv

-----------------------------------------------------------------------------
(* The steps *)

LEMMA MsgTyped ==
  ASSUME NEW role \in Roles, NEW text \in Texts
  PROVE  /\ Msg(role, text) \in Messages /\ Msg(role, text).role = role
         /\ Msg(role, text).text = text
<1> DEFINE nothing == << >>
<1>1. nothing \in Ids
  BY DEF Ids
<1>2. Msg(role, text) = [role |-> role, text |-> text, callID |-> nothing,
                         parts |-> FALSE, failed |-> FALSE]
  BY DEF Msg
<1> HIDE DEF nothing
<1>3. QED
  BY <1>1, <1>2 DEF Messages

\* An entry more.
LEMMA EntryAppended ==
  ASSUME NEW es \in Seq(Entries), NEW e \in Entries
  PROVE  /\ Append(es, e) \in Seq(Entries)
         /\ Len(es) \in Nat /\ Len(Append(es, e)) = Len(es) + 1
         /\ Append(es, e)[Len(es) + 1] = e
         /\ \A k \in 1..Len(es) : Append(es, e)[k] = es[k]
         /\ \A n \in 0..Len(es), a \in Agents :
              AnsweredIn(Append(es, e), n, a) <=> AnsweredIn(es, n, a)
         /\ \A a \in Agents :
              AnsweredIn(Append(es, e), Len(es) + 1, a)
                <=> AnsweredIn(es, Len(es), a) \/ (e.agent = a /\ e.choices)
<1> DEFINE n == Len(es)
           fs == Append(es, e)
<1>1. /\ fs \in Seq(Entries) /\ n \in Nat /\ Len(fs) = n + 1 /\ fs[n + 1] = e
      /\ \A k \in 1..n : fs[k] = es[k]
  BY AppendProperties
<1> HIDE DEF n, fs
<1>2. ASSUME NEW m \in 0..n, NEW a \in Agents
      PROVE  AnsweredIn(fs, m, a) <=> AnsweredIn(es, m, a)
  <2>1. \A k \in 1..m : k \in 1..n
    BY <1>1
  <2>2. QED
    BY <1>1, <2>1 DEF AnsweredIn
<1>3. ASSUME NEW a \in Agents
      PROVE  AnsweredIn(fs, n + 1, a) <=> AnsweredIn(es, n, a) \/ (e.agent = a /\ e.choices)
  <2>1. \A k : k \in 1..(n + 1) <=> k \in 1..n \/ k = n + 1
    BY <1>1
  <2>2. QED
    BY <1>1, <2>1 DEF AnsweredIn
<1>4. QED
  BY <1>1, <1>2, <1>3 DEF n, fs

\* A message more.
LEMMA MessageAppended ==
  ASSUME history \in [Agents -> Seq(Messages)], NEW a \in Agents, NEW m \in Messages,
         Says(a, m)
  PROVE  /\ history' \in [Agents -> Seq(Messages)]
         /\ \A b \in Agents \ {a} : history'[b] = history[b]
         /\ Len(history[a]) \in Nat /\ Len(history'[a]) = Len(history[a]) + 1
         /\ history'[a][Len(history[a]) + 1] = m
         /\ \A k \in 1..Len(history[a]) : history'[a][k] = history[a][k]
         /\ DOMAIN history[a] = 1..Len(history[a])
         /\ DOMAIN history'[a] = 1..(Len(history[a]) + 1)
<1> DEFINE h == history[a]
<1>1. h \in Seq(Messages)
  OBVIOUS
<1>2. history' = [history EXCEPT ![a] = Append(h, m)]
  BY DEF Says
<1> HIDE DEF h
<1>3. /\ Append(h, m) \in Seq(Messages) /\ Len(h) \in Nat
      /\ Len(Append(h, m)) = Len(h) + 1 /\ Append(h, m)[Len(h) + 1] = m
      /\ \A k \in 1..Len(h) : Append(h, m)[k] = h[k]
      /\ DOMAIN h = 1..Len(h) /\ DOMAIN Append(h, m) = 1..(Len(h) + 1)
  BY <1>1, AppendProperties, LenProperties
<1> DEFINE M == Seq(Messages)
<1>4. history \in [Agents -> M] /\ Append(h, m) \in M
  BY <1>3
<1> HIDE DEF M
<1>5. /\ history' \in [Agents -> M] /\ history'[a] = Append(h, m)
      /\ \A b \in Agents \ {a} : history'[b] = history[b]
  BY <1>2, <1>4
<1>6. QED
  BY <1>3, <1>5 DEF h, M

\* The identifier of a conversation is its opening.
LEMMA ConversationOpening ==
  ASSUME TypeOK, NEW a \in Agents, TalkInv(a)
  PROVE  ConversationID(history[a]) \in {"none", Opening(a)}
<1> DEFINE h == history[a]
<1>1. h \in Seq(Messages)
  BY DEF TypeOK
<1>2. \A k \in DOMAIN h : h[k].role = "user" =>
       \/ h[k].text = Prompt[a]
       \/ /\ h[k].text = "and then?"
          /\ \E j \in 1..(k - 1) : h[j].role = "user" /\ h[j].text = Prompt[a]
  BY DEF TalkInv, TalkMeans
<1> HIDE DEF h
<1>3. SUFFICES ASSUME ConversationID(h) # "none"
               PROVE  ConversationID(h) = Opening(a)
  BY DEF h
<1> PICK k \in DOMAIN h : /\ Asks(h[k]) /\ ConversationID(h) = h[k].text
                          /\ \A j \in 1..(k - 1) : ~Asks(h[j])
  BY <1>1, <1>3, FirstAsked
<1>4. QED
  BY <1>2, <1>3 DEF Asks, Opening

Called(r) == r.json /\ r.choices /\ r.calls # << >>

\* The recorded response tells of a call only if there was one, and of the
\* first one if it shows the answer or the answer had no text.
Tells(meant, response) ==
  /\ Called(response) => meant.calls # << >>
  /\ meant.calls # << >> /\ (meant.content = << >> \/ response = meant) =>
       Called(response) /\ response.calls[1].id = meant.calls[1].id

EntryOf(a, meant, response) ==
  [agent |-> a, again |-> AskedAgain(history[a]),
   choices |-> meant.choices, content |-> meant.content, calls |-> meant.calls,
   intact |-> response = meant,
   span |-> EnrichTraceContext(history[a], response)]

\* What is recorded at the end of a handler is true.
LEMMA EntryRecorded ==
  ASSUME TypeOK, NEW a \in Agents, TalkInv(a), history[a] # << >>,
         NEW meant \in Bodies, NEW response \in Bodies, Tells(meant, response)
  PROVE  LET e == EntryOf(a, meant, response) IN
         /\ e \in Entries /\ e.agent = a /\ e.choices = meant.choices
         /\ EntryMeans(e, outcomes[a])
         /\ MultiMeans(e, AnsweredIn(entries, Len(entries), a))
<1> DEFINE h == history[a]
           e == EntryOf(a, meant, response)
           span == EnrichTraceContext(h, response)
           again == AskedAgain(h)
           answered == AnsweredIn(entries, Len(entries), a)
<1>1. h \in Seq(Messages) /\ h # << >>
  BY DEF TypeOK
<1>2. SpanMeans(span, h, response)
  BY <1>1, SpanOf
<1>4. /\ meant.choices \in BOOLEAN /\ meant.content \in Contents
      /\ meant.calls \in Seq(Calls)
  BY DEF Bodies, Responses, Contents
<1>5. span \in Spans /\ (response = meant) \in BOOLEAN /\ again \in BOOLEAN
  <2>1. again \in BOOLEAN
    BY Zenon DEF AskedAgain
  <2>2. QED
    BY <1>2, <2>1 DEF SpanMeans
<1>6. e = [agent |-> a, again |-> again, choices |-> meant.choices, content |-> meant.content,
           calls |-> meant.calls, intact |-> response = meant, span |-> span]
  BY DEF EntryOf
<1>7. ConversationID(h) \in {"none", Opening(a)}
  BY ConversationOpening
<1>8. /\ answered <=> \E k \in DOMAIN h : h[k].role = "assistant"
      /\ ~answered => \A k \in DOMAIN h : h[k].role # "tool"
      /\ \A k \in DOMAIN h : h[k].role = "system" => k = 1
      /\ \A k \in DOMAIN h : h[k].role = "tool" =>
           [id |-> h[k].callID, failed |-> h[k].failed] \in outcomes[a]
  <2>1. TalkMeans(Prompt[a], turn[a], h, open[a], outcomes[a], answered)
    BY DEF TalkInv
  <2> HIDE DEF h, answered
  <2>2. QED
    BY <2>1, Zenon DEF TalkMeans
<1> HIDE DEF h, e, span, again, answered
<1>9. /\ e \in Entries /\ e.agent = a /\ e.choices = meant.choices
      /\ e.content = meant.content /\ e.calls = meant.calls
      /\ e.intact <=> response = meant
      /\ e.span = span /\ (e.again <=> again)
  BY <1>4, <1>5, <1>6 DEF Entries
<1>10. /\ span.type = "TOOL_CALL" <=> Called(response)
       /\ span.type = "TOOL_CALL" =>
            span.callID = response.calls[1].id /\ span.args = response.calls[1].args
  BY <1>2 DEF SpanMeans, Called
<1>11. span.type = "TOOL_RESULT" =>
         [id |-> span.callID, failed |-> span.isError] \in outcomes[a]
  BY <1>2, <1>8 DEF SpanMeans
<1>12. span.conversation \in {"none", Opening(a)}
  BY <1>2, <1>7 DEF SpanMeans
<1>13. MultiMeans(e, answered)
  <2>1. span.count > 0 =>
          (span.multi <=> \/ \E k \in DOMAIN h : h[k].role \in {"assistant", "tool"}
                          \/ Len(h) > 2)
    BY <1>2 DEF SpanMeans
  <2>2. span.count > 0 /\ answered => span.multi
    BY <1>8, <2>1
  <2>3. ~answered => ~\E k \in DOMAIN h : h[k].role \in {"assistant", "tool"}
    BY <1>8
  <2>4. ASSUME ~answered, Len(h) > 2 PROVE again
    <3>1. 2 \in DOMAIN h /\ 3 \in DOMAIN h
      BY <1>1, <2>4
    <3>2. h[2] \in Messages /\ h[3] \in Messages
      BY <1>1, <3>1
    <3>3. h[2].role = "user" /\ h[3].role = "user"
      BY <1>8, <2>3, <2>4, <3>1, <3>2 DEF Messages, Roles
    <3>4. QED
      BY <3>1, <3>3 DEF again, AskedAgain
  <2>5. QED
    BY <1>9, <2>1, <2>2, <2>3, <2>4 DEF MultiMeans
<1>14. EntryMeans(e, outcomes[a])
  <2>1. e.span.type = "TOOL_CALL" => e.calls # << >>
    BY <1>9, <1>10 DEF Tells
  <2>2. e.calls # << >> /\ (e.content = << >> \/ e.intact) =>
          e.span.type = "TOOL_CALL" /\ e.span.callID = e.calls[1].id
    BY <1>9, <1>10 DEF Tells
  <2>3. e.calls # << >> /\ e.intact => e.span.args = e.calls[1].args
    BY <1>9, <1>10 DEF Tells
  <2>4. QED
    BY <1>9, <1>11, <1>12, <2>1, <2>2, <2>3 DEF EntryMeans
<1>15. QED
  BY <1>9, <1>13, <1>14 DEF e, answered

\* What an action that records does to the entries.
LEMMA RecordStep ==
  ASSUME Inv, NEW a \in Agents, history[a] # << >>,
         NEW meant \in Bodies, NEW response \in Bodies, Tells(meant, response),
         Record(a, meant, response), outcomes' = outcomes
  PROVE  /\ entries' \in Seq(Entries) /\ EntryInv'
         /\ \A b \in Agents :
              AnsweredIn(entries', Len(entries'), b)
                <=> AnsweredIn(entries, Len(entries), b) \/ (b = a /\ meant.choices)
<1> DEFINE e == EntryOf(a, meant, response)
           n == Len(entries)
<1>1. TypeOK /\ TalkInv(a) /\ entries \in Seq(Entries)
  BY DEF Inv, TypeOK
<1>2. /\ e \in Entries /\ e.agent = a /\ e.choices = meant.choices
      /\ EntryMeans(e, outcomes[a])
      /\ MultiMeans(e, AnsweredIn(entries, n, a))
  BY <1>1, EntryRecorded
<1>3. entries' = Append(entries, e)
  BY DEF Record, EntryOf
<1> HIDE DEF e
<1>4. /\ entries' \in Seq(Entries) /\ n \in Nat /\ Len(entries') = n + 1
      /\ entries'[n + 1] = e
      /\ \A k \in 1..n : entries'[k] = entries[k]
      /\ \A m \in 0..n, b \in Agents : AnsweredIn(entries', m, b) <=> AnsweredIn(entries, m, b)
      /\ \A b \in Agents : AnsweredIn(entries', n + 1, b)
                             <=> AnsweredIn(entries, n, b) \/ (e.agent = b /\ e.choices)
  BY <1>1, <1>2, <1>3, EntryAppended
<1>5. ASSUME NEW k \in DOMAIN entries'
      PROVE  EntryMeans(entries'[k], outcomes'[entries'[k].agent]) /\ TurnsMeant(entries', k)
  <2>1. k \in 1..n \/ k = n + 1
    <3>1. DOMAIN entries' = 1..(n + 1)
      BY <1>4
    <3>2. QED
      BY <1>4, <3>1
  <2>2. CASE k \in 1..n
    <3>1. k \in DOMAIN entries
      BY <1>1, <2>2
    <3>2. EntryMeans(entries[k], outcomes[entries[k].agent]) /\ TurnsMeant(entries, k)
      BY <3>1 DEF Inv, EntryInv
    <3>3. entries[k].agent \in Agents
      <4>1. entries[k] \in Entries
        BY <1>1, <3>1
      <4>2. QED
        BY <4>1 DEF Entries
    <3>4. k - 1 \in 0..n
      BY <1>4, <2>2
    <3>5. /\ entries'[k] = entries[k]
          /\ AnsweredIn(entries', k - 1, entries[k].agent)
               <=> AnsweredIn(entries, k - 1, entries[k].agent)
      BY <1>4, <2>2, <3>3, <3>4
    <3>6. TurnsMeant(entries', k)
      BY <3>2, <3>5, Zenon DEF TurnsMeant, MultiMeans
    <3>7. QED
      BY <3>2, <3>5, <3>6
  <2>3. CASE k = n + 1
    <3>1. (n + 1) - 1 = n /\ n \in 0..n
      BY <1>4
    <3>2. entries'[k] = e /\ (AnsweredIn(entries', k - 1, a) <=> AnsweredIn(entries, n, a))
      BY <1>4, <2>3, <3>1
    <3>3. TurnsMeant(entries', k)
      BY <1>2, <3>2, Zenon DEF TurnsMeant, MultiMeans
    <3>4. QED
      BY <1>2, <3>2, <3>3
  <2>4. QED
    BY <2>1, <2>2, <2>3
<1>6. EntryInv'
  BY <1>5 DEF EntryInv
<1>7. QED
  BY <1>2, <1>4, <1>6

\* A message is added to the conversation: a result is one of a tool, only the
\* first question is the prompt, and an answer is recorded.
Adds(a, m) ==
  /\ Says(a, m)
  /\ outcomes[a] \subseteq outcomes'[a]
  /\ m.role = "tool" => [id |-> m.callID, failed |-> m.failed] \in outcomes'[a]
  /\ m.role = "user" =>
       \/ m.text = Prompt[a]
       \/ /\ m.text = "and then?"
          /\ \E k \in DOMAIN history[a] : history[a][k].role = "user"
  /\ AnsweredIn(entries', Len(entries'), a)
       <=> AnsweredIn(entries, Len(entries), a) \/ m.role = "assistant"
  /\ ~AnsweredIn(entries', Len(entries'), a) =>
       turn'[a] = "model" /\ open'[a] = {} /\ m.role # "tool"
  /\ m.role # "system"

LEMMA TalkLonger ==
  ASSUME NEW a \in Agents, TypeOK, TalkInv(a), NEW m \in Messages, Adds(a, m)
  PROVE  TalkInv(a)'
<1> DEFINE h == history[a]
           g == history'[a]
           n == Len(h)
           before == AnsweredIn(entries, Len(entries), a)
           after == AnsweredIn(entries', Len(entries'), a)
           talk == outcomes[a]
           ended == outcomes'[a]
<1>1. /\ n \in Nat /\ Len(g) = n + 1 /\ g[n + 1] = m /\ \A k \in 1..n : g[k] = h[k]
      /\ DOMAIN h = 1..n /\ DOMAIN g = 1..(n + 1)
  BY MessageAppended DEF TypeOK, Adds
<1>2. /\ \A k \in 1..n : h[k].role = "tool" =>
           [id |-> h[k].callID, failed |-> h[k].failed] \in talk
      /\ before <=> \E k \in 1..n : h[k].role = "assistant"
      /\ ~before => \A k \in 1..n : h[k].role # "tool"
      /\ \A k \in 1..n : h[k].role = "system" => k = 1
      /\ \A k \in 1..n : h[k].role = "user" =>
           \/ h[k].text = Prompt[a]
           \/ /\ h[k].text = "and then?"
              /\ \E j \in 1..(k - 1) : h[j].role = "user" /\ h[j].text = Prompt[a]
  BY <1>1, Zenon DEF TalkInv, TalkMeans
<1>3. talk \subseteq ended
  BY DEF Adds
<1>4. /\ after <=> before \/ m.role = "assistant"
      /\ ~after => turn'[a] = "model" /\ open'[a] = {} /\ m.role # "tool"
      /\ m.role # "system"
      /\ m.role = "tool" => [id |-> m.callID, failed |-> m.failed] \in ended
      /\ m.role = "user" =>
           \/ m.text = Prompt[a]
           \/ m.text = "and then?" /\ \E k \in 1..n : h[k].role = "user"
  BY <1>1, Zenon DEF Adds
<1> HIDE DEF h, g, n, before, after, talk, ended
<1>5. \A k : k \in 1..(n + 1) <=> k \in 1..n \/ k = n + 1
  BY <1>1
<1>6. g # << >>
  BY <1>1
<1>7. \A k \in DOMAIN g : g[k].role = "tool" =>
        [id |-> g[k].callID, failed |-> g[k].failed] \in ended
  BY <1>1, <1>2, <1>3, <1>4, <1>5
<1>8. after <=> \E k \in DOMAIN g : g[k].role = "assistant"
  <2>1. after <=> before \/ m.role = "assistant"
    BY <1>4, Zenon
  <2>2. before <=> \E k \in 1..n : h[k].role = "assistant"
    BY <1>2, Zenon
  <2>3. (\E k \in DOMAIN g : g[k].role = "assistant")
          <=> (\E k \in 1..n : h[k].role = "assistant") \/ m.role = "assistant"
    BY <1>1, <1>5
  <2>4. QED
    BY <2>1, <2>2, <2>3, Zenon
<1>9. ~after => /\ turn'[a] # "tools" /\ open'[a] = {}
                /\ \A k \in DOMAIN g : g[k].role # "tool"
  <2> SUFFICES ASSUME ~after
               PROVE  /\ turn'[a] # "tools" /\ open'[a] = {}
                      /\ \A k \in DOMAIN g : g[k].role # "tool"
    OBVIOUS
  <2>1. ~before /\ turn'[a] = "model" /\ open'[a] = {} /\ m.role # "tool"
    BY <1>4, Zenon
  <2>2. \A k \in 1..n : h[k].role # "tool"
    BY <1>2, <2>1, Zenon
  <2>3. \A k \in DOMAIN g : g[k].role # "tool"
    BY <1>1, <1>5, <2>1, <2>2
  <2>4. QED
    BY <2>1, <2>3
<1>13. \A k \in DOMAIN g : g[k].role = "system" => k = 1
  BY <1>1, <1>2, <1>4, <1>5
<1>10. ASSUME NEW k \in DOMAIN g, g[k].role = "user", g[k].text # Prompt[a]
       PROVE  /\ g[k].text = "and then?"
              /\ \E j \in 1..(k - 1) : g[j].role = "user" /\ g[j].text = Prompt[a]
  <2>1. CASE k \in 1..n
    <3>1. \A j \in 1..(k - 1) : j \in 1..n
      BY <1>1, <2>1
    <3>2. QED
      BY <1>1, <1>2, <1>10, <2>1, <3>1
  <2>2. CASE k = n + 1
    <3>1. g[k].text = "and then?" /\ \E i \in 1..n : h[i].role = "user"
      BY <1>1, <1>4, <1>10, <2>2
    <3>2. \E i \in 1..n : h[i].role = "user" /\ h[i].text = Prompt[a]
      <4> PICK i \in 1..n : h[i].role = "user"
        BY <3>1
      <4>1. \A j \in 1..(i - 1) : j \in 1..n
        BY <1>1
      <4>2. QED
        BY <1>2, <4>1
    <3>3. (n + 1) - 1 = n
      BY <1>1
    <3>4. QED
      BY <1>1, <2>2, <3>1, <3>2, <3>3
  <2>3. QED
    BY <1>1, <1>5, <2>1, <2>2
<1>11. TalkMeans(Prompt[a], turn'[a], g, open'[a], ended, after)
  BY <1>6, <1>7, <1>8, <1>9, <1>10, <1>13, Zenon DEF TalkMeans
<1>12. QED
  BY <1>11, Zenon DEF TalkInv, g, ended, after

\* The conversations of the other agents stay what they are.
LEMMA TalkKept ==
  ASSUME NEW b \in Agents, TalkInv(b),
         turn'[b] = turn[b], history'[b] = history[b], open'[b] = open[b],
         outcomes'[b] = outcomes[b],
         AnsweredIn(entries', Len(entries'), b) <=> AnsweredIn(entries, Len(entries), b)
  PROVE  TalkInv(b)'
<1> DEFINE before == AnsweredIn(entries, Len(entries), b)
           after == AnsweredIn(entries', Len(entries'), b)
<1>1. before <=> after
  OBVIOUS
<1>2. TalkMeans(Prompt[b], turn[b], history[b], open[b], outcomes[b], before)
  BY Zenon DEF TalkInv
<1> HIDE DEF before, after
<1>3. TalkMeans(Prompt[b], turn[b], history[b], open[b], outcomes[b], after)
  BY <1>1, <1>2, Zenon DEF TalkMeans
<1>4. QED
  BY <1>3, Zenon DEF TalkInv, after

\* Without an entry the recorded ones stay true, whatever tools return.
LEMMA EntriesKept ==
  ASSUME Inv, entries' = entries, \A b \in Agents : outcomes[b] \subseteq outcomes'[b]
  PROVE  /\ entries' \in Seq(Entries) /\ EntryInv'
         /\ \A b \in Agents : AnsweredIn(entries', Len(entries'), b)
                                <=> AnsweredIn(entries, Len(entries), b)
<1>1. entries \in Seq(Entries)
  BY DEF Inv, TypeOK
<1>2. ASSUME NEW n \in DOMAIN entries
      PROVE  EntryMeans(entries[n], outcomes'[entries[n].agent]) /\ TurnsMeant(entries, n)
  <2>1. entries[n].agent \in Agents
    <3>1. entries[n] \in Entries
      BY <1>1
    <3>2. QED
      BY <3>1 DEF Entries
  <2>2. EntryMeans(entries[n], outcomes[entries[n].agent]) /\ TurnsMeant(entries, n)
    BY DEF Inv, EntryInv
  <2>3. outcomes[entries[n].agent] \subseteq outcomes'[entries[n].agent]
    BY <2>1
  <2> DEFINE e == entries[n]
             before == outcomes[e.agent]
             after == outcomes'[e.agent]
  <2>4. EntryMeans(e, before) /\ before \subseteq after
    BY <2>2, <2>3
  <2> HIDE DEF e, before, after
  <2>5. EntryMeans(e, after)
    BY <2>4, Zenon DEF EntryMeans
  <2>6. QED
    BY <2>2, <2>5 DEF e, after
<1>3. EntryInv'
  BY <1>2 DEF EntryInv
<1>4. QED
  BY <1>1, <1>3

LEMMA UserAsksStep ==
  ASSUME Inv, NEW a \in Agents, UserAsks(a)
  PROVE  Inv'
<1>1. TypeOK /\ \A b \in Agents : TalkInv(b)
  BY DEF Inv
<1>2. PICK m \in Messages :
        /\ Says(a, m) /\ m.role = "user"
        /\ \/ m.text = Prompt[a]
           \/ /\ m.text = "and then?"
              /\ \E k \in DOMAIN history[a] : history[a][k].role = "user"
  <2> DEFINE first == \A k \in DOMAIN history[a] : history[a][k].role # "user"
             text == IF first THEN Prompt[a] ELSE "and then?"
  <2>1. PICK image \in BOOLEAN : Says(a, [Msg("user", text) EXCEPT !.parts = image])
    BY DEF UserAsks
  <2>2. text \in Texts
    BY DEF Texts
  <2>3. ~first => \E k \in DOMAIN history[a] : history[a][k].role = "user"
    OBVIOUS
  <2>4. text = Prompt[a] \/ (text = "and then?" /\ ~first)
    OBVIOUS
  <2> HIDE DEF text, first
  <2> DEFINE m == [Msg("user", text) EXCEPT !.parts = image]
  <2>5. /\ Msg("user", text) \in Messages /\ Msg("user", text).role = "user"
        /\ Msg("user", text).text = text
    BY <2>2, MsgTyped DEF Roles
  <2>6. m \in Messages /\ m.role = "user" /\ m.text = text
    BY <2>5 DEF Messages
  <2> HIDE DEF m
  <2>7. QED
    BY <2>1, <2>3, <2>4, <2>6 DEF m
<1>3. /\ turn' = [turn EXCEPT ![a] = "model"]
      /\ open' = open /\ outcomes' = outcomes /\ entries' = entries
  BY DEF UserAsks
<1>4. /\ entries' \in Seq(Entries) /\ EntryInv'
      /\ \A b \in Agents : AnsweredIn(entries', Len(entries'), b)
                             <=> AnsweredIn(entries, Len(entries), b)
  BY <1>3, EntriesKept
<1>5. /\ turn' \in [Agents -> Turns] /\ turn'[a] = "model"
      /\ \A b \in Agents \ {a} : turn'[b] = turn[b]
  BY <1>1, <1>3 DEF TypeOK, Turns
<1>6. /\ history' \in [Agents -> Seq(Messages)]
      /\ \A b \in Agents \ {a} : history'[b] = history[b]
  BY <1>1, <1>2, MessageAppended DEF TypeOK
<1>7. TypeOK'
  BY <1>1, <1>3, <1>4, <1>5, <1>6 DEF TypeOK
<1>8. ~AnsweredIn(entries, Len(entries), a) => open[a] = {}
  <2>1. TalkInv(a)
    BY <1>1
  <2>2. QED
    BY <2>1, Zenon DEF TalkInv, TalkMeans
<1>9. Adds(a, m)
  <2>1. m.role # "tool" /\ m.role # "assistant" /\ m.role # "system"
    BY <1>2
  <2>2. QED
    BY <1>2, <1>3, <1>4, <1>5, <1>8, <2>1, Zenon DEF Adds
<1>10. ASSUME NEW b \in Agents PROVE TalkInv(b)'
  <2>1. CASE b = a
    BY <1>1, <1>9, <2>1, TalkLonger
  <2>2. CASE b # a
    BY <1>1, <1>3, <1>4, <1>5, <1>6, <2>2, TalkKept
  <2>3. QED
    BY <2>1, <2>2
<1>11. QED
  BY <1>4, <1>7, <1>10 DEF Inv

LEMMA ToolReturnsStep ==
  ASSUME Inv, NEW a \in Agents, NEW id \in open[a], ToolReturns(a, id)
  PROVE  Inv'
<1>1. TypeOK /\ \A b \in Agents : TalkInv(b)
  BY DEF Inv
<1>2. id \in Ids /\ outcomes[a] \subseteq Outcomes
  BY <1>1 DEF TypeOK
<1>3. PICK failed \in BOOLEAN :
        /\ Says(a, [Msg("tool", "result") EXCEPT !.callID = id, !.failed = failed])
        /\ outcomes' = [outcomes EXCEPT ![a] = @ \cup {[id |-> id, failed |-> failed]}]
  BY DEF ToolReturns
<1> DEFINE m == [Msg("tool", "result") EXCEPT !.callID = id, !.failed = failed]
           o == [id |-> id, failed |-> failed]
<1>4. m \in Messages /\ m.role = "tool" /\ m.callID = id /\ m.failed = failed
  <2>1. Msg("tool", "result") \in Messages /\ Msg("tool", "result").role = "tool"
    BY MsgTyped DEF Roles, Texts
  <2>2. QED
    BY <1>2, <2>1 DEF Messages
<1>5. Says(a, m)
  BY <1>3
<1>6. o \in Outcomes
  BY <1>2 DEF Outcomes
<1>7. o = [id |-> m.callID, failed |-> m.failed]
  BY <1>4
<1> HIDE DEF m, o
<1>8. outcomes' = [outcomes EXCEPT ![a] = @ \cup {o}]
  BY <1>3 DEF o
<1>9. /\ outcomes' \in [Agents -> SUBSET Outcomes]
      /\ o \in outcomes'[a] /\ outcomes[a] \subseteq outcomes'[a]
      /\ \A b \in Agents \ {a} : outcomes'[b] = outcomes[b]
  BY <1>1, <1>6, <1>8 DEF TypeOK
<1>10. /\ open' = [open EXCEPT ![a] = @ \ {id}]
       /\ turn' = [turn EXCEPT ![a] = IF open[a] = {id} THEN "model" ELSE @]
       /\ entries' = entries
  BY DEF ToolReturns
<1>11. /\ entries' \in Seq(Entries) /\ EntryInv'
       /\ \A b \in Agents : AnsweredIn(entries', Len(entries'), b)
                              <=> AnsweredIn(entries, Len(entries), b)
  <2>1. \A b \in Agents : outcomes[b] \subseteq outcomes'[b]
    BY <1>9
  <2>2. QED
    BY <1>10, <2>1, EntriesKept
<1>12. /\ turn' \in [Agents -> Turns] /\ open' \in [Agents -> SUBSET Ids]
       /\ \A b \in Agents \ {a} : turn'[b] = turn[b] /\ open'[b] = open[b]
  BY <1>1, <1>10 DEF TypeOK, Turns
<1>13. /\ history' \in [Agents -> Seq(Messages)]
       /\ \A b \in Agents \ {a} : history'[b] = history[b]
  BY <1>1, <1>4, <1>5, MessageAppended DEF TypeOK
<1>14. TypeOK'
  BY <1>9, <1>11, <1>12, <1>13 DEF TypeOK
<1>15. AnsweredIn(entries, Len(entries), a)
  <2>1. TalkInv(a) /\ open[a] # {}
    BY <1>1
  <2>2. QED
    BY <2>1, Zenon DEF TalkInv, TalkMeans
<1>16. Adds(a, m)
  <2>1. m.role # "user" /\ m.role # "assistant" /\ m.role # "system"
    BY <1>4
  <2>2. [id |-> m.callID, failed |-> m.failed] \in outcomes'[a]
    BY <1>7, <1>9
  <2>3. QED
    BY <1>5, <1>9, <1>11, <1>15, <2>1, <2>2, Zenon DEF Adds
<1>17. ASSUME NEW b \in Agents PROVE TalkInv(b)'
  <2>1. CASE b = a
    BY <1>1, <1>4, <1>16, <2>1, TalkLonger
  <2>2. CASE b # a
    BY <1>1, <1>9, <1>11, <1>12, <1>13, <2>2, TalkKept
  <2>3. QED
    BY <2>1, <2>2
<1>18. QED
  BY <1>11, <1>14, <1>17 DEF Inv

LEMMA NewCallsTyped ==
  ASSUME entries \in Seq(Entries), NEW n \in Nat
  PROVE  /\ NewCalls(n) \in Seq(Calls)
         /\ {NewCalls(n)[k].id : k \in 1..n} \in SUBSET Ids
<1> DEFINE c(k) == [id |-> << Len(entries), k >>, args |-> <<"args">>]
           C == Calls
<1>1. \A k \in 1..n : c(k) \in C /\ c(k).id \in Ids
  <2>1. Len(entries) \in Nat
    OBVIOUS
  <2>2. \A k \in 1..n : << Len(entries), k >> \in Ids
    BY <2>1 DEF Ids
  <2>3. <<"args">> \in Args
    BY DEF Args
  <2>4. QED
    BY <2>2, <2>3 DEF Calls
<1>2. NewCalls(n) = [k \in 1..n |-> c(k)]
  BY DEF NewCalls
<1> HIDE DEF c, C
<1>3. NewCalls(n) \in Seq(C) /\ \A k \in 1..n : NewCalls(n)[k] = c(k)
  BY <1>1, <1>2
<1>4. QED
  BY <1>1, <1>3 DEF C

\* An answer in one piece shows all of itself; one that came as a stream shows
\* what AnswerStreamed says.
LEMMA AnswerTells ==
  ASSUME NEW content \in Contents, NEW calls \in Seq(Calls)
  PROVE  LET answer == Answered(content, calls) IN
         /\ answer \in Bodies /\ answer.choices /\ Tells(answer, answer)
         /\ \A fragmented \in BOOLEAN :
              LET r == Reconstruct(AsStream(answer, fragmented)) IN
              r \in Bodies /\ Tells(answer, r)
<1> DEFINE answer == Answered(content, calls)
<1>1. /\ answer \in Bodies /\ answer.json /\ answer.choices
      /\ answer.content = content /\ answer.calls = calls
  BY AnsweredTyped
<1> HIDE DEF answer
<1>2. Tells(answer, answer)
  BY <1>1 DEF Tells, Called
<1>3. ASSUME NEW fragmented \in BOOLEAN
      PROVE  LET r == Reconstruct(AsStream(answer, fragmented)) IN
             r \in Bodies /\ Tells(answer, r)
  <2> DEFINE r == Reconstruct(AsStream(answer, fragmented))
  <2>1. Shown(r, content, calls)
    BY AnswerStreamed DEF answer
  <2> HIDE DEF r
  <2>2. /\ r \in Bodies /\ r.json /\ r.choices /\ r.content = content
        /\ r.calls # << >> <=> content = << >> /\ calls # << >>
        /\ r.calls # << >> => r.calls[1].id = calls[1].id
    BY <2>1 DEF Shown
  <2>3. r = answer => r.calls = calls
    BY <1>1
  <2>4. Tells(answer, r)
    BY <1>1, <2>2, <2>3 DEF Tells, Called
  <2>5. QED
    BY <2>2, <2>4 DEF r
<1>4. QED
  BY <1>1, <1>2, <1>3 DEF answer

LEMMA ModelAnswersStep ==
  ASSUME Inv, NEW a \in Agents, ModelAnswers(a)
  PROVE  Inv'
<1>1. TypeOK /\ \A b \in Agents : TalkInv(b)
  BY DEF Inv
<1>2. MaxCalls[a] \in Nat
  BY MaxCallsAssumption
<1>3. PICK n \in 0..MaxCalls[a], content \in {<< >>, <<"text">>} :
        LET answer == Answered(content, NewCalls(n)) IN
        /\ \/ Record(a, answer, answer)
           \/ \E fragmented \in BOOLEAN :
                Record(a, answer, Reconstruct(AsStream(answer, fragmented)))
        /\ Says(a, Msg("assistant", "text"))
        /\ open' = [open EXCEPT ![a] = {answer.calls[k].id : k \in 1..n}]
        /\ turn' = [turn EXCEPT ![a] = IF n = 0 THEN "user" ELSE "tools"]
  BY Zenon DEF ModelAnswers, Answered
<1> DEFINE calls == NewCalls(n)
           answer == Answered(content, calls)
<1>4. n \in Nat /\ content \in Contents
  <2>1. << >> \in Contents /\ <<"text">> \in Contents
    BY DEF Contents, Pieces
  <2>2. n \in Nat
    BY <1>2
  <2>3. QED
    BY <2>1, <2>2
<1>5. calls \in Seq(Calls) /\ {calls[k].id : k \in 1..n} \in SUBSET Ids
  BY <1>1, <1>4, NewCallsTyped DEF TypeOK
<1>6. answer.calls = calls
  BY <1>4, <1>5, AnsweredTyped
<1> HIDE DEF calls
<1>7. /\ answer \in Bodies /\ answer.choices /\ Tells(answer, answer)
      /\ \A fragmented \in BOOLEAN :
           /\ Reconstruct(AsStream(answer, fragmented)) \in Bodies
           /\ Tells(answer, Reconstruct(AsStream(answer, fragmented)))
  BY <1>4, <1>5, AnswerTells
<1>8. /\ \/ Record(a, answer, answer)
         \/ \E fragmented \in BOOLEAN :
              Record(a, answer, Reconstruct(AsStream(answer, fragmented)))
      /\ Says(a, Msg("assistant", "text"))
      /\ open' = [open EXCEPT ![a] = {answer.calls[k].id : k \in 1..n}]
      /\ turn' = [turn EXCEPT ![a] = IF n = 0 THEN "user" ELSE "tools"]
  BY <1>3, Zenon DEF calls
<1> HIDE DEF answer
<1>9. PICK response \in Bodies : Record(a, answer, response) /\ Tells(answer, response)
  BY <1>7, <1>8, Zenon
<1>10. outcomes' = outcomes /\ turn[a] = "model"
  BY DEF ModelAnswers
<1>11. history[a] # << >>
  <2>1. TalkInv(a)
    BY <1>1
  <2>2. turn[a] # "user"
    BY <1>10
  <2>3. QED
    BY <2>1, <2>2, Zenon DEF TalkInv, TalkMeans
<1>12. /\ entries' \in Seq(Entries) /\ EntryInv'
       /\ \A b \in Agents :
            AnsweredIn(entries', Len(entries'), b)
              <=> AnsweredIn(entries, Len(entries), b) \/ (b = a /\ answer.choices)
  BY <1>7, <1>9, <1>10, <1>11, RecordStep
<1> DEFINE m == Msg("assistant", "text")
<1>13. m \in Messages /\ m.role = "assistant"
  BY MsgTyped DEF Roles, Texts
<1>14. Says(a, m)
  BY <1>8
<1> HIDE DEF m
<1>15. /\ turn' \in [Agents -> Turns] /\ open' \in [Agents -> SUBSET Ids]
       /\ \A b \in Agents \ {a} : turn'[b] = turn[b] /\ open'[b] = open[b]
  <2> DEFINE ids == {answer.calls[k].id : k \in 1..n}
             t == IF n = 0 THEN "user" ELSE "tools"
  <2>1. ids \in SUBSET Ids /\ t \in Turns
    BY <1>5, <1>6 DEF Turns
  <2>2. open' = [open EXCEPT ![a] = ids] /\ turn' = [turn EXCEPT ![a] = t]
    BY <1>8
  <2> HIDE DEF ids, t
  <2>3. QED
    BY <1>1, <2>1, <2>2 DEF TypeOK
<1>16. /\ history' \in [Agents -> Seq(Messages)]
       /\ \A b \in Agents \ {a} : history'[b] = history[b]
  BY <1>1, <1>13, <1>14, MessageAppended DEF TypeOK
<1>17. TypeOK'
  BY <1>1, <1>10, <1>12, <1>15, <1>16 DEF TypeOK
<1>18. Adds(a, m)
  <2>1. m.role # "user" /\ m.role # "tool" /\ m.role # "system"
    BY <1>13
  <2>2. AnsweredIn(entries', Len(entries'), a)
    BY <1>7, <1>12
  <2>3. outcomes[a] \subseteq outcomes'[a]
    BY <1>10
  <2>4. QED
    BY <1>13, <1>14, <2>1, <2>2, <2>3, Zenon DEF Adds
<1>19. ASSUME NEW b \in Agents PROVE TalkInv(b)'
  <2>1. CASE b = a
    BY <1>1, <1>13, <1>18, <2>1, TalkLonger
  <2>2. CASE b # a
    BY <1>1, <1>10, <1>12, <1>15, <1>16, <2>2, TalkKept
  <2>3. QED
    BY <2>1, <2>2
<1>20. QED
  BY <1>12, <1>17, <1>19 DEF Inv

LEMMA ModelFailsStep ==
  ASSUME Inv, NEW a \in Agents, ModelFails(a)
  PROVE  Inv'
<1>1. TypeOK /\ \A b \in Agents : TalkInv(b)
  BY DEF Inv
<1>2. /\ turn[a] = "model" /\ Record(a, ErrorBody, ErrorBody)
      /\ turn' = turn /\ history' = history /\ open' = open /\ outcomes' = outcomes
  BY DEF ModelFails
<1>3. ErrorBody \in Bodies /\ ~ErrorBody.choices /\ Tells(ErrorBody, ErrorBody)
  <2>1. << >> \in Contents /\ << >> \in Seq(Calls)
    BY DEF Contents
  <2>2. ErrorBody \in Bodies /\ ~ErrorBody.choices /\ ErrorBody.calls = << >>
    BY <2>1, AnsweredTyped
  <2>3. QED
    BY <2>2 DEF Tells, Called
<1>4. history[a] # << >>
  <2>1. TalkInv(a)
    BY <1>1
  <2>2. turn[a] # "user"
    BY <1>2
  <2>3. QED
    BY <2>1, <2>2, Zenon DEF TalkInv, TalkMeans
<1>5. /\ entries' \in Seq(Entries) /\ EntryInv'
      /\ \A b \in Agents :
           AnsweredIn(entries', Len(entries'), b)
             <=> AnsweredIn(entries, Len(entries), b) \/ (b = a /\ ErrorBody.choices)
  BY <1>2, <1>3, <1>4, RecordStep
<1>6. TypeOK'
  BY <1>1, <1>2, <1>5 DEF TypeOK
<1>7. ASSUME NEW b \in Agents PROVE TalkInv(b)'
  BY <1>1, <1>2, <1>3, <1>5, TalkKept
<1>8. QED
  BY <1>5, <1>6, <1>7 DEF Inv

LEMMA InitInv == Init => Inv
<1> SUFFICES ASSUME Init PROVE Inv
  OBVIOUS
<1> DEFINE nothing == << >>
           sys == Msg("system", "be kind")
<1>1. sys \in Messages /\ sys.role = "system"
  BY MsgTyped DEF Roles, Texts
<1>2. /\ turn = [a \in Agents |-> "user"]
      /\ history \in [Agents -> {nothing, <<sys>>}]
      /\ open = [a \in Agents |-> {}] /\ outcomes = [a \in Agents |-> {}]
      /\ entries = nothing
  BY DEF Init
<1>3. nothing \in Seq(Messages) /\ nothing \in Seq(Entries) /\ Len(nothing) = 0
  OBVIOUS
<1> HIDE DEF sys
<1>4. <<sys>> \in Seq(Messages) /\ Len(<<sys>>) = 1 /\ <<sys>>[1] = sys
  BY <1>1
<1>5. TypeOK
  <2> DEFINE M == Seq(Messages)
  <2>1. nothing \in M /\ <<sys>> \in M
    BY <1>3, <1>4
  <2> HIDE DEF M, nothing
  <2>2. history \in [Agents -> M]
    BY <1>2, <2>1
  <2>3. QED
    BY <1>2, <1>3, <2>2 DEF TypeOK, Turns, M
<1>6. ASSUME NEW a \in Agents PROVE TalkInv(a)
  <2> DEFINE h == history[a]
  <2>1. h \in Seq(Messages) /\ (h = nothing \/ h = <<sys>>)
    BY <1>2, <1>5 DEF TypeOK
  <2> HIDE DEF h
  <2>2. \A k \in DOMAIN h : h[k].role = "system" /\ k = 1
    <3>1. DOMAIN h = 1..Len(h)
      BY <2>1
    <3>2. CASE h = nothing
      BY <1>3, <3>1, <3>2
    <3>3. CASE h = <<sys>>
      BY <1>1, <1>4, <3>1, <3>3
    <3>4. QED
      BY <2>1, <3>2, <3>3
  <2>3. ~AnsweredIn(entries, Len(entries), a)
    BY <1>2 DEF AnsweredIn
  <2>4. turn[a] = "user" /\ open[a] = {}
    BY <1>2
  <2>5. TalkMeans(Prompt[a], turn[a], h, open[a], outcomes[a],
                  AnsweredIn(entries, Len(entries), a))
    BY <2>2, <2>3, <2>4 DEF TalkMeans
  <2>6. QED
    BY <2>5, Zenon DEF TalkInv, h
<1>7. EntryInv
  BY <1>2 DEF EntryInv
<1>8. QED
  BY <1>5, <1>6, <1>7 DEF Inv

LEMMA NextInv == Inv /\ [Next]_vars => Inv'
<1> SUFFICES ASSUME Inv, [Next]_vars PROVE Inv'
  OBVIOUS
<1>1. CASE UNCHANGED vars
  <2>1. /\ turn' = turn /\ history' = history /\ open' = open
        /\ outcomes' = outcomes /\ entries' = entries
    BY <1>1 DEF vars
  <2>2. TypeOK'
    BY <2>1 DEF Inv, TypeOK
  <2>3. \A b \in Agents : TalkInv(b)'
    BY <2>1, TalkKept DEF Inv
  <2>4. EntryInv'
    BY <2>1, EntriesKept
  <2>5. QED
    BY <2>2, <2>3, <2>4 DEF Inv
<1>2. CASE Next
  <2>1. PICK a \in Agents : \/ UserAsks(a) \/ ModelAnswers(a) \/ ModelFails(a)
                            \/ \E id \in open[a] : ToolReturns(a, id)
    BY <1>2 DEF Next
  <2>2. CASE UserAsks(a)
    BY <2>2, UserAsksStep
  <2>3. CASE ModelAnswers(a)
    BY <2>3, ModelAnswersStep
  <2>4. CASE ModelFails(a)
    BY <2>4, ModelFailsStep
  <2>5. CASE \E id \in open[a] : ToolReturns(a, id)
    BY <2>5, ToolReturnsStep
  <2>6. QED
    BY <2>1, <2>2, <2>3, <2>4, <2>5
<1>3. QED
  BY <1>1, <1>2

-----------------------------------------------------------------------------
(* Theorems *)

\* Messages, entries and the ends of the tools agree in every state.
THEOREM ConversationInvariant == Spec => []Inv
<1>1. Init => Inv
  BY InitInv
<1>2. Inv /\ [Next]_vars => Inv'
  BY NextInv
<1>3. QED
  BY <1>1, <1>2, PTL DEF Spec

\* A TOOL_CALL span is recorded only when the model asked for tools, and always
\* then but for a stream with text beside the calls; it names the first call, in
\* one piece with its arguments (DetectToolCalls).
THEOREM CallSpans == Spec => []CallsDetected
<1>1. Inv => CallsDetected
  BY DEF Inv, EntryInv, EntryMeans, CallsDetected, Every
<1>2. QED
  BY <1>1, ConversationInvariant, PTL

\* A TOOL_RESULT span names a call whose tool returned in the conversation,
\* and tells whether it failed (DetectToolResults).
THEOREM ResultSpans == Spec => []ResultsResolve
<1>1. Inv => ResultsResolve
  BY DEF Inv, EntryInv, EntryMeans, ResultsResolve, Every
<1>2. QED
  BY <1>1, ConversationInvariant, PTL

\* A span is multi-turn after an answer, and before one only if the user asked
\* more than once (IsMultiTurnConversation): roles and lengths tell so much.
THEOREM TurnsCounted == Spec => []MultiTurnMeant
<1>1. Inv => MultiTurnMeant
  BY DEF Inv, EntryInv, TurnsMeant, MultiMeans, AnsweredIn, AnsweredBefore, MultiTurnMeant
<1>2. QED
  BY <1>1, ConversationInvariant, PTL

\* An entry is about one of the agents.
LEMMA EntryAgents ==
  ASSUME Inv
  PROVE  \A k \in DOMAIN entries : entries[k].agent \in Agents
<1>1. entries \in Seq(Entries)
  BY DEF Inv, TypeOK
<1>2. \A k \in DOMAIN entries : entries[k] \in Entries
  BY <1>1
<1>3. QED
  BY <1>2 DEF Entries

\* The identifier is the same in all spans of a conversation and tells those
\* that began differently apart (GenerateConversationID).  An empty question
\* is skipped there, so a prompt that is what another agent asks after an
\* empty one would be taken for that conversation.
THEOREM ConversationsKeptApart ==
  ASSUME \A a, b \in Agents : Prompt[a] = "none" => Prompt[b] # "and then?"
  PROVE  Spec => []ConversationStable
<1>1. Inv => ConversationStable
  <2> SUFFICES ASSUME Inv, NEW k \in DOMAIN entries, NEW n \in DOMAIN entries,
                      entries[k].span.conversation # "none",
                      entries[n].span.conversation # "none"
               PROVE  entries[k].span.conversation = entries[n].span.conversation
                        <=> Prompt[entries[k].agent] = Prompt[entries[n].agent]
    BY DEF ConversationStable
  <2> DEFINE a == entries[k].agent
             b == entries[n].agent
  <2>1. /\ entries[k].span.conversation = Opening(a)
        /\ entries[n].span.conversation = Opening(b)
    BY DEF Inv, EntryInv, EntryMeans
  <2>2. a \in Agents /\ b \in Agents
    BY EntryAgents
  <2> HIDE DEF a, b
  <2>3. Opening(a) = Opening(b) <=> Prompt[a] = Prompt[b]
    BY <2>2 DEF Opening
  <2>4. QED
    BY <2>1, <2>3 DEF a, b
<1>2. QED
  BY <1>1, ConversationInvariant, PTL
=============================================================================
