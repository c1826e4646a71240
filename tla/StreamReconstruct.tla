-------------------------- MODULE StreamReconstruct --------------------------
(***************************************************************************)
(* internal/proxy/stream_reconstruct.go: the captured lines of a server-   *)
(* sent event stream are folded into one response.                         *)
(*                                                                         *)
(* A line is what is left of it after TrimSpace, TrimPrefix and Unmarshal: *)
(* no data (blank, a comment, [DONE], malformed JSON, the truncation       *)
(* marker), or an object with the fields the fold looks at.  A text is the *)
(* sequence of its pieces, a tool call its identifier and the pieces of    *)
(* its arguments; "none" is an absent field or an empty string, <<>> an    *)
(* absent identifier.                                                      *)
(***************************************************************************)
EXTENDS Naturals, SequencesExt

\* An object without any of the fields, for instance {"error": ...}.
Bare == [data |-> TRUE, id |-> "none", choices |-> "none", role |-> "none",
         content |-> <<>>, text |-> <<>>, calls |-> <<>>, finish |-> "none", usage |-> FALSE]

Noise == [Bare EXCEPT !.data = FALSE]

\* choices[0] with a delta; without one (text in its place); no object.
Delta(id) == [Bare EXCEPT !.id = id, !.choices = "delta"]
NoDelta(id) == [Bare EXCEPT !.id = id, !.choices = "noDelta"]
Scalar(id) == [Bare EXCEPT !.id = id, !.choices = "scalar"]

\* A response as the recorded body shows it to a reader; of a body that is not
\* one JSON value nothing but its lines.
NotJSON(lines) ==
  [json |-> FALSE, lines |-> lines, choices |-> FALSE, id |-> "none", role |-> "none",
   content |-> <<>>, calls |-> <<>>, finish |-> "none", usage |-> FALSE]

-----------------------------------------------------------------------------

\* The loop of parseSSEChunks goes on after a line without data.
Parse(chunks, line) == IF line.data THEN Append(chunks, line) ELSE chunks

Chunks(lines) == FoldLeft(Parse, << >>, lines)

\* The type assertion on choices[0] fails.
Panics(lines) == \E k \in DOMAIN lines : lines[k].data /\ lines[k].choices = "scalar"

\* Metadata comes from the first chunk.
Template(chunks) ==
  [NotJSON(<<>>) EXCEPT !.json = TRUE, !.choices = TRUE, !.id = chunks[1].id]

LastNonEmpty(old, new) == IF new = "none" THEN old ELSE new

\* Faulty variant: the chunk that names the role is taken to have no content.
CollectAfterRole(response, chunk) ==
  IF chunk.choices # "delta" THEN response
  ELSE IF chunk.role # "none" THEN [response EXCEPT !.role = chunk.role]
  ELSE [response EXCEPT !.content = @ \o chunk.content, !.calls = @ \o chunk.calls]

\* Faulty variant: each chunk's tool calls take the place of the earlier ones.
CollectLastCalls(response, chunk) ==
  IF chunk.choices # "delta" THEN response
  ELSE [response EXCEPT
          !.content = @ \o chunk.content,
          !.calls = IF chunk.calls = <<>> THEN @ ELSE chunk.calls]

\* One chunk; of a chunk without choices or delta nothing is read, not even
\* the usage.
Collect(response, chunk) ==
  IF chunk.choices # "delta" THEN response
  ELSE [response EXCEPT
          !.role = LastNonEmpty(@, chunk.role),
          !.content = @ \o chunk.content,
          !.calls = @ \o chunk.calls,
          !.finish = LastNonEmpty(@, chunk.finish),
          !.usage = @ \/ chunk.usage]

\* Faulty variant: a message without a finish reason is taken to have stopped.
MessageStopped(response) ==
  [response EXCEPT !.calls = IF response.content # <<>> THEN <<>> ELSE @,
                   !.finish = IF @ = "none" THEN "stop" ELSE @]

\* Tool calls are kept only of a message without content.
Message(response) ==
  IF response.content # <<>> THEN [response EXCEPT !.calls = <<>>] ELSE response

\* Without a chunk the body stays what it is.
Reconstruct(lines) ==
  LET chunks == Chunks(lines) IN
  IF chunks = <<>> THEN NotJSON(lines)
  ELSE Message(FoldLeft(Collect, Template(chunks), chunks))
=============================================================================
