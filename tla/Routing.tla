------------------------------- MODULE Routing -------------------------------
(***************************************************************************)
(* From the configuration to the place a request is sent to:               *)
(* internal/config/config.go and ServeHTTP of internal/proxy/proxy.go up   *)
(* to the ReverseProxy.                                                    *)
(*                                                                         *)
(* A path is a sequence of slashes, escaped slashes and words.  A target   *)
(* is a host and a base path, or does not parse.  viper, net/url and the   *)
(* director of ReverseProxy are external: an environment variable is found *)
(* under the prefix and the key as it stands, dots included, because no    *)
(* SetEnvKeyReplacer is called; the server decodes the path of a request,  *)
(* and what is sent is the decoded path, because RawPath does not fit the  *)
(* path that was put in its place.                                         *)
(***************************************************************************)
EXTENDS Naturals, SequencesExt

CONSTANTS
  Words,          \* what stands between slashes
  Files,          \* contents of config.yaml: endpoints and settings
  Environments,   \* what the operator exports, by the names the docs give
  Paths           \* paths of requests, as the client sends them

VARIABLES
  phase,      \* "stopped", "serving" or "failed"
  file, env,
  cfg,        \* the loaded configuration
  outcome     \* of the last request

vars == << phase, file, env, cfg, outcome >>

None == <<>>
Bad == "bad"    \* a value Validate refuses: empty, zero, negative, no port

Tokens == Words \cup {"/", "%2F"}

StartsWithSlash(path) == path # <<>> /\ path[1] = "/"

\* The target of a request begins with a slash, as HTTP has it; the bytes of
\* names and of base paths may be any.
ASSUME PathsAssumption == \A path \in Paths : path \in Seq(Tokens) /\ StartsWithSlash(path)
EndpointsTyped(endpoints) ==
  /\ endpoints \in Seq(ToSet(endpoints))
  /\ \A ep \in ToSet(endpoints) :
       ep.name \in Seq(Tokens) /\ (ep.target # None => ep.target.base \in Seq(Tokens))
ASSUME FilesAssumption == \A f \in Files : EndpointsTyped(f.endpoints)

-----------------------------------------------------------------------------
(* Load and Validate *)

Required == { <<"server", "port">>, <<"server", "genesis_seed">>, <<"storage", "path">>,
              <<"streaming", "max_audit_body_size">>, <<"streaming", "stream_timeout">>,
              <<"media", "min_size_kb">> }
MediaPath == <<"media", "storage_path">>
Extraction == <<"media", "enable_extraction">>
Keys == Required \cup {MediaPath, Extraction, <<"streaming", "enable_sequence_tracking">>}

EnvName(key) == << "ABB_", key[1], ".", key[2] >>
DocumentedName(key) == << "ABB_", key[1], "_", key[2] >>

\* Environment before file before default.
Setting(key) ==
  IF EnvName(key) \in DOMAIN env THEN env[EnvName(key)]
  ELSE IF key \in DOMAIN file.settings THEN file.settings[key]
  ELSE "default"

\* Faulty variant: the names seen so far are not remembered.
ValidateForgetful(c) ==
  /\ \A key \in Required : c.settings[key] # Bad
  /\ c.endpoints # <<>>
  /\ \A k \in DOMAIN c.endpoints : c.endpoints[k].name # <<>> /\ c.endpoints[k].target # None
  /\ c.settings[MediaPath] = Bad => c.settings[Extraction] = "off"

\* Neither the form of a target nor that of a name is looked at.
Validate(c) ==
  /\ \A key \in Required : c.settings[key] # Bad
  /\ c.endpoints # <<>>
  /\ \A k \in DOMAIN c.endpoints : c.endpoints[k].name # <<>> /\ c.endpoints[k].target # None
  /\ \A j, k \in DOMAIN c.endpoints : c.endpoints[j].name = c.endpoints[k].name => j = k
  /\ c.settings[MediaPath] = Bad => c.settings[Extraction] = "off"

Loaded == [endpoints |-> file.endpoints, settings |-> [key \in Keys |-> Setting(key)]]

\* The first endpoint with the name, or 0.
GetEndpoint(endpoints, name) == SelectInSeq(endpoints, LAMBDA ep : ep.name = name)

-----------------------------------------------------------------------------
(* Paths *)

Decoded(path) == [k \in DOMAIN path |-> IF path[k] = "%2F" THEN "/" ELSE path[k]]

TrimSlash(path) == IF StartsWithSlash(path) THEN Tail(path) ELSE path

\* Faulty variant: the rest of the path is what follows the last slash.
ParseEndpointAtLast(path) ==
  LET p == TrimSlash(path)
      first == SelectInSeq(p, LAMBDA t : t = "/")
      last == SelectLastInSeq(p, LAMBDA t : t = "/") IN
  IF first = 0 THEN [name |-> p, rest |-> <<"/">>]
  ELSE [name |-> SubSeq(p, 1, first - 1), rest |-> SubSeq(p, last, Len(p))]

\* SplitN on the first slash behind the leading one.
ParseEndpoint(path) ==
  LET p == TrimSlash(path)
      k == SelectInSeq(p, LAMBDA t : t = "/") IN
  IF k = 0 THEN [name |-> p, rest |-> <<"/">>]
  ELSE [name |-> SubSeq(p, 1, k - 1), rest |-> SubSeq(p, k, Len(p))]

\* Faulty variant: the two paths are only put together.
ConcatPaths(a, b) == a \o b

SingleJoiningSlash(a, b) ==
  LET aslash == a # <<>> /\ Last(a) = "/"
      bslash == StartsWithSlash(b) IN
  IF aslash /\ bslash THEN a \o Tail(b)
  ELSE IF ~aslash /\ ~bslash THEN a \o <<"/">> \o b
  ELSE a \o b

-----------------------------------------------------------------------------

NoOutcome == [path |-> <<>>, status |-> 0, host |-> "none", sent |-> <<>>, audited |-> <<>>]

Init ==
  /\ phase = "stopped"
  /\ file \in Files /\ env \in Environments
  /\ cfg = [endpoints |-> <<>>, settings |-> <<>>]
  /\ outcome = NoOutcome

\* main: Load, or log.Fatalf.
Start ==
  /\ phase = "stopped"
  /\ cfg' = Loaded
  /\ phase' = IF Validate(Loaded) THEN "serving" ELSE "failed"
  /\ UNCHANGED << file, env, outcome >>

\* The returns of ServeHTTP in their order, none of which leaves an entry, and
\* the handler: the director sends the joined path, the entry has the rest.
Route(endpoints, path, bodyRead) ==
  LET parsed == ParseEndpoint(Decoded(path))
      k == GetEndpoint(endpoints, parsed.name)
      Answer(status) == [NoOutcome EXCEPT !.path = path, !.status = status] IN
  IF parsed.name = <<>> THEN Answer(400)
  ELSE IF k = 0 THEN Answer(404)
  ELSE LET target == endpoints[k].target IN
       IF ~target.parses THEN Answer(500)
       ELSE IF ~bodyRead THEN Answer(400)
       ELSE [Answer(200) EXCEPT !.host = target.host,
               !.sent = SingleJoiningSlash(target.base, parsed.rest),
               !.audited = parsed.rest]

ServeHTTP ==
  /\ phase = "serving"
  /\ \E path \in Paths, bodyRead \in BOOLEAN : outcome' = Route(cfg.endpoints, path, bodyRead)
  /\ UNCHANGED << phase, file, env, cfg >>

Next == Start \/ ServeHTTP

Spec == Init /\ [][Next]_vars

-----------------------------------------------------------------------------
(* Properties *)

\* The pieces between the slashes, by going through the path once.
NextToken(pieces, t) ==
  IF t = "/" THEN Append(pieces, <<>>)
  ELSE Append(Front(pieces), Append(Last(pieces), t))

Segments(path) == FoldLeft(NextToken, << <<>> >>, path)

Served == outcome.status = 200

\* Where a request is sent does not depend on the order of the endpoints in the
\* configuration: each endpoint with the name its path begins with has the host
\* it was sent to ("named endpoint routing", proxy.go:26).
RoutedByName ==
  outcome.status \in {200, 404} =>
    LET first == Segments(Decoded(outcome.path))[2] IN
    \A k \in DOMAIN cfg.endpoints :
      cfg.endpoints[k].name = first => Served /\ cfg.endpoints[k].target.host = outcome.host

\* What is sent consists of the segments of the base path of the target and,
\* behind them, those of the request without the first, of which none is lost,
\* added or merged with another; the entry has the same without the base.
PathKept ==
  Served =>
    LET segments == Segments(Decoded(outcome.path))
        rest == IF Len(segments) = 2 THEN <<<<>>>> ELSE SubSeq(segments, 3, Len(segments))
        target == cfg.endpoints[GetEndpoint(cfg.endpoints, segments[2])].target
        base == Segments(target.base)
        kept == IF target.base # <<>> /\ Last(base) = <<>> THEN Front(base) ELSE base
    IN /\ Segments(outcome.sent) = kept \o rest
       /\ Segments(outcome.audited) = << <<>> >> \o rest

\* A path reaches the target as the client wrote it: the proxy is "transparent"
\* (README.md:4).  The code does not keep this for an escaped slash.
PathTransparent == Served /\ "%2F" \in ToSet(outcome.path) => "%2F" \in ToSet(outcome.sent)

\* A configuration that Validate "checks if ... valid" (config.go:120) serves
\* its endpoints.  The code does not keep this: a target that does not parse is
\* found when the first request comes.
ValidConfigServes == outcome.status # 500

\* "Environment variables take precedence" (config.go:72), under the names the
\* docs give.  The code does not keep this.
EnvironmentWins ==
  phase # "stopped" =>
    \A key \in Keys : DocumentedName(key) \in DOMAIN env =>
      cfg.settings[key] = env[DocumentedName(key)]
=============================================================================
