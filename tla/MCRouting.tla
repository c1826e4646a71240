----------------------------- MODULE MCRouting -------------------------------
(* Endpoints with and without a base path, alike, with a slash in the name, *)
(* and with a target that does not parse; paths of up to five tokens.       *)
EXTENDS Routing

Target(host, base) == [parses |-> TRUE, host |-> host, base |-> base]
Broken == [parses |-> FALSE, host |-> "none", base |-> <<>>]
Endpoint(name, target) == [name |-> name, target |-> target]

Plain == Endpoint(<<"one">>, Target("h1", <<>>))
Based == Endpoint(<<"two">>, Target("h2", <<"/", "v1">>))
BasedSlash == Endpoint(<<"two">>, Target("h3", <<"/", "v1", "/">>))
Slashed == Endpoint(<<"one", "/", "two">>, Target("h4", <<"/">>))
Unset == Endpoint(<<"one">>, None)

Lists == { <<>>, <<Plain>>, <<Plain, Based>>, <<BasedSlash, Plain>>, <<Slashed, Plain, Based>>,
           <<Plain, Based, BasedSlash>>, <<Unset>> }
BrokenLists == { <<Plain, Endpoint(<<"two">>, Broken)>> }

Settings == { <<>>, <<"streaming", "stream_timeout">> :> Bad,
              MediaPath :> Bad, (MediaPath :> Bad) @@ (Extraction :> "off") }

SoundFiles == [endpoints : Lists, settings : Settings]
BrokenFiles == [endpoints : BrokenLists, settings : { <<>> }]

Exported == { <<>>, DocumentedName(<<"server", "port">>) :> "other",
              EnvName(<<"server", "port">>) :> Bad }

MCPaths == { <<"/">> \o p : p \in BoundedSeq({"/", "%2F", "one", "two"}, 4) }
=============================================================================
