------------------------------- MODULE MCProxy -------------------------------
(***************************************************************************)
(* Proxy on small instances: streams s1 and s2, regular request q1.        *)
(***************************************************************************)
EXTENDS Proxy

CONSTANTS s1, s2, q1

TwoStreams == {s1, s2}
TwoStreamsAndOneRequest == {s1, s2, q1}
OneStream == {s1}
OneOfEach == {s1, q1}
=============================================================================
