--------------------------- MODULE MCAuditRestart ---------------------------
(***************************************************************************)
(* AuditRestart on small instances.                                        *)
(***************************************************************************)
EXTENDS AuditRestart

CONSTANTS r1, r2, r3, r4

TwoRequests == {r1, r2}
OneBinary == {r1}
OneLong == {r1}
FourRequests == {r1, r2, r3, r4}
Interchangeable == Permutations(Requests \ (LongLines \cup NotUTF8))
=============================================================================
