---------------------------- MODULE MCAuditWorker ----------------------------
(***************************************************************************)
(* AuditWorker on small instances.                                         *)
(***************************************************************************)
EXTENDS AuditWorker, TLC

CONSTANTS r1, r2, r3, r4, r5

ThreeRequests == {r1, r2, r3}
FourRequests == {r1, r2, r3, r4}
FiveRequests == {r1, r2, r3, r4, r5}
OneMalformed == {r1}
Interchangeable == Permutations(Requests \ Malformed)
=============================================================================
