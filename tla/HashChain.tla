------------------------------ MODULE HashChain ------------------------------
(***************************************************************************)
(* The SHA-256 chain of audit entries (internal/audit/worker.go).          *)
(*                                                                         *)
(* A request stands for everything computeHash feeds to SHA-256 on its     *)
(* behalf: timestamp, endpoint, bodies, status, error, completeness and    *)
(* trace.  A digest is the sequence of everything hashed to reach it, so   *)
(* that two digests are equal exactly when the hashed data are: SHA-256    *)
(* without collisions.                                                     *)
(*                                                                         *)
(* The sequence ID of a line is not hashed, and stands for all of the line *)
(* that computeHash leaves out: method, path, headers, the truncation      *)
(* flag, durations, media references, conversations.  It also stands for   *)
(* where one hashed field ends and the next begins: they are hashed one    *)
(* after the other with no mark in between, so that the end of the request *)
(* body and the beginning of the response body are the same to the digest. *)
(***************************************************************************)
EXTENDS Integers, Sequences

CONSTANT Requests   \* the requests the proxy audits, one entry each

Digests == Seq(Requests)

\* computeGenesisHash: the digest before the first entry of a run.  The seed
\* is the same in every run (config.go), hence one constant.
Genesis == << >>

\* computeHash: the digest of an entry covers its own fields and PrevHash.
Hash(r, prev) == Append(prev, r)

\* A JSON line of the audit file: the fields that the chain is about.
Line(r, seq, prev) ==
  [kind |-> "line", req |-> r, seq |-> seq, prev |-> prev, hash |-> Hash(r, prev)]

Lines == [kind : {"line"}, req : Requests, seq : Nat, prev : Digests, hash : Digests]

\* The first part of a JSON line, without its newline: what a write leaves
\* that fails, or that a crash cuts, half way.
Torn == [kind |-> "torn"]

\* `log` is an unbroken chain that starts from digest `start`.
Chained(log, start) ==
  \A i \in 1..Len(log) :
    /\ log[i].kind = "line"
    /\ log[i].prev = (IF i = 1 THEN start ELSE log[i - 1].hash)
    /\ log[i].hash = Hash(log[i].req, log[i].prev)
=============================================================================
