------------------------------ MODULE AuditLog ------------------------------
(***************************************************************************)
(* What the audit worker promises, without its channel, its map and its    *)
(* goroutine: numbered entries are submitted in any order and recorded     *)
(* once each, at the end of one hash chain, in the order of their numbers. *)
(* The order, and only the order, is given up when the worker cannot hold  *)
(* more early entries back and when it shuts down ("fail-open").           *)
(***************************************************************************)
EXTENDS HashChain, FiniteSets

VARIABLES
  seqOf,      \* the number of each entry, -1 before it has one
  submitted,  \* entries handed over
  log,        \* the lines recorded
  refusals,   \* entries the storage refused
  relaxed     \* the order was given up

logVars == << seqOf, submitted, log, refusals, relaxed >>

Numbered == { r \in Requests : seqOf[r] >= 0 }
Done == { log[i].req : i \in 1..Len(log) } \cup refusals

\* The digest that the next line continues from.
LastHash == IF log = << >> THEN Genesis ELSE log[Len(log)].hash

Init ==
  /\ seqOf = [r \in Requests |-> -1]
  /\ submitted = {}
  /\ log = << >>
  /\ refusals = {}
  /\ relaxed = FALSE

\* Numbers are handed out without gaps.
Number(r) ==
  /\ r \notin Numbered
  /\ seqOf' = [seqOf EXCEPT ![r] = Cardinality(Numbered)]
  /\ UNCHANGED << submitted, log, refusals, relaxed >>

Submit(r) ==
  /\ r \in Numbered \ submitted
  /\ submitted' = submitted \cup {r}
  /\ UNCHANGED << seqOf, log, refusals, relaxed >>

\* The log is done with every lower number, and with no other.
Turn(r) == { q \in Numbered : seqOf[q] < seqOf[r] } = Done

\* r is decided now: in its turn, unless the order is given up.
Decide(r) ==
  /\ r \in submitted \ Done
  /\ relaxed => relaxed'
  /\ Turn(r) \/ relaxed'
  /\ UNCHANGED << seqOf, submitted >>

Record(r) ==
  /\ Decide(r)
  /\ log' = Append(log, Line(r, seqOf[r], LastHash))
  /\ UNCHANGED refusals

Refuse(r) ==
  /\ Decide(r)
  /\ refusals' = refusals \cup {r}
  /\ UNCHANGED log

GiveUpOrder ==
  /\ relaxed' = TRUE
  /\ UNCHANGED << seqOf, submitted, log, refusals >>

Next ==
  \/ \E r \in Requests : Number(r) \/ Submit(r) \/ Record(r) \/ Refuse(r)
  \/ GiveUpOrder

Spec == Init /\ [][Next]_logVars
=============================================================================
