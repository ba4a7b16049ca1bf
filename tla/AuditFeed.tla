------------------------------ MODULE AuditFeed ------------------------------
(***************************************************************************)
(* What a tenant's audit trail promises to the sinks that stream it        *)
(* (guide security.md, "Exporting, verifying and streaming the trail"):    *)
(* the trail only grows at its end, and each sink is handed it in order,   *)
(* with nothing left out between two batches.  AuditTrail.tla implements   *)
(* it with several writers and several streamers.                          *)
(***************************************************************************)
EXTENDS Integers

CONSTANT Sink

VARIABLES log,    \* the sequences of the committed entries
          seen    \* what each sink has been handed, or was created after

vars == <<log, seen>>

\* S holds the first entries of L.
Prefix(S, L) == S \subseteq L /\ \A x \in S, y \in L \ S : x < y

TypeOK == log \subseteq Nat /\ seen \in [Sink -> SUBSET log]

Init == log = {} /\ seen = [k \in Sink |-> {}]

Append(S) ==
  /\ S # {} /\ S \subseteq Nat /\ \A x \in log, y \in S : x < y
  /\ log' = log \cup S
  /\ UNCHANGED seen

\* A sink is created, with or without the entries before it; or it is handed
\* its next ones.
Advance(k, S) ==
  /\ seen[k] \subseteq S /\ Prefix(S, log)
  /\ seen' = [seen EXCEPT ![k] = S]
  /\ UNCHANGED log

Next ==
  \/ \E S \in SUBSET (log' \ log) : Append(S)
  \/ \E k \in Sink : \E S \in SUBSET log : Advance(k, S)

Spec == Init /\ [][Next]_vars

\* What a sink has been handed is always the trail's beginning.
InOrder == \A k \in Sink : Prefix(seen[k], log)
=============================================================================
