------------------------------ MODULE MC_Outbox ------------------------------
(* Small instances of Outbox: at most two messages, two handlers. *)
EXTENDS Outbox

CONSTANTS m1, m2, h1, h2

\* h1 takes every message, h2 only the first: one matches "*", one a name.
MCHandlersOf == [m \in Message |-> IF m = m1 THEN {h1, h2} ELSE {h1}]

\* Handlers that may succeed or throw on each try.
AnyOutcome == [m \in Message |-> {"done", "fails"}]
\* m1's handlers may also take the process down.
LethalOutcome == [m \in Message |-> IF m = m1 THEN {"done", "fails", "kills"}
                                              ELSE {"done", "fails"}]
=============================================================================
