----------------------------- MODULE OncePerKey -----------------------------
(***************************************************************************)
(* What an Idempotency-Key promises its clients (guide idempotency.md),    *)
(* with no row, lock or retry loop in sight: while no response is kept, a  *)
(* request may run, and the requests that run are no more than one and one *)
(* for each lapse; a response is kept as it is given; while one is kept,   *)
(* nothing runs, and the requests with its print get it; a request that    *)
(* ran is refused only after a lapse.  Idempotency.tla implements it.      *)
(***************************************************************************)
EXTENDS Naturals, FiniteSets

CONSTANTS Request,
          PrintOf,   \* the route and body hash of each request
          Refusals,  \* what a client is answered when it gets no response
          None

VARIABLES ran,      \* the requests that took effect under this key
          kept,     \* the request whose response is kept, or None
          answer,   \* what each client got: None until it is answered
          lapses    \* crashes and failed writes so far

vars == <<ran, kept, answer, lapses>>

Init ==
  /\ ran = {}
  /\ kept = None
  /\ answer = [r \in Request |-> None]
  /\ lapses = 0

\* A client is answered once.
Answer(r, what) ==
  /\ answer[r] = None
  /\ answer' = [answer EXCEPT ![r] = what]

Run(r) ==
  /\ kept = None /\ answer[r] = None
  /\ Cardinality(ran) <= lapses
  /\ ran' = ran \cup {r}
  /\ UNCHANGED <<kept, answer, lapses>>

Keep(r) ==
  /\ kept = None /\ r \in ran
  /\ kept' = r
  /\ Answer(r, r)
  /\ UNCHANGED <<ran, lapses>>

Replay(r) ==
  /\ kept # None /\ PrintOf[kept] = PrintOf[r]
  /\ Answer(r, kept)
  /\ UNCHANGED <<ran, kept, lapses>>

Refuse(r) ==
  /\ r \in ran => lapses > 0
  /\ \E what \in Refusals : Answer(r, what)
  /\ UNCHANGED <<ran, kept, lapses>>

\* Something fails, and a request may be refused for it.
Lapse ==
  /\ lapses' = lapses + 1
  /\ \/ UNCHANGED answer
     \/ \E r \in Request, what \in Refusals : Answer(r, what)
  /\ UNCHANGED <<ran, kept>>

\* The key is forgotten, with what was kept under it.
Forget ==
  /\ kept' = None /\ ran' = {}
  /\ UNCHANGED <<answer, lapses>>

Next ==
  \/ \E r \in Request : Run(r) \/ Keep(r) \/ Replay(r) \/ Refuse(r)
  \/ Lapse \/ Forget

Spec == Init /\ [][Next]_vars

\* One request runs under a key, and one more for each lapse.
RunsPaid == Cardinality(ran) <= 1 + lapses

\* A response given is one its own request got, and of the same print.
Faithful ==
  \A r \in Request : answer[r] \in Request =>
    PrintOf[answer[r]] = PrintOf[r] /\ answer[answer[r]] = answer[r]

\* Without a lapse, whoever is refused has had no effect.
RefusedIdle ==
  lapses = 0 => \A r \in Request : answer[r] \in Refusals => r \notin ran
=============================================================================
