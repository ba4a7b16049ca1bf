------------------------------ MODULE Delivery ------------------------------
(***************************************************************************)
(* What the transactional outbox promises (guide outbox.md), one message   *)
(* at a time and with no relay, lock or retry in sight: a message that is  *)
(* staged is handed to its handlers, is marked delivered only once every   *)
(* one of them has run, may instead be buried as dead and brought back,    *)
(* and is forgotten only after it settled.  Outbox.tla implements it.      *)
(***************************************************************************)
CONSTANTS Message, Handler,
          HandlersOf,   \* the handlers registered for each message's name
          Revivable     \* the messages an operator may bring back

VARIABLES status,   \* the life of each message
          ran       \* the handlers that completed at least once on it

vars == <<status, ran>>

Statuses == {"absent", "pending", "delivered", "dead", "pruned"}

TypeOK ==
  /\ status \in [Message -> Statuses]
  /\ ran \in [Message -> SUBSET Handler]

Init ==
  /\ status = [m \in Message |-> "absent"]
  /\ ran = [m \in Message |-> {}]

Become(m, from, to) ==
  /\ status[m] \in from
  /\ status' = [status EXCEPT ![m] = to]

Stage(m) == Become(m, {"absent"}, "pending") /\ UNCHANGED ran

\* At least once, and in the worst case even after the message settled.
Handle(m, h) ==
  /\ status[m] # "absent"
  /\ h \in HandlersOf[m]
  /\ ran' = [ran EXCEPT ![m] = @ \cup {h}]
  /\ UNCHANGED status

Deliver(m) ==
  /\ HandlersOf[m] \subseteq ran[m]
  /\ Become(m, {"pending"}, "delivered")
  /\ UNCHANGED ran

Bury(m) == Become(m, {"pending"}, "dead") /\ UNCHANGED ran

Revive(m) == m \in Revivable /\ Become(m, {"dead"}, "pending") /\ UNCHANGED ran

\* One prune forgets many messages at once: settled ones, and those that were
\* settled when it chose them and were brought back since.
Forget(M) ==
  /\ M # {}
  /\ \A m \in M : \/ status[m] \in {"delivered", "dead"}
                  \/ m \in Revivable /\ status[m] = "pending"
  /\ status' = [m \in Message |-> IF m \in M THEN "pruned" ELSE status[m]]
  /\ UNCHANGED ran

Next ==
  \/ \E m \in Message :
       \/ Stage(m) \/ Deliver(m) \/ Bury(m) \/ Revive(m)
       \/ \E h \in Handler : Handle(m, h)
  \/ \E M \in SUBSET Message : Forget(M)

Spec == Init /\ [][Next]_vars

\* A message counts as delivered only if every handler it was meant for ran.
DeliveredHandled ==
  \A m \in Message : status[m] = "delivered" => HandlersOf[m] \subseteq ran[m]

\* A pending message nobody brought back is not forgotten before it settled.
PendingKept ==
  [][\A m \in Message \ Revivable : status[m] = "pending" => status'[m] # "pruned"]_vars
=============================================================================
