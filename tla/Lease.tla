------------------------------- MODULE Lease -------------------------------
(***************************************************************************)
(* What LockService promises its callers, without Redis, tokens or time:   *)
(* the key is owned by at most one client, a client that was granted the   *)
(* lock believes it holds it until it stops believing, and the key becomes *)
(* free again.  Lossy says whether the key may be freed under a client     *)
(* that still believes: callers never learn of it (LockHandle has no way   *)
(* to tell them), so a protocol built on the lock is checked both ways.    *)
(* Lock.tla implements this module; Outbox.tla and Idempotency.tla use it. *)
(***************************************************************************)
CONSTANTS Client,  \* callers of LockService.acquire on one lock name
          None,    \* no owner
          Lossy    \* may the key expire under a believer?

VARIABLES owner,      \* the client whose token the key holds, or None
          believers   \* the clients whose acquire() returned a handle

vars == <<owner, believers>>

TypeOK ==
  /\ owner \in Client \cup {None}
  /\ believers \subseteq Client

Init ==
  /\ owner = None
  /\ believers = {}

\* acquire() wins: the key was free.
Grant(c) ==
  /\ owner = None
  /\ c \notin believers
  /\ owner' = c
  /\ believers' = believers \cup {c}

\* The client stops acting under the lock: it starts releasing, or it dies.
Leave(c) ==
  /\ c \in believers
  /\ believers' = believers \ {c}
  /\ owner' = owner

\* The key is deleted by its owner's release, or by its TTL.
Free ==
  /\ owner # None
  /\ Lossy \/ owner \notin believers
  /\ owner' = None
  /\ believers' = believers

Next ==
  \/ \E c \in Client : Grant(c) \/ Leave(c)
  \/ Free

Spec == Init /\ [][Next]_vars
=============================================================================
