-------------------------------- MODULE Lock --------------------------------
(***************************************************************************)
(* LockService and LockHandle (src/src/technical/lock/lock.service.ts):    *)
(* one lock name, one Redis key with a TTL, processes that acquire it,     *)
(* renew it from a heartbeat, release it, stall, lose renewals and crash.  *)
(*                                                                         *)
(* Time is counted in ticks.  A token is <<process, n>> for the process's  *)
(* n-th acquire: randomUUID never repeats.  MaxDelay bounds how late a     *)
(* timer or a reply may be, and MaxMissed how many renewals in a row may   *)
(* be lost; Timely says when these leave the key alive, and no assumption  *)
(* makes it true.                                                          *)
(***************************************************************************)
EXTENDS Integers

CONSTANTS Process,      \* processes calling acquire() on this name
          NoKey,        \* the Redis key does not exist
          TTL,          \* ttlMs of the policy, in ticks
          Interval,     \* period of the heartbeat: a third of the TTL
          MaxDelay,     \* longest stall of a timer or a reply
          MaxMissed,    \* longest run of lost renewals
          MaxAcquires   \* bound: acquisitions per process

ASSUME LockAssumption ==
  /\ TTL \in Nat /\ Interval \in Nat \ {0}
  /\ 3 * Interval <= TTL
  /\ MaxDelay \in Nat /\ MaxMissed \in Nat /\ MaxAcquires \in Nat
  /\ NoKey \notin Process /\ NoKey \notin Process \X Nat

VARIABLES key,     \* the token stored in Redis, or NoKey
          ttl,     \* ticks the key has left; 0 when there is no key
          phase,   \* where each process is in acquire / hold / release
          mint,    \* how many tokens each process has minted
          clock,   \* ticks since the last beat, the grant, or the crash
          missed   \* renewals lost in a row

vars == <<key, ttl, phase, mint, clock, missed>>

Phases == {"idle", "granted", "holding", "releasing", "down"}

Token(p) == <<p, mint[p]>>

\* The longest time between two beats of a live holder.
Period == Interval + MaxDelay

\* The condition under which the heartbeat keeps a live holder's key.
Timely == MaxDelay + (MaxMissed + 1) * Period < TTL

TypeOK ==
  /\ key \in (Process \X Nat) \cup {NoKey}
  /\ ttl \in 0..TTL
  /\ phase \in [Process -> Phases]
  /\ mint \in [Process -> Nat]
  /\ clock \in [Process -> Nat]
  /\ missed \in [Process -> Nat]

Init ==
  /\ key = NoKey
  /\ ttl = 0
  /\ phase = [p \in Process |-> "idle"]
  /\ mint = [p \in Process |-> 0]
  /\ clock = [p \in Process |-> 0]
  /\ missed = [p \in Process |-> 0]

Move(p, from, to) ==
  /\ phase[p] = from
  /\ phase' = [phase EXCEPT ![p] = to]
  /\ clock' = [clock EXCEPT ![p] = 0]

DeleteKey == key' = NoKey /\ ttl' = 0

\* Mutant of Acquire: SET without NX.
AcquireWithoutNX(p) ==
  /\ mint[p] < MaxAcquires
  /\ Move(p, "idle", "granted")
  /\ mint' = [mint EXCEPT ![p] = @ + 1]
  /\ key' = <<p, mint[p] + 1>>
  /\ ttl' = TTL
  /\ missed' = [missed EXCEPT ![p] = 0]

(***************************************************************************)
(* acquire(): SET key token PX ttl NX.  The key exists from here; the      *)
(* handle and its heartbeat only from Granted.  When the key exists, SET   *)
(* answers nil and acquire() returns null: nothing changes.                *)
(***************************************************************************)
Acquire(p) ==
  /\ key = NoKey
  /\ mint[p] < MaxAcquires
  /\ Move(p, "idle", "granted")
  /\ mint' = [mint EXCEPT ![p] = @ + 1]
  /\ key' = <<p, mint[p] + 1>>
  /\ ttl' = TTL
  /\ missed' = [missed EXCEPT ![p] = 0]

\* The reply arrives: new LockHandle(...) starts the interval.
Granted(p) ==
  /\ Move(p, "granted", "holding")
  /\ UNCHANGED <<key, ttl, mint, missed>>

\* Mutant of Renew: PEXPIRE without the token comparison.
RenewAnyKey(p) ==
  /\ clock[p] >= Interval
  /\ Move(p, "holding", "holding")
  /\ ttl' = IF key = NoKey THEN ttl ELSE TTL
  /\ missed' = [missed EXCEPT ![p] = 0]
  /\ UNCHANGED <<key, mint>>

\* Mutant of Renew: the TTL is added to what the key has left.
RenewAdds(p) ==
  /\ clock[p] >= Interval
  /\ Move(p, "holding", "holding")
  /\ ttl' = IF key = Token(p) THEN ttl + TTL ELSE ttl
  /\ missed' = [missed EXCEPT ![p] = 0]
  /\ UNCHANGED <<key, mint>>

\* The heartbeat fires: compare-and-pexpire.
Renew(p) ==
  /\ clock[p] >= Interval
  /\ Move(p, "holding", "holding")
  /\ ttl' = IF key = Token(p) THEN TTL ELSE ttl
  /\ missed' = [missed EXCEPT ![p] = 0]
  /\ UNCHANGED <<key, mint>>

\* The heartbeat fires and its eval rejects: swallowed by .catch.
MissRenewal(p) ==
  /\ clock[p] >= Interval
  /\ missed[p] < MaxMissed
  /\ Move(p, "holding", "holding")
  /\ missed' = [missed EXCEPT ![p] = @ + 1]
  /\ UNCHANGED <<key, ttl, mint>>

\* release(): released = true, clearInterval, before the script is sent.
BeginRelease(p) ==
  /\ Move(p, "holding", "releasing")
  /\ UNCHANGED <<key, ttl, mint, missed>>

\* Mutant of ReleaseKey: DEL without the token comparison.
ReleaseAnyKey(p) ==
  /\ Move(p, "releasing", "idle")
  /\ DeleteKey
  /\ UNCHANGED <<mint, missed>>

\* RELEASE_SCRIPT: compare-and-delete.
ReleaseKey(p) ==
  /\ Move(p, "releasing", "idle")
  /\ IF key = Token(p) THEN DeleteKey ELSE UNCHANGED <<key, ttl>>
  /\ UNCHANGED <<mint, missed>>

\* The script's eval rejects: the key is left to its TTL.
ReleaseLost(p) ==
  /\ Move(p, "releasing", "idle")
  /\ UNCHANGED <<key, ttl, mint, missed>>

\* stopRenewing(): the heartbeat stops and the key is left to its TTL.
StopRenewing(p) ==
  /\ Move(p, "holding", "idle")
  /\ UNCHANGED <<key, ttl, mint, missed>>

Crash(p) ==
  /\ phase[p] \in {"granted", "holding", "releasing"}
  /\ Move(p, phase[p], "down")
  /\ UNCHANGED <<key, ttl, mint, missed>>

Restart(p) ==
  /\ Move(p, "down", "idle")
  /\ UNCHANGED <<key, ttl, mint, missed>>

-----------------------------------------------------------------------------
\* How long a process may stay where it is before its own next step is due.
Patience(p) == CASE phase[p] = "granted" -> MaxDelay
                 [] phase[p] = "holding" -> Period
                 [] OTHER                -> TTL

\* Only these phases are timed; "down" is timed for as long as a key can last.
Timed(p) == phase[p] \in {"granted", "holding", "down"}

\* One tick of Redis's and the processes' clocks; the last one expires the key.
Tick ==
  /\ ttl > 0
  /\ \A p \in Process : phase[p] \in {"granted", "holding"} => clock[p] < Patience(p)
  /\ ttl' = ttl - 1
  /\ key' = IF ttl = 1 THEN NoKey ELSE key
  /\ clock' = [p \in Process |->
                 IF Timed(p) /\ clock[p] < Patience(p) THEN clock[p] + 1 ELSE clock[p]]
  /\ UNCHANGED <<phase, mint, missed>>

ProcessStep(p) ==
  \/ Acquire(p)      \/ Granted(p)     \/ Renew(p)        \/ MissRenewal(p)
  \/ BeginRelease(p) \/ ReleaseKey(p)  \/ ReleaseLost(p)  \/ StopRenewing(p)
  \/ Crash(p)        \/ Restart(p)

Next == Tick \/ \E p \in Process : ProcessStep(p)

Spec == Init /\ [][Next]_vars

-----------------------------------------------------------------------------
\* The processes that act as holders of the lock.
Believers == {p \in Process : phase[p] \in {"granted", "holding"}}

Owner == IF key = NoKey THEN NoKey ELSE key[1]

\* Two processes never both act as the holder (guide lock.md: "only one of
\* these may run at a time, across every instance").
Exclusion == \A p, q \in Believers : p = q

\* A release, by script or after its own key expired, never frees a key that
\* another acquire created (the comment on RELEASE_SCRIPT, lines 19-23).
ReleaseOnlyOwn ==
  [][\A p \in Process :
       phase[p] = "releasing" /\ phase'[p] = "idle" /\ key # NoKey /\ key # Token(p)
         => key' = key]_vars

\* Only the current holder's heartbeat pushes the TTL back out: while a key
\* lives, its remaining time grows only in a step of the process that owns it.
OnlyOwnerExtends ==
  [][key # NoKey /\ key' = key /\ ttl' > ttl
       => phase[Owner] = "holding" /\ clock[Owner] >= Interval /\ clock'[Owner] = 0
          /\ key = Token(Owner)]_vars

\* A key left by a crashed process never lives past one whole TTL after the crash.
OrphanBounded ==
  \A p \in Process : phase[p] = "down" /\ Owner = p => clock[p] + ttl <= TTL

\* What the callers see is Lease: lossy in general, not lossy when Timely.
LossyLease == INSTANCE Lease
  WITH Client <- Process, None <- NoKey, Lossy <- TRUE,
       owner <- Owner, believers <- Believers
SafeLease == INSTANCE Lease
  WITH Client <- Process, None <- NoKey, Lossy <- FALSE,
       owner <- Owner, believers <- Believers

ImplementsLossyLease == LossyLease!Spec
ImplementsSafeLease == SafeLease!Spec
=============================================================================
