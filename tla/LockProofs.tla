----------------------------- MODULE LockProofs -----------------------------
(***************************************************************************)
(* What LockService guarantees for any number of processes and any timing. *)
(* Unconditionally: the compare-and-delete frees only its own key, only    *)
(* the owner's heartbeat extends a key, an orphaned key dies within one    *)
(* TTL, and callers see the lossy Lease.  Under Timely, the condition on   *)
(* stalls and lost renewals that the code assumes and does not check,      *)
(* holders exclude each other and callers see the safe Lease.              *)
(***************************************************************************)
EXTENDS Lock, TLAPS

\* A key exists exactly as long as it has time left.
KeyInv == key = NoKey <=> ttl = 0

\* What can have been lost of the TTL since the holder's last renewal.
Lag(p) == IF phase[p] = "granted" THEN clock[p]
          ELSE MaxDelay + missed[p] * Period + clock[p]

\* A live holder is never later than its patience, and its key has what is
\* left of the TTL after every delay and every lost renewal so far.
Holds(p) ==
  /\ key = Token(p)
  /\ clock[p] <= Patience(p)
  /\ missed[p] <= MaxMissed
  /\ TTL <= ttl + Lag(p)

HoldInv == \A p \in Believers : Holds(p)

IInv == TypeOK /\ KeyInv /\ OrphanBounded

-----------------------------------------------------------------------------
\* The constants, in the form the arithmetic below uses.
LEMMA Constants ==
  /\ TTL \in Nat \ {0} /\ Interval \in Nat \ {0} /\ MaxDelay \in Nat /\ MaxMissed \in Nat
  /\ Period \in Nat /\ Interval <= Period /\ MaxDelay <= Period
BY LockAssumption DEF Period

\* No more renewals lost, no more time lost.
LEMMA LostTime ==
  ASSUME NEW a \in Nat, NEW b \in Nat, NEW c \in Nat, a <= b
  PROVE  a * c \in Nat /\ a * c <= b * c /\ (a + 1) * c = a * c + c
OBVIOUS

LEMMA InitInv == Init => IInv /\ HoldInv
BY LockAssumption DEF Init, IInv, TypeOK, KeyInv, OrphanBounded, Owner, HoldInv, Believers, Phases

\* The type and the key survive every step.
LEMMA StepType ==
  ASSUME IInv, [Next]_vars
  PROVE  TypeOK' /\ KeyInv'
<1> USE Constants DEF IInv, TypeOK, KeyInv, Move
<1>1. CASE Tick
  BY <1>1 DEF Tick, Patience, Timed
<1>2. ASSUME NEW p \in Process, ProcessStep(p)
      PROVE  TypeOK' /\ KeyInv'
  <2>1. CASE Acquire(p)
    <3>1. <<p, mint[p] + 1>> \in Process \X Nat
      OBVIOUS
    <3> QED
      BY <2>1, <3>1, LockAssumption DEF Acquire, Phases
  <2>2. CASE Granted(p) \/ BeginRelease(p) \/ ReleaseLost(p) \/ StopRenewing(p) \/ Restart(p)
    BY <2>2 DEF Granted, BeginRelease, ReleaseLost, StopRenewing, Restart, Phases
  <2>3. CASE Crash(p)
    BY <2>3 DEF Crash, Phases
  <2>4. CASE Renew(p)
    BY <2>4, LockAssumption DEF Renew, Phases, Token
  <2>5. CASE MissRenewal(p)
    BY <2>5 DEF MissRenewal, Phases
  <2>6. CASE ReleaseKey(p)
    BY <2>6 DEF ReleaseKey, DeleteKey, Phases
  <2> QED
    BY <1>2, <2>1, <2>2, <2>3, <2>4, <2>5, <2>6 DEF ProcessStep
<1>3. CASE UNCHANGED vars
  BY <1>3 DEF vars
<1> QED
  BY <1>1, <1>2, <1>3 DEF Next

\* A crashed owner's clock and its key's TTL trade one tick for one tick.
LEMMA StepOrphan ==
  ASSUME IInv, [Next]_vars
  PROVE  OrphanBounded'
<1> SUFFICES ASSUME NEW p \in Process, phase'[p] = "down", Owner' = p
             PROVE  clock'[p] + ttl' <= TTL
  BY DEF OrphanBounded
<1> USE Constants DEF IInv, TypeOK, Owner
<1>0. key' # NoKey /\ key'[1] = p
  BY LockAssumption
<1>1. CASE Tick
  <2>1. key' = key /\ phase[p] = "down" /\ ttl' = ttl - 1
        /\ clock'[p] \in {clock[p], clock[p] + 1}
    BY <1>0, <1>1 DEF Tick
  <2>2. clock[p] + ttl <= TTL
    BY <1>0, <2>1 DEF OrphanBounded
  <2> QED
    BY <2>1, <2>2
<1>2. ASSUME NEW q \in Process, ProcessStep(q)
      PROVE  clock'[p] + ttl' <= TTL
  <2>1. CASE q = p
    <3>1. Crash(p)
      BY <1>2, <2>1 DEF ProcessStep, Acquire, Granted, Renew, MissRenewal, BeginRelease,
        ReleaseKey, ReleaseLost, StopRenewing, Restart, Move
    <3> QED
      BY <3>1 DEF Crash, Move
  <2>2. CASE q # p
    <3>1. phase[p] = "down" /\ clock'[p] = clock[p]
      BY <1>2, <2>2 DEF ProcessStep, Acquire, Granted, Renew, MissRenewal, BeginRelease,
        ReleaseKey, ReleaseLost, StopRenewing, Crash, Restart, Move
    <3>2. key' = key /\ ttl' = ttl
      <4>1. CASE Acquire(q)
        BY <1>0, <2>2, <4>1 DEF Acquire
      <4>2. CASE Renew(q)
        BY <1>0, <2>2, <4>2 DEF Renew, Token
      <4>3. CASE ReleaseKey(q)
        BY <1>0, <4>3 DEF ReleaseKey, DeleteKey
      <4>4. CASE Granted(q) \/ MissRenewal(q) \/ BeginRelease(q) \/ ReleaseLost(q)
                 \/ StopRenewing(q) \/ Crash(q) \/ Restart(q)
        BY <4>4 DEF Granted, MissRenewal, BeginRelease, ReleaseLost, StopRenewing, Crash, Restart
      <4> QED
        BY <1>2, <4>1, <4>2, <4>3, <4>4 DEF ProcessStep
    <3> QED
      BY <1>0, <3>1, <3>2 DEF OrphanBounded
  <2> QED
    BY <2>1, <2>2
<1>3. CASE UNCHANGED vars
  BY <1>0, <1>3 DEF vars, OrphanBounded
<1> QED
  BY <1>1, <1>2, <1>3 DEF Next

\* Under Timely a holder's key cannot run out: what is left of it exceeds
\* what the delays still allowed can take.
LEMMA Reserve ==
  ASSUME Timely, TypeOK, NEW p \in Believers, Holds(p)
  PROVE  /\ ttl > 0
         /\ clock[p] < Patience(p) => ttl > 1
         /\ missed[p] * Period \in Nat
<1> USE Constants DEF TypeOK
<1>1. p \in Process /\ missed[p] <= MaxMissed /\ clock[p] <= Patience(p) /\ TTL <= ttl + Lag(p)
  BY DEF Holds, Believers
<1>2. /\ missed[p] * Period \in Nat /\ MaxMissed * Period \in Nat
      /\ missed[p] * Period <= MaxMissed * Period
      /\ (MaxMissed + 1) * Period = MaxMissed * Period + Period
  BY <1>1, LostTime
<1>3. MaxDelay + MaxMissed * Period + Period < TTL
  BY <1>2 DEF Timely
<1>4. CASE phase[p] = "granted"
  BY <1>1, <1>2, <1>3, <1>4 DEF Lag, Patience
<1>5. CASE phase[p] = "holding"
  BY <1>1, <1>2, <1>3, <1>5 DEF Lag, Patience
<1> QED
  BY <1>4, <1>5 DEF Believers

\* A holder keeps its key through its own steps: it beats in time, and each
\* lost renewal is charged to the reserve.
LEMMA OwnHold ==
  ASSUME Timely, IInv, HoldInv, NEW p \in Process, ProcessStep(p), p \in Believers'
  PROVE  Holds(p)'
<1> USE Constants DEF IInv, TypeOK, Move, Believers
<1>1. CASE Acquire(p)
  BY <1>1 DEF Acquire, Holds, Token, Patience, Lag
<1>2. CASE Granted(p)
  <2>1. Holds(p) /\ phase[p] = "granted"
    BY <1>2 DEF Granted, HoldInv
  <2>2. missed[p] * Period \in Nat
    BY <2>1, Reserve
  <2>3. phase'[p] = "holding" /\ clock'[p] = 0 /\ UNCHANGED <<key, ttl, mint, missed>>
    BY <1>2 DEF Granted
  <2> QED
    BY <2>1, <2>2, <2>3 DEF Holds, Token, Patience, Lag
<1>3. CASE Renew(p)
  <2>1. Holds(p) /\ phase[p] = "holding"
    BY <1>3 DEF Renew, HoldInv
  <2>2. /\ phase'[p] = "holding" /\ clock'[p] = 0 /\ missed'[p] = 0
        /\ ttl' = TTL /\ UNCHANGED <<key, mint>>
    BY <1>3, <2>1 DEF Renew, Holds
  <2> QED
    BY <2>1, <2>2 DEF Holds, Token, Patience, Lag
<1>4. CASE MissRenewal(p)
  <2>1. Holds(p) /\ phase[p] = "holding" /\ missed[p] < MaxMissed
    BY <1>4 DEF MissRenewal, HoldInv
  <2>2. /\ phase'[p] = "holding" /\ clock'[p] = 0 /\ missed'[p] = missed[p] + 1
        /\ UNCHANGED <<key, ttl, mint>>
    BY <1>4 DEF MissRenewal
  <2>3. missed[p] * Period \in Nat /\ (missed[p] + 1) * Period = missed[p] * Period + Period
    BY <2>1, LostTime
  <2>4. clock[p] <= Period /\ TTL <= ttl + MaxDelay + missed[p] * Period + clock[p]
    BY <2>1, <2>3 DEF Holds, Patience, Lag
  <2>5. TTL <= ttl + MaxDelay + (missed[p] * Period + Period)
    BY <2>3, <2>4
  <2>6. TTL <= ttl' + (MaxDelay + missed'[p] * Period + clock'[p])
    BY <2>2, <2>3, <2>5
  <2> QED
    BY <2>1, <2>2, <2>6 DEF Holds, Token, Patience, Lag
<1>5. CASE BeginRelease(p) \/ ReleaseKey(p) \/ ReleaseLost(p) \/ StopRenewing(p) \/ Crash(p) \/ Restart(p)
  BY <1>5 DEF BeginRelease, ReleaseKey, ReleaseLost, StopRenewing, Crash, Restart
<1> QED
  BY <1>1, <1>2, <1>3, <1>4, <1>5 DEF ProcessStep

\* No step takes a live holder's key away.
LEMMA StepHold ==
  ASSUME Timely, IInv, HoldInv, [Next]_vars
  PROVE  HoldInv'
<1> SUFFICES ASSUME NEW p \in Process, p \in Believers'
             PROVE  Holds(p)'
  BY DEF HoldInv, Believers
<1> USE Constants DEF IInv, TypeOK
<1>1. CASE Tick
  <2>1. p \in Believers /\ Holds(p) /\ clock[p] < Patience(p) /\ phase' = phase
    BY <1>1 DEF Tick, HoldInv, Believers
  <2>2. ttl > 1 /\ missed[p] * Period \in Nat
    BY <2>1, Reserve
  <2>3. /\ key' = key /\ ttl' = ttl - 1 /\ clock'[p] = clock[p] + 1
        /\ UNCHANGED <<phase, mint, missed>>
    BY <1>1, <2>1, <2>2 DEF Tick, Timed, Believers
  <2>4. Lag(p)' = Lag(p) + 1
    BY <2>2, <2>3 DEF Lag
  <2>5. Lag(p) \in Nat
    BY <2>2 DEF Lag
  <2>6. Patience(p)' = Patience(p) /\ Patience(p) \in Nat
    BY <2>3 DEF Patience
  <2> QED
    BY <2>1, <2>3, <2>4, <2>5, <2>6 DEF Holds, Token
<1>2. ASSUME NEW q \in Process, ProcessStep(q)
      PROVE  Holds(p)'
  <2>1. CASE q = p
    BY <1>2, <2>1, OwnHold
  <2>2. CASE q # p
    <3>1. /\ phase'[p] = phase[p] /\ clock'[p] = clock[p]
          /\ missed'[p] = missed[p] /\ mint'[p] = mint[p]
      BY <1>2, <2>2 DEF ProcessStep, Acquire, Granted, Renew, MissRenewal, BeginRelease,
        ReleaseKey, ReleaseLost, StopRenewing, Crash, Restart, Move
    <3>2. p \in Believers /\ Holds(p) /\ key = <<p, mint[p]>> /\ key # NoKey
      BY <3>1, LockAssumption DEF Believers, HoldInv, Holds, Token
    <3>3. key' = key /\ ttl' = ttl
      <4>1. ~ Acquire(q)
        BY <3>2 DEF Acquire
      <4>2. CASE Renew(q)
        BY <2>2, <3>2, <4>2 DEF Renew, Token
      <4>3. CASE ReleaseKey(q)
        BY <2>2, <3>2, <4>3 DEF ReleaseKey, DeleteKey, Token
      <4>4. CASE Granted(q) \/ MissRenewal(q) \/ BeginRelease(q) \/ ReleaseLost(q)
                 \/ StopRenewing(q) \/ Crash(q) \/ Restart(q)
        BY <4>4 DEF Granted, MissRenewal, BeginRelease, ReleaseLost, StopRenewing, Crash, Restart
      <4> QED
        BY <1>2, <4>1, <4>2, <4>3, <4>4 DEF ProcessStep
    <3> QED
      BY <3>1, <3>2, <3>3 DEF Holds, Token, Patience, Lag
  <2> QED
    BY <2>1, <2>2
<1>3. CASE UNCHANGED vars
  BY <1>3 DEF vars, HoldInv, Believers, Holds, Token, Patience, Lag
<1> QED
  BY <1>1, <1>2, <1>3 DEF Next

-----------------------------------------------------------------------------
\* The unconditional invariant.
THEOREM Invariance == Spec => []IInv
<1>1. IInv /\ [Next]_vars => IInv'
  BY StepType, StepOrphan DEF IInv
<1> QED
  BY <1>1, InitInv, PTL DEF Spec

\* Every variable keeps its type.
THEOREM TypeCorrect == Spec => []TypeOK
<1>1. IInv => TypeOK
  BY DEF IInv
<1> QED
  BY <1>1, Invariance, PTL

\* A crashed holder's key is gone within one TTL of the crash, at any timing.
THEOREM OrphanDies == Spec => []OrphanBounded
<1>1. IInv => OrphanBounded
  BY DEF IInv
<1> QED
  BY <1>1, Invariance, PTL

\* Under Timely every process acting as holder owns the key, and has the
\* reserve that keeps it.
THEOREM HoldersHold == ASSUME Timely PROVE Spec => []HoldInv
<1>1. Timely
  OBVIOUS
<1>2. IInv /\ HoldInv /\ [Next]_vars => HoldInv'
  BY <1>1, StepHold
<1> QED
  BY <1>2, InitInv, Invariance, PTL DEF Spec

\* Under Timely two processes never both act as the holder.
THEOREM MutualExclusion == ASSUME Timely PROVE Spec => []Exclusion
<1>1. HoldInv => Exclusion
  BY DEF HoldInv, Holds, Exclusion, Token, Believers
<1> QED
  BY <1>1, HoldersHold, PTL

\* A release, timely or not, frees no key that another acquire created.
THEOREM ReleaseSafe == Spec => ReleaseOnlyOwn
<1>1. TypeOK /\ [Next]_vars =>
        [\A p \in Process :
           phase[p] = "releasing" /\ phase'[p] = "idle" /\ key # NoKey /\ key # Token(p)
             => key' = key]_vars
  <2> SUFFICES ASSUME TypeOK, Next, NEW p \in Process, phase[p] = "releasing",
                      phase'[p] = "idle", key # NoKey, key # Token(p)
               PROVE  key' = key
    BY DEF vars
  <2>1. ~ Tick
    BY DEF Tick
  <2>2. PICK q \in Process : ProcessStep(q)
    BY <2>1 DEF Next
  <2>3. q = p
    BY <2>2 DEF TypeOK, ProcessStep, Acquire, Granted, Renew, MissRenewal, BeginRelease,
      ReleaseKey, ReleaseLost, StopRenewing, Crash, Restart, Move
  <2>4. ReleaseKey(p) \/ ReleaseLost(p)
    BY <2>2, <2>3 DEF TypeOK, ProcessStep, Acquire, Granted, Renew, MissRenewal, BeginRelease,
      StopRenewing, Crash, Restart, Move
  <2> QED
    BY <2>4 DEF ReleaseKey, ReleaseLost
<1> QED
  BY <1>1, TypeCorrect, PTL DEF Spec, ReleaseOnlyOwn

\* While a key lives, only its owner's own heartbeat pushes its TTL back out.
THEOREM ExtensionSafe == Spec => OnlyOwnerExtends
<1>1. TypeOK /\ [Next]_vars =>
        [key # NoKey /\ key' = key /\ ttl' > ttl
           => phase[Owner] = "holding" /\ clock[Owner] >= Interval /\ clock'[Owner] = 0
              /\ key = Token(Owner)]_vars
  <2> SUFFICES ASSUME TypeOK, Next, key # NoKey, key' = key, ttl' > ttl
               PROVE  phase[Owner] = "holding" /\ clock[Owner] >= Interval
                      /\ clock'[Owner] = 0 /\ key = Token(Owner)
    BY DEF vars
  <2>1. ~ Tick
    BY DEF Tick, TypeOK
  <2>2. PICK q \in Process : ProcessStep(q)
    BY <2>1 DEF Next
  <2>3. Renew(q)
    BY <2>2 DEF TypeOK, ProcessStep, Acquire, Granted, MissRenewal, BeginRelease,
      ReleaseKey, ReleaseLost, StopRenewing, Crash, Restart, Move, DeleteKey
  <2>4. key = Token(q)
    BY <2>3 DEF Renew, TypeOK
  <2>5. Owner = q
    BY <2>4 DEF Owner, Token
  <2> QED
    BY <2>3, <2>4, <2>5 DEF Renew, Move, TypeOK
<1> QED
  BY <1>1, TypeCorrect, PTL DEF Spec, OnlyOwnerExtends

-----------------------------------------------------------------------------
\* One step of the lock, seen by its callers.  A step that may free the key of
\* a believer is the expiry, and only when the believer has not kept its key.
LEMMA StepLease ==
  ASSUME IInv, [Next]_vars
  PROVE  /\ [LossyLease!Next]_(LossyLease!vars)
         /\ Timely /\ HoldInv => [SafeLease!Next]_(SafeLease!vars)
<1> USE Constants DEF IInv
<1> DEFINE Held == Timely /\ HoldInv
           Kept == key' = key /\ Believers' = Believers
<1>1. CASE Tick
  <2>1. Believers' = Believers /\ ttl > 0
    BY <1>1 DEF Tick, Believers
  <2>2. CASE ttl # 1
    <3>1. Owner' = Owner
      BY <1>1, <2>2 DEF Tick, Owner
    <3> QED
      BY <2>1, <3>1 DEF LossyLease!vars, SafeLease!vars
  <2>3. CASE ttl = 1
    <3>1. key # NoKey /\ Owner # NoKey /\ Owner' = NoKey /\ Owner \in Process
      BY <1>1, <2>3, LockAssumption DEF Tick, Owner, KeyInv, TypeOK
    <3>2. LossyLease!Free
      BY <2>1, <3>1 DEF LossyLease!Free
    <3>3. ASSUME Held
          PROVE  Owner \notin Believers
      <4>1. SUFFICES ASSUME Owner \in Believers
                     PROVE  FALSE
        OBVIOUS
      <4>2. Holds(Owner) /\ clock[Owner] < Patience(Owner)
        BY <1>1, <3>1, <3>3, <4>1 DEF HoldInv, Tick, Believers
      <4> QED
        BY <2>3, <3>3, <4>1, <4>2, Reserve
    <3>4. Held => SafeLease!Free
      BY <2>1, <3>1, <3>3 DEF SafeLease!Free
    <3> QED
      BY <3>2, <3>4 DEF LossyLease!Next, SafeLease!Next
  <2> QED
    BY <2>2, <2>3
<1>2. ASSUME NEW p \in Process, ProcessStep(p)
      PROVE  /\ [LossyLease!Next]_(LossyLease!vars)
             /\ Held => [SafeLease!Next]_(SafeLease!vars)
  <2>1. CASE Acquire(p)
    <3>1. Owner = NoKey /\ Owner' = p /\ p \notin Believers /\ Believers' = Believers \cup {p}
      BY <2>1, LockAssumption DEF Acquire, Move, Owner, Believers, TypeOK
    <3>2. LossyLease!Grant(p) /\ SafeLease!Grant(p)
      BY <3>1 DEF LossyLease!Grant, SafeLease!Grant
    <3> QED
      BY <3>2 DEF LossyLease!Next, SafeLease!Next
  <2>2. CASE p \in Believers /\ (BeginRelease(p) \/ StopRenewing(p) \/ Crash(p))
    <3>1. Owner' = Owner /\ Believers' = Believers \ {p}
      BY <2>2 DEF BeginRelease, StopRenewing, Crash, Move, Owner, Believers, TypeOK
    <3>2. LossyLease!Leave(p) /\ SafeLease!Leave(p)
      BY <2>2, <3>1 DEF LossyLease!Leave, SafeLease!Leave
    <3> QED
      BY <3>2 DEF LossyLease!Next, SafeLease!Next
  <2>3. CASE /\ Granted(p) \/ Renew(p) \/ MissRenewal(p) \/ ReleaseLost(p) \/ Restart(p)
                \/ (Crash(p) /\ p \notin Believers)
    <3>1. Owner' = Owner /\ Believers' = Believers
      BY <2>3 DEF Granted, Renew, MissRenewal, ReleaseLost, Restart, Crash, Move, Owner,
        Believers, TypeOK
    <3> QED
      BY <3>1 DEF LossyLease!vars, SafeLease!vars
  <2>4. CASE ReleaseKey(p)
    <3>1. p \notin Believers /\ Believers' = Believers
      BY <2>4 DEF ReleaseKey, Move, Believers, TypeOK
    <3>2. CASE key = Token(p)
      <4>1. Owner = p /\ Owner # NoKey /\ Owner' = NoKey
        <5>1. key # NoKey
          BY <3>2, LockAssumption DEF Token, TypeOK
        <5> QED
          BY <2>4, <3>2, <5>1, LockAssumption DEF ReleaseKey, DeleteKey, Owner, Token
      <4>2. LossyLease!Free /\ SafeLease!Free
        BY <3>1, <4>1 DEF LossyLease!Free, SafeLease!Free
      <4> QED
        BY <4>2 DEF LossyLease!Next, SafeLease!Next
    <3>3. CASE key # Token(p)
      BY <2>4, <3>1, <3>3 DEF ReleaseKey, Owner, LossyLease!vars, SafeLease!vars
    <3> QED
      BY <3>2, <3>3
  <2>5. BeginRelease(p) \/ StopRenewing(p) => p \in Believers
    BY DEF BeginRelease, StopRenewing, Move, Believers
  <2> QED
    BY <1>2, <2>1, <2>2, <2>3, <2>4, <2>5 DEF ProcessStep
<1>3. CASE UNCHANGED vars
  BY <1>3 DEF vars, Owner, Believers, LossyLease!vars, SafeLease!vars
<1> QED
  BY <1>1, <1>2, <1>3 DEF Next

LEMMA InitLease == Init => LossyLease!Init /\ SafeLease!Init
BY DEF Init, Owner, Believers, LossyLease!Init, SafeLease!Init

\* At any timing, callers see the lossy Lease: Redis gives the key to one
\* client at a time, and a client may lose it without being told.
THEOREM ImplementsLossy == Spec => ImplementsLossyLease
<1>1. IInv /\ [Next]_vars => [LossyLease!Next]_(LossyLease!vars)
  BY StepLease
<1> QED
  BY <1>1, InitLease, Invariance, PTL DEF Spec, LossyLease!Spec, ImplementsLossyLease

\* Under Timely, callers see the safe Lease: the key is never freed under a
\* client that still acts as its holder.
THEOREM ImplementsSafe == ASSUME Timely PROVE Spec => ImplementsSafeLease
<1>1. Timely
  OBVIOUS
<1>2. IInv /\ HoldInv /\ [Next]_vars => [SafeLease!Next]_(SafeLease!vars)
  BY <1>1, StepLease
<1> QED
  BY <1>2, InitLease, Invariance, HoldersHold, PTL DEF Spec, SafeLease!Spec, ImplementsSafeLease

\* What the outbox and the requests rest on: the safe Lease by itself excludes,
\* so whatever implements it, here or in place of this lock, excludes too.
THEOREM LeaseExcludes == SafeLease!Spec => []Exclusion
<1> DEFINE OwnerOnly == \A p \in Believers : Owner = p
<1>1. SafeLease!Init => OwnerOnly
  BY DEF SafeLease!Init
<1>2. OwnerOnly /\ [SafeLease!Next]_(SafeLease!vars) => OwnerOnly'
  <2> SUFFICES ASSUME OwnerOnly, [SafeLease!Next]_(SafeLease!vars)
               PROVE  OwnerOnly'
    OBVIOUS
  <2>1. ASSUME NEW p \in Process, SafeLease!Grant(p)
        PROVE  OwnerOnly'
    <3>1. Believers = {}
      BY <2>1, LockAssumption DEF SafeLease!Grant, Believers
    <3> QED
      BY <2>1, <3>1 DEF SafeLease!Grant
  <2>2. ASSUME NEW p \in Process, SafeLease!Leave(p)
        PROVE  OwnerOnly'
    BY <2>2 DEF SafeLease!Leave
  <2>3. CASE SafeLease!Free
    <3>1. Believers = {}
      BY <2>3 DEF SafeLease!Free
    <3> QED
      BY <2>3, <3>1 DEF SafeLease!Free
  <2>4. CASE UNCHANGED SafeLease!vars
    BY <2>4 DEF SafeLease!vars
  <2> QED
    BY <2>1, <2>2, <2>3, <2>4 DEF SafeLease!Next
<1>3. OwnerOnly => Exclusion
  BY DEF Exclusion
<1> QED
  BY <1>1, <1>2, <1>3, PTL DEF SafeLease!Spec
=============================================================================
