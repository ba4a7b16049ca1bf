--------------------------- MODULE HostGateProofs ---------------------------
(***************************************************************************)
(* The circuit breaker and the bulkhead, for any number of callers, any    *)
(* settings and any interleaving of calls, late results and operators.     *)
(***************************************************************************)
EXTENDS HostGate, FiniteSetTheorems, TLAPS

\* A half-open circuit has claimed a probe for every call it let through.
ProbeInv == state = "half-open" => Cardinality(probing) <= probes

\* An operator's configure never lowers the threshold under a running count.
OneThreshold == \A s, t \in Settings : s.failureThreshold = t.failureThreshold

IInv == TypeOK /\ BulkheadExact /\ ProbeInv

-----------------------------------------------------------------------------
\* The fields of a gate's settings.
LEMMA SettingsType ==
  ASSUME NEW s \in Settings
  PROVE  /\ s.failureThreshold \in Nat \ {0} /\ s.openMs \in Nat
         /\ s.halfOpenProbes \in Nat \ {0} /\ s.maxConcurrent \in Nat \ {0}
         /\ s.failureThreshold <= MaxFailures /\ s.openMs <= MaxAge
<1>1. s \in [failureThreshold : Nat \ {0}, openMs : Nat,
             halfOpenProbes : Nat \ {0}, maxConcurrent : Nat \ {0}]
  BY HostGateAssumption
<1> QED
  BY <1>1, HostGateAssumption

\* A set of calls grows and shrinks by one.
LEMMA CountCalls ==
  ASSUME NEW S \in SUBSET Call, NEW c \in Call
  PROVE  /\ Cardinality(S) \in Nat
         /\ Cardinality(S \cup {c}) <= Cardinality(S) + 1
         /\ c \notin S => Cardinality(S \cup {c}) = Cardinality(S) + 1
         /\ c \in S => Cardinality(S \ {c}) = Cardinality(S) - 1 /\ Cardinality(S) # 0
<1>1. IsFiniteSet(S) /\ Cardinality(S) \in Nat
  BY HostGateAssumption, FS_Subset, FS_CardinalityType
<1>2. Cardinality(S \cup {c}) = IF c \in S THEN Cardinality(S) ELSE Cardinality(S) + 1
  BY <1>1, FS_AddElement
<1>3. Cardinality(S \ {c}) = IF c \in S THEN Cardinality(S) - 1 ELSE Cardinality(S)
  BY <1>1, FS_RemoveElement
<1>4. c \in S => Cardinality(S) # 0
  BY <1>1, FS_EmptySet
<1> QED
  BY <1>1, <1>2, <1>3, <1>4

LEMMA NoCalls == Cardinality({}) = 0
BY FS_EmptySet

LEMMA InitInv == Init => IInv
<1> SUFFICES ASSUME Init PROVE IInv
  OBVIOUS
<1>1. TypeOK
  <2>1. 0 \in 0..MaxFailures /\ 0 \in 0..MaxAge
    BY HostGateAssumption
  <2> QED
    BY <2>1 DEF Init, TypeOK, States
<1>2. BulkheadExact /\ ProbeInv
  BY NoCalls DEF Init, BulkheadExact, ProbeInv
<1> QED
  BY <1>1, <1>2 DEF IInv

-----------------------------------------------------------------------------
\* What refresh() finds is of the right type, and its probes cover its calls.
LEMMA Refreshed ==
  ASSUME IInv
  PROVE  /\ StateNow \in States /\ ProbesNow \in Nat /\ ProbingNow \subseteq Call
         /\ StateNow = "half-open" => Cardinality(ProbingNow) <= ProbesNow
         /\ StateNow # "half-open" => state = StateNow /\ ProbesNow = probes /\ ProbingNow = probing
BY NoCalls DEF IInv, TypeOK, ProbeInv, StateNow, ProbesNow, ProbingNow, Cooled, States

\* Admission: one slot, and in half-open one probe within the budget.
LEMMA StepAdmit ==
  ASSUME IInv, NEW c \in Call, Admit(c)
  PROVE  /\ IInv'
         /\ running' = running \cup {c} /\ Cardinality(running') <= settings.maxConcurrent
         /\ state' = "half-open" => Cardinality(probing') <= settings.halfOpenProbes
<1> USE DEF IInv, TypeOK
<1>1. /\ c \notin running /\ running' = running \cup {c} /\ inFlight' = inFlight + 1
      /\ inFlight < settings.maxConcurrent /\ state' = StateNow /\ CircuitAllows
      /\ UNCHANGED <<consecutiveFailures, age, settings, unrecorded>>
  BY DEF Admit
<1>2. Cardinality(running') = Cardinality(running) + 1 /\ Cardinality(running) = inFlight
  BY <1>1, CountCalls DEF BulkheadExact
<1>3. CASE StateNow = "half-open"
  <2>1. probes' = ProbesNow + 1 /\ probing' = ProbingNow \cup {c} /\ ProbesNow < settings.halfOpenProbes
    BY <1>1, <1>3 DEF Admit, CircuitAllows
  <2>2. /\ Cardinality(ProbingNow) \in Nat
        /\ Cardinality(ProbingNow \cup {c}) <= Cardinality(ProbingNow) + 1
        /\ Cardinality(ProbingNow \cup {c}) \in Nat
    BY Refreshed, CountCalls, FS_CardinalityType
  <2>3. Cardinality(probing') <= probes' /\ probes' <= settings.halfOpenProbes
    BY <1>3, <2>1, <2>2, Refreshed, SettingsType
  <2> QED
    BY <1>1, <1>2, <1>3, <2>1, <2>2, <2>3, Refreshed, SettingsType DEF ProbeInv, BulkheadExact, States
<1>4. CASE StateNow # "half-open"
  <2>1. probes' = probes /\ probing' = probing
    BY <1>4 DEF Admit
  <2> QED
    BY <1>1, <1>2, <1>4, <2>1, Refreshed, SettingsType DEF ProbeInv, BulkheadExact, States
<1> QED
  BY <1>3, <1>4

\* A result, whenever it comes, frees exactly its own slot, and reopens no probe.
LEMMA StepFinish ==
  ASSUME IInv, NEW c \in Call, Finish(c)
  PROVE  IInv'
<1> USE DEF IInv, TypeOK
<1>1. /\ c \in running /\ running' = running \ {c} /\ inFlight' = inFlight - 1
      /\ UNCHANGED <<settings, probing>>
  BY DEF Finish
<1>2. Cardinality(running') = Cardinality(running) - 1 /\ inFlight = Cardinality(running)
      /\ inFlight # 0
  BY <1>1, CountCalls DEF BulkheadExact
<1>3. inFlight' \in Nat /\ BulkheadExact'
  BY <1>1, <1>2 DEF BulkheadExact
<1>4. /\ state' \in States /\ consecutiveFailures' \in 0..MaxFailures /\ probes' \in Nat
      /\ age' \in 0..MaxAge /\ unrecorded' \in BOOLEAN
      /\ state' = "half-open" => state = "half-open" /\ probes' = probes
  <2>1. CASE RecordFailure /\ UNCHANGED unrecorded
    BY <2>1, HostGateAssumption DEF RecordFailure, Trip, Smaller, States
  <2>2. CASE RecordSuccess /\ UNCHANGED unrecorded
    BY <2>2, HostGateAssumption DEF RecordSuccess, States
  <2>3. CASE unrecorded' = TRUE /\ UNCHANGED gate
    BY <2>3 DEF gate
  <2> QED
    BY <2>1, <2>2, <2>3 DEF Finish
<1>5. ProbeInv'
  BY <1>1, <1>4 DEF ProbeInv
<1> QED
  BY <1>1, <1>3, <1>4, <1>5

LEMMA StepInv == IInv /\ [Next]_vars => IInv'
<1> SUFFICES ASSUME IInv, [Next]_vars PROVE IInv'
  OBVIOUS
<1> USE DEF IInv, TypeOK
<1>1. CASE Look \/ RefuseBusy
  BY <1>1, Refreshed DEF Look, RefuseBusy, Refresh, BulkheadExact, ProbeInv
<1>2. CASE \E c \in Call : Admit(c) \/ Finish(c)
  BY <1>2, StepAdmit, StepFinish
<1>3. CASE Open \/ Reset
  BY <1>3, HostGateAssumption DEF Open, Reset, Trip, BulkheadExact, ProbeInv, States
<1>4. CASE \E s \in Settings : Configure(s)
  BY <1>4, NoCalls DEF Configure, BulkheadExact, ProbeInv, States
<1>5. CASE Tick
  BY <1>5, HostGateAssumption DEF Tick, BulkheadExact, ProbeInv
<1>6. CASE UNCHANGED vars
  BY <1>6 DEF vars, gate, BulkheadExact, ProbeInv
<1> QED
  BY <1>1, <1>2, <1>3, <1>4, <1>5, <1>6 DEF Next

THEOREM Invariance == Spec => []IInv
BY InitInv, StepInv, PTL DEF Spec

\* Every variable keeps its type: no counter goes negative.
THEOREM TypeCorrect == Spec => []TypeOK
<1>1. IInv => TypeOK
  BY DEF IInv
<1> QED
  BY <1>1, Invariance, PTL

\* No path through run() leaks a bulkhead slot or frees one twice.
THEOREM BulkheadCounts == Spec => []BulkheadExact
<1>1. IInv => BulkheadExact
  BY DEF IInv
<1> QED
  BY <1>1, Invariance, PTL

-----------------------------------------------------------------------------
\* The set of calls in flight grows only by an admission.
LEMMA OnlyAdmits ==
  ASSUME Next, running' \ running # {}
  PROVE  \E c \in Call : Admit(c)
BY DEF Next, Look, RefuseBusy, Finish, Open, Reset, Configure, Tick

\* No call is admitted to an open circuit before it cools, nor past maxConcurrent.
THEOREM Admissions == Spec => AdmissionRules
<1>1. IInv /\ [Next]_vars =>
        [running' \ running # {} =>
           /\ state = "open" => age >= settings.openMs
           /\ state' # "open"
           /\ Cardinality(running') <= settings.maxConcurrent]_vars
  <2> SUFFICES ASSUME IInv, Next, running' \ running # {}
               PROVE  /\ state = "open" => age >= settings.openMs
                      /\ state' # "open"
                      /\ Cardinality(running') <= settings.maxConcurrent
    BY DEF vars
  <2>1. PICK c \in Call : Admit(c)
    BY OnlyAdmits
  <2>2. Cardinality(running') <= settings.maxConcurrent
    BY <2>1, StepAdmit
  <2> QED
    BY <2>1, <2>2 DEF Admit, CircuitAllows, StateNow, Cooled
<1> QED
  BY <1>1, Invariance, PTL DEF Spec, AdmissionRules

\* A half-open circuit lets no more calls through than its probes, even when
\* calls of earlier episodes are still out.
THEOREM ProbesBounded == Spec => ProbeBudget
<1>1. IInv /\ [Next]_vars =>
        [state' = "half-open" /\ running' \ running # {} =>
           Cardinality(probing') <= settings.halfOpenProbes]_vars
  <2> SUFFICES ASSUME IInv, Next, running' \ running # {}, state' = "half-open"
               PROVE  Cardinality(probing') <= settings.halfOpenProbes
    BY DEF vars
  <2> QED
    BY OnlyAdmits, StepAdmit
<1> QED
  BY <1>1, Invariance, PTL DEF Spec, ProbeBudget

\* While configure leaves the threshold alone, a closed circuit never has a
\* threshold's worth of failures behind it.
THEOREM ClosedHealthy == ASSUME OneThreshold PROVE Spec => []ClosedIsHealthy
<1>1. Init => ClosedIsHealthy
  BY SettingsType DEF Init, ClosedIsHealthy
<1>2. TypeOK /\ ClosedIsHealthy /\ [Next]_vars => ClosedIsHealthy'
  <2> SUFFICES ASSUME TypeOK, ClosedIsHealthy, [Next]_vars, state' = "closed"
               PROVE  consecutiveFailures' < settings'.failureThreshold
    BY DEF ClosedIsHealthy
  <2> USE DEF TypeOK, ClosedIsHealthy
  <2>0. settings.failureThreshold \in Nat \ {0}
    BY SettingsType
  <2>1. CASE Look \/ RefuseBusy
    BY <2>1 DEF Look, RefuseBusy, Refresh, StateNow
  <2>2. ASSUME NEW c \in Call, Admit(c)
        PROVE  consecutiveFailures' < settings'.failureThreshold
    BY <2>2 DEF Admit, StateNow
  <2>3. ASSUME NEW c \in Call, Finish(c)
        PROVE  consecutiveFailures' < settings'.failureThreshold
    <3>1. CASE RecordFailure
      BY <2>0, <2>3, <3>1, SettingsType, HostGateAssumption DEF Finish, RecordFailure, Trip, Smaller
    <3>2. CASE RecordSuccess
      BY <2>0, <2>3, <3>2 DEF Finish, RecordSuccess
    <3>3. CASE UNCHANGED gate
      BY <2>3, <3>3 DEF Finish, gate
    <3> QED
      BY <2>3, <3>1, <3>2, <3>3 DEF Finish
  <2>4. CASE Open \/ Reset
    BY <2>0, <2>4 DEF Open, Reset, Trip
  <2>5. ASSUME NEW s \in Settings, Configure(s)
        PROVE  consecutiveFailures' < settings'.failureThreshold
    BY <2>5, OneThreshold DEF Configure, OneThreshold
  <2>6. CASE Tick \/ UNCHANGED vars
    BY <2>6 DEF Tick, vars, gate
  <2> QED
    BY <2>1, <2>2, <2>3, <2>4, <2>5, <2>6 DEF Next
<1> QED
  BY <1>1, <1>2, TypeCorrect, PTL DEF Spec

-----------------------------------------------------------------------------
\* While every result was recorded, the probes a half-open circuit has claimed
\* are exactly the calls it let through, and all of them are still out.
OutInv ==
  state = "half-open" /\ ~unrecorded =>
    probing \subseteq running /\ Cardinality(probing) = probes

LEMMA StepOut == IInv /\ OutInv /\ [Next]_vars => OutInv'
<1> SUFFICES ASSUME IInv, OutInv, [Next]_vars, state' = "half-open", ~unrecorded'
             PROVE  probing' \subseteq running' /\ Cardinality(probing') = probes'
  BY DEF OutInv
<1> USE DEF IInv, TypeOK
<1>1. /\ StateNow = "half-open" /\ ~unrecorded =>
           ProbingNow \subseteq running /\ Cardinality(ProbingNow) = ProbesNow
  BY NoCalls DEF OutInv, StateNow, ProbesNow, ProbingNow, Cooled
<1>2. CASE Look \/ RefuseBusy
  BY <1>1, <1>2 DEF Look, RefuseBusy, Refresh
<1>3. ASSUME NEW c \in Call, Admit(c)
      PROVE  probing' \subseteq running' /\ Cardinality(probing') = probes'
  <2>1. /\ StateNow = "half-open" /\ ~unrecorded /\ c \notin running
        /\ probes' = ProbesNow + 1 /\ probing' = ProbingNow \cup {c}
        /\ running' = running \cup {c}
    BY <1>3 DEF Admit
  <2>2. c \notin ProbingNow /\ ProbingNow \in SUBSET Call
    BY <1>1, <2>1
  <2>3. Cardinality(probing') = ProbesNow + 1
    BY <1>1, <2>1, <2>2, CountCalls
  <2> QED
    BY <1>1, <2>1, <2>3
<1>4. ASSUME NEW c \in Call, Finish(c)
      PROVE  FALSE
  BY <1>4 DEF Finish, RecordFailure, RecordSuccess, Trip, gate
<1>5. CASE Open \/ Reset
  BY <1>5 DEF Open, Reset, Trip
<1>6. ASSUME NEW s \in Settings, Configure(s)
      PROVE  probing' \subseteq running' /\ Cardinality(probing') = probes'
  BY <1>6, NoCalls DEF Configure, OutInv
<1>7. CASE Tick
  BY <1>7 DEF Tick
<1>8. CASE UNCHANGED vars
  BY <1>8 DEF vars, gate, OutInv
<1> QED
  BY <1>2, <1>3, <1>4, <1>5, <1>6, <1>7, <1>8 DEF Next

\* A half-open circuit is never stuck, as long as every call is recorded as a
\* success or a failure: it admits another probe, or a probe of its own is still
\* out and will decide it, however many late results of earlier episodes come in
\* between (http-resilience.ts:98-124; guide http-client.md:101-103).  It is
\* what the liveness property HalfOpenDecided rests on.
HalfOpenMoves ==
  state = "half-open" /\ ~unrecorded => CircuitAllows \/ probing \cap running # {}

THEOREM HalfOpenNeverStuck == Spec => []HalfOpenMoves
<1>1. Init => OutInv
  BY DEF Init, OutInv
<1>2. IInv /\ OutInv => HalfOpenMoves
  <2> SUFFICES ASSUME IInv, OutInv, state = "half-open", ~unrecorded, ~CircuitAllows
               PROVE  probing \cap running # {}
    BY DEF HalfOpenMoves
  <2>1. probes >= settings.halfOpenProbes /\ probes \in Nat /\ settings.halfOpenProbes \in Nat \ {0}
    BY SettingsType DEF IInv, TypeOK, CircuitAllows, StateNow, ProbesNow, Cooled
  <2>2. probing \subseteq running /\ Cardinality(probing) = probes
    BY DEF OutInv
  <2>3. probing # {}
    BY <2>1, <2>2, NoCalls
  <2> QED
    BY <2>2, <2>3
<1> QED
  BY <1>1, <1>2, StepOut, Invariance, PTL DEF Spec
=============================================================================
