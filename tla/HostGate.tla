------------------------------ MODULE HostGate ------------------------------
(***************************************************************************)
(* The circuit breaker and bulkhead in front of one host: HostGate         *)
(* (http-resilience.ts), as HttpResilience hands it to every outbound call *)
(* of one process, and the operator's open, reset and configure            *)
(* (http-resilience.service.ts).                                           *)
(*                                                                         *)
(* The code between two awaits is one step: admitting a call, recording    *)
(* what it came to.  Calls overlap, so one that was admitted under one     *)
(* state of the circuit reports under another.                             *)
(***************************************************************************)
EXTENDS Integers, FiniteSets

CONSTANTS Call,         \* the callers in this process
          Settings,     \* the settings the gate may be given
          Outcomes,     \* what a call may come to
          Operators,    \* what operators do: subset of {"open", "reset", "configure"}
          MaxAge,       \* bound: the clock stops counting past this age
          MaxFailures   \* bound: consecutiveFailures saturates here

ASSUME HostGateAssumption ==
  /\ Settings \subseteq [failureThreshold : Nat \ {0}, openMs : Nat,
                         halfOpenProbes : Nat \ {0}, maxConcurrent : Nat \ {0}]
  /\ Outcomes \subseteq {"success", "failure", "unclassified"}
  /\ MaxAge \in Nat /\ MaxFailures \in Nat
  /\ \A s \in Settings : s.openMs <= MaxAge /\ s.failureThreshold <= MaxFailures
  /\ IsFiniteSet(Call)

VARIABLES
  state, consecutiveFailures, inFlight, probes, settings,
  age,       \* clock() - openedAt while the circuit is open, up to MaxAge
  running,   \* the calls in flight
  probing,   \* history: the calls admitted since the circuit last went half-open
  unrecorded \* history: did a call end in an error that is not recorded?

gate == <<state, consecutiveFailures, probes, age>>
vars == <<gate, inFlight, settings, running, probing, unrecorded>>

States == {"closed", "open", "half-open"}

TypeOK ==
  /\ state \in States
  /\ consecutiveFailures \in 0..MaxFailures
  /\ inFlight \in Nat /\ probes \in Nat
  /\ settings \in Settings
  /\ age \in 0..MaxAge
  /\ running \subseteq Call /\ probing \subseteq Call
  /\ unrecorded \in BOOLEAN

Init ==
  /\ state = "closed"
  /\ consecutiveFailures = 0 /\ inFlight = 0 /\ probes = 0 /\ age = 0
  /\ settings \in Settings
  /\ running = {} /\ probing = {} /\ unrecorded = FALSE

-----------------------------------------------------------------------------
Smaller(a, b) == IF a < b THEN a ELSE b

\* refresh(): the first look at an open circuit after openMs finds it half-open.
Cooled == state = "open" /\ age >= settings.openMs
StateNow == IF Cooled THEN "half-open" ELSE state
ProbesNow == IF Cooled THEN 0 ELSE probes
ProbingNow == IF Cooled THEN {} ELSE probing

Refresh ==
  /\ state' = StateNow
  /\ probes' = ProbesNow
  /\ probing' = ProbingNow

\* admit() lets the call through the circuit: closed, or a probe is left.
CircuitAllows ==
  \/ StateNow = "closed"
  \/ StateNow = "half-open" /\ ProbesNow < settings.halfOpenProbes

\* snapshot(), and a call refused by the circuit: nothing but refresh().
Look ==
  /\ Refresh
  /\ UNCHANGED <<consecutiveFailures, age, inFlight, settings, running, unrecorded>>

\* Mutant of RefuseBusy: a probe is given back, whether or not one was claimed.
RefuseReturnsProbe ==
  /\ CircuitAllows
  /\ inFlight >= settings.maxConcurrent
  /\ state' = StateNow
  /\ probes' = ProbesNow - 1
  /\ probing' = ProbingNow
  /\ UNCHANGED <<consecutiveFailures, age, inFlight, settings, running, unrecorded>>

\* A call refused by the bulkhead: a probe it had claimed is given back.
RefuseBusy ==
  /\ CircuitAllows
  /\ inFlight >= settings.maxConcurrent
  /\ Refresh
  /\ UNCHANGED <<consecutiveFailures, age, inFlight, settings, running, unrecorded>>

\* Mutant of Admit: a probe is checked for and not claimed.
AdmitUnclaimed(c) ==
  /\ c \notin running
  /\ CircuitAllows
  /\ inFlight < settings.maxConcurrent
  /\ state' = StateNow
  /\ probes' = ProbesNow
  /\ IF StateNow = "half-open"
       THEN probing' = ProbingNow \cup {c}
       ELSE UNCHANGED probing
  /\ inFlight' = inFlight + 1
  /\ running' = running \cup {c}
  /\ UNCHANGED <<consecutiveFailures, age, settings, unrecorded>>

\* run() up to its await: the call is admitted and on its way.
Admit(c) ==
  /\ c \notin running
  /\ CircuitAllows
  /\ inFlight < settings.maxConcurrent
  /\ state' = StateNow
  /\ IF StateNow = "half-open"
       THEN probes' = ProbesNow + 1 /\ probing' = ProbingNow \cup {c}
       ELSE UNCHANGED <<probes, probing>>
  /\ inFlight' = inFlight + 1
  /\ running' = running \cup {c}
  /\ UNCHANGED <<consecutiveFailures, age, settings, unrecorded>>

\* trip(): open from now on.
Trip ==
  /\ state' = "open"
  /\ age' = 0
  /\ probes' = 0

\* Mutant of RecordFailure: a failing probe counts like any other call.
RecordFailureClosed ==
  LET n == Smaller(consecutiveFailures + 1, MaxFailures)
  IN  /\ consecutiveFailures' = n
      /\ IF state = "closed" /\ n >= settings.failureThreshold
           THEN Trip
           ELSE UNCHANGED <<state, age, probes>>

\* recordFailure()
RecordFailure ==
  LET n == Smaller(consecutiveFailures + 1, MaxFailures)
  IN  /\ consecutiveFailures' = n
      /\ IF state = "half-open" \/ n >= settings.failureThreshold
           THEN Trip
           ELSE UNCHANGED <<state, age, probes>>

\* recordSuccess()
RecordSuccess ==
  /\ consecutiveFailures' = 0
  /\ IF state = "half-open"
       THEN state' = "closed" /\ probes' = 0
       ELSE UNCHANGED <<state, probes>>
  /\ UNCHANGED age

\* Mutant of Finish: the slot is freed only when the outcome was recorded.
FinishLeaks(c) ==
  /\ c \in running
  /\ \/ "failure" \in Outcomes /\ RecordFailure /\ UNCHANGED unrecorded /\ inFlight' = inFlight - 1
     \/ "success" \in Outcomes /\ RecordSuccess /\ UNCHANGED unrecorded /\ inFlight' = inFlight - 1
     \/ "unclassified" \in Outcomes /\ unrecorded' = TRUE /\ UNCHANGED <<gate, inFlight>>
  /\ running' = running \ {c}
  /\ UNCHANGED <<settings, probing>>

\* run() after its await: a failing status or a dependency failure; an answer,
\* a 4xx included; or an error that is neither and that no branch records.
Finish(c) ==
  /\ c \in running
  /\ \/ "failure" \in Outcomes /\ RecordFailure /\ UNCHANGED unrecorded
     \/ "success" \in Outcomes /\ RecordSuccess /\ UNCHANGED unrecorded
     \/ "unclassified" \in Outcomes /\ unrecorded' = TRUE /\ UNCHANGED gate
  /\ inFlight' = inFlight - 1
  /\ running' = running \ {c}
  /\ UNCHANGED <<settings, probing>>

-----------------------------------------------------------------------------
\* open()
Open ==
  /\ "open" \in Operators
  /\ Trip
  /\ UNCHANGED <<consecutiveFailures, inFlight, settings, running, probing, unrecorded>>

\* Mutant of Reset: the circuit closes with its failures still counted.
ResetKeepsFailures ==
  /\ "reset" \in Operators
  /\ state' = "closed" /\ probes' = 0
  /\ UNCHANGED <<consecutiveFailures, age, inFlight, settings, running, probing, unrecorded>>

\* reset()
Reset ==
  /\ "reset" \in Operators
  /\ state' = "closed" /\ consecutiveFailures' = 0 /\ probes' = 0
  /\ UNCHANGED <<age, inFlight, settings, running, probing, unrecorded>>

\* configure(), and the snapshot() the route answers with.
Configure(s) ==
  /\ "configure" \in Operators
  /\ settings' = s
  /\ IF state = "open" /\ age >= s.openMs
       THEN state' = "half-open" /\ probes' = 0 /\ probing' = {}
       ELSE UNCHANGED <<state, probes, probing>>
  /\ UNCHANGED <<consecutiveFailures, age, inFlight, running, unrecorded>>

Tick ==
  /\ state = "open" /\ age < MaxAge
  /\ age' = age + 1
  /\ UNCHANGED <<state, consecutiveFailures, probes, inFlight, settings, running, probing, unrecorded>>

Next ==
  \/ Look \/ RefuseBusy
  \/ \E c \in Call : Admit(c) \/ Finish(c)
  \/ Open \/ Reset \/ \E s \in Settings : Configure(s)
  \/ Tick

Spec == Init /\ [][Next]_vars

\* The clock runs, drivers answer or time out, and the host keeps being called.
Fairness ==
  /\ WF_vars(Tick)
  /\ \A c \in Call : WF_vars(Finish(c))
  /\ WF_vars(\E c \in Call : Admit(c))

FairSpec == Spec /\ Fairness

-----------------------------------------------------------------------------
\* The bulkhead's counter is the number of calls in flight: no path through
\* run() leaks or double-frees a slot (lines 98-124).
BulkheadExact == inFlight = Cardinality(running)

\* No admission goes to a host whose circuit is open and not cooled, nor beyond
\* maxConcurrent (guide http-client.md:98-113).
AdmissionRules ==
  [][running' \ running # {} =>
       /\ state = "open" => age >= settings.openMs
       /\ state' # "open"
       /\ Cardinality(running') <= settings.maxConcurrent]_vars

\* However calls overlap, a circuit lets at most halfOpenProbes calls through
\* from the moment it goes half-open until it closes or opens again, under the
\* settings of each admission.
ProbeBudget ==
  [][state' = "half-open" /\ running' \ running # {} =>
       Cardinality(probing') <= settings.halfOpenProbes]_vars

\* A closed circuit never has a whole run of failures behind it: neither a late
\* result, nor a probe, nor an operator's reset leaves it closed at the
\* threshold (settings of one failureThreshold).
ClosedIsHealthy ==
  state = "closed" => consecutiveFailures < settings.failureThreshold

\* A half-open circuit is decided, whatever probes of earlier episodes report
\* late: as long as every call is recorded as a success or a failure and the
\* host keeps being called, it closes or opens again.
HalfOpenDecided == state = "half-open" ~> state # "half-open" \/ unrecorded

\* guide http-client.md:101-103, without that proviso: half-open "lets
\* halfOpenProbes calls through; a success closes it, a failure opens it again".
ProbesDecide == state = "half-open" ~> state # "half-open"
=============================================================================
