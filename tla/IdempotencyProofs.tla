-------------------------- MODULE IdempotencyProofs --------------------------
(***************************************************************************)
(* Idempotent requests, for any number of retries and misuses of a key.    *)
(* That the requests use the lock as a lease, and that an answer is final  *)
(* and a replay one that was given, hold unconditionally; what the row     *)
(* means to its readers needs the lock to outlast the handler (~Lossy),    *)
(* which LockProofs derives from Timely.                                   *)
(***************************************************************************)
EXTENDS Idempotency, FiniteSetTheorems, TLAPS

Completed == Live /\ record.status = "completed"

\* The requests past their reading of the row, whose pending row it then is.
Running == {"handle", "complete", "undo"}

\* A request is answered as it leaves, a response that somebody got is what its
\* request was answered with, and so is a stored one, expired or not.
Left == {"release", "done", "crashed"}
Given(q) == q \in Request /\ answer[q] = q

AnswerInv ==
  /\ \A r \in Request : answer[r] # None => pc[r] \in Left
  /\ \A r \in Request : answer[r] \in Request => Given(answer[r])
  /\ record # None /\ record.status = "completed" => Given(record.response)

\* Only the owner of the lock is inside.
OwnerInv == \A r \in Request : pc[r] \in Inside => owner = r

\* What the request inside knows about the row.
RowInv ==
  \A r \in Request :
    /\ pc[r] \in Running => Live /\ record.status = "pending" /\ record.print = PrintOf[r]
    /\ pc[r] = "discard" => ~Live
    /\ pc[r] = "create" => record = None

\* A stored response is that of a request with the row's print, which has
\* run, was answered with it, and is not answered again.
StoredInv ==
  Completed => /\ record.response \in Request
               /\ PrintOf[record.response] = record.print
               /\ answer[record.response] = record.response
               /\ pc[record.response] \in {"release", "done", "crashed"}

\* Without a fault, a pending row has its request inside.
PendingInv ==
  faults = 0 /\ Live /\ record.status = "pending" => \E r \in Request : pc[r] \in Running

\* The effect of a stored or about to be stored response is not charged to a
\* fault; every other one is.
Unpaid == Completed \/ \E r \in Request : pc[r] = "complete"
EffectInv == Cardinality(effects) <= faults + (IF Unpaid THEN 1 ELSE 0)

\* The part of ReplayFaithful that needs the lock.
PrintInv == \A r \in Request : answer[r] \in Request => PrintOf[answer[r]] = PrintOf[r]

LockInv == OwnerInv /\ RowInv /\ StoredInv /\ PrintInv /\ PendingInv /\ EffectInv

-----------------------------------------------------------------------------
LEMMA InitType == Init => TypeOK
BY IdempotencyAssumption DEF Init, TypeOK, PCs, Inside

\* The pc of a request that moves, and of the others.
LEMMA Moves ==
  ASSUME TypeOK, NEW r \in Request, NEW from, NEW to \in PCs, Goto(r, from, to)
  PROVE  /\ pc[r] = from /\ pc'[r] = to /\ pc' \in [Request -> PCs]
         /\ \A s \in Request : s # r => pc'[s] = pc[s]
BY DEF TypeOK, Goto

LEMMA StepType == TypeOK /\ [Next]_vars => TypeOK'
<1> SUFFICES ASSUME TypeOK, [Next]_vars PROVE TypeOK'
  OBVIOUS
<1> USE IdempotencyAssumption DEF TypeOK, PCs, Inside, Goto, Answer, Fault, Answers, Refusals
<1>1. ASSUME NEW r \in Request, RequestStep(r)
      PROVE  TypeOK'
  <2>1. CASE Acquire(r) \/ Busy(r) \/ HandlerReturns(r) \/ HandlerThrows(r)
    BY <2>1 DEF Acquire, Busy, HandlerReturns, HandlerThrows
  <2>2. CASE Peek(r)
    BY <2>2 DEF Peek, Replayable, Mismatch, Live, Record
  <2>3. CASE ReadLocked(r)
    BY <2>3 DEF ReadLocked, Replayable, Mismatch, Live, Record
  <2>4. CASE Discard(r) \/ Undo(r) \/ Release(r)
    BY <2>4 DEF Discard, Undo, Release
  <2>5. CASE Create(r)
    BY <2>5 DEF Create, Record
  <2>6. CASE Complete(r)
    BY <2>6 DEF Complete, Record
  <2>7. CASE CompleteFails(r)
    BY <2>7 DEF CompleteFails
  <2> QED
    BY <1>1, <2>1, <2>2, <2>3, <2>4, <2>5, <2>6, <2>7 DEF RequestStep
<1>2. ASSUME NEW r \in Request, RequestFault(r) \/ TimePasses(r)
      PROVE  TypeOK'
  BY <1>2 DEF RequestFault, QueryFails, Crash, TimePasses
<1>3. CASE LockExpires \/ Sweep
  BY <1>3 DEF LockExpires, Sweep
<1>4. CASE RecordExpires
  BY <1>4 DEF RecordExpires, Record, Live
<1>5. CASE UNCHANGED vars
  BY <1>5 DEF vars
<1> QED
  BY <1>1, <1>2, <1>3, <1>4, <1>5 DEF Next

THEOREM TypeCorrect == Spec => []TypeOK
BY InitType, StepType, PTL DEF Spec

-----------------------------------------------------------------------------
\* One step of the requests is one step of the lease, or none.
LEMMA StepLease == TypeOK /\ [Next]_vars => [TheLease!Next]_(TheLease!vars)
<1> SUFFICES ASSUME TypeOK, [Next]_vars PROVE [TheLease!Next]_(TheLease!vars)
  OBVIOUS
<1> DEFINE Believers == {r \in Request : pc[r] \in Inside}
<1> USE IdempotencyAssumption DEF TypeOK, TheLease!vars, TheLease!Next
<1>1. ASSUME NEW r \in Request, pc[r] \in Inside, owner' = owner,
             Believers' = Believers \ {r}
      PROVE  TheLease!Next
  <2>1. TheLease!Leave(r)
    BY <1>1 DEF TheLease!Leave
  <2> QED
    BY <2>1
<1>2. ASSUME NEW r \in Request, RequestStep(r) \/ RequestFault(r)
      PROVE  [TheLease!Next]_(TheLease!vars)
  <2>1. CASE Acquire(r)
    <3>1. owner = None /\ owner' = r /\ r \notin Believers /\ Believers' = Believers \cup {r}
      BY <2>1 DEF Acquire, Goto, Inside, PCs
    <3>2. TheLease!Grant(r)
      BY <3>1 DEF TheLease!Grant
    <3> QED
      BY <3>2
  <2>2. CASE Release(r)
    <3>1. r \notin Believers /\ Believers' = Believers
      BY <2>2 DEF Release, Goto, Inside, PCs
    <3>2. CASE owner = r
      <4>1. TheLease!Free
        BY <2>2, <3>1, <3>2 DEF Release, TheLease!Free
      <4> QED
        BY <4>1
    <3>3. CASE owner # r
      BY <2>2, <3>1, <3>3 DEF Release
    <3> QED
      BY <3>2, <3>3
  <2>3. ASSUME NEW to \in PCs, Goto(r, pc[r], to), owner' = owner
        PROVE  [TheLease!Next]_(TheLease!vars) \/ (pc[r] \notin Inside /\ to \in Inside)
    <3>1. pc'[r] = to /\ \A s \in Request : s # r => pc'[s] = pc[s]
      BY <2>3, Moves
    <3>2. CASE pc[r] \in Inside /\ to \notin Inside
      <4>1. Believers' = Believers \ {r}
        BY <3>1, <3>2
      <4> QED
        BY <1>1, <2>3, <3>2, <4>1
    <3>3. CASE pc[r] \in Inside <=> to \in Inside
      BY <2>3, <3>1, <3>3
    <3> QED
      BY <3>2, <3>3
  <2>4. CASE RequestStep(r) /\ ~Acquire(r) /\ ~Release(r)
    <3>1. PICK to \in PCs : /\ Goto(r, pc[r], to) /\ owner' = owner
                            /\ to \in Inside => pc[r] \in Inside
      BY <2>4 DEF RequestStep, Busy, Peek, ReadLocked, Discard, Create, Complete,
        CompleteFails, HandlerReturns, HandlerThrows, Undo, Goto, PCs, Inside
    <3> QED
      BY <2>3, <3>1
  <2>5. CASE RequestFault(r)
    <3>1. PICK to \in PCs : Goto(r, pc[r], to) /\ owner' = owner /\ to \notin Inside
      BY <2>5 DEF RequestFault, QueryFails, Crash, Goto, PCs, Inside
    <3> QED
      BY <2>3, <3>1
  <2> QED
    BY <1>2, <2>1, <2>2, <2>4, <2>5
<1>3. CASE LockExpires
  <2>1. TheLease!Free
    BY <1>3 DEF LockExpires, TheLease!Free
  <2> QED
    BY <2>1
<1>4. CASE RecordExpires \/ Sweep \/ UNCHANGED vars \/ \E r \in Request : TimePasses(r)
  BY <1>4 DEF RecordExpires, Sweep, vars, TimePasses
<1> QED
  BY <1>2, <1>3, <1>4 DEF Next

\* The requests use the lock as Lease promises it: they enter by a grant, and
\* free the key by its owner's release or its TTL.
THEOREM LeaseUse == Spec => UsesLease
<1>1. Init => TheLease!Init
  BY DEF Init, TheLease!Init, Inside
<1> QED
  BY <1>1, StepLease, TypeCorrect, PTL DEF Spec, TheLease!Spec, UsesLease

-----------------------------------------------------------------------------
LEMMA InitAnswer == Init => AnswerInv
BY IdempotencyAssumption DEF Init, AnswerInv

\* A request that has answered keeps its answer.
LEMMA StepAnswered ==
  ASSUME TypeOK, AnswerInv, [Next]_vars, NEW s \in Request, answer[s] # None
  PROVE  answer'[s] = answer[s] /\ pc'[s] \in Left
<1> USE DEF TypeOK, AnswerInv, Left, Goto, Answer
<1>1. ASSUME NEW r \in Request, RequestStep(r)
      PROVE  answer'[s] = answer[s] /\ pc'[s] \in Left
  BY <1>1 DEF RequestStep, Acquire, Busy, Peek, ReadLocked, Discard, Create, Complete,
    CompleteFails, HandlerReturns, HandlerThrows, Undo, Release
<1>2. ASSUME NEW r \in Request, RequestFault(r) \/ TimePasses(r)
      PROVE  answer'[s] = answer[s] /\ pc'[s] \in Left
  BY <1>2 DEF RequestFault, QueryFails, Crash, TimePasses
<1>3. CASE LockExpires \/ RecordExpires \/ Sweep \/ UNCHANGED vars
  BY <1>3 DEF LockExpires, RecordExpires, Sweep, vars
<1> QED
  BY <1>1, <1>2, <1>3 DEF Next

LEMMA StepAnswer == TypeOK /\ AnswerInv /\ [Next]_vars => AnswerInv'
<1> SUFFICES ASSUME TypeOK, AnswerInv, [Next]_vars PROVE AnswerInv'
  OBVIOUS
<1> USE IdempotencyAssumption DEF TypeOK, Refusals
<1>0. \A q : Given(q) => Given(q)'
  BY StepAnswered DEF Given
<1>1. ASSUME NEW r \in Request, RequestStep(r) \/ RequestFault(r)
      PROVE  AnswerInv'
  <2>1. /\ \A s \in Request \ {r} : answer'[s] = answer[s]
        /\ answer'[r] # answer[r] => pc'[r] \in Left
    BY <1>1 DEF RequestStep, Acquire, Busy, Peek, ReadLocked, Discard, Create, Complete,
      CompleteFails, HandlerReturns, HandlerThrows, Undo, Release, RequestFault, QueryFails,
      Crash, Goto, Answer, Left
  <2>2. \A s \in Request : answer'[s] # None => pc'[s] \in Left
    BY <2>1, StepAnswered
  <2>3. CASE Peek(r) \/ ReadLocked(r)
    <3>1. answer' = answer \/ answer'[r] \in Refusals \/ Given(answer'[r])
      BY <2>3 DEF Peek, ReadLocked, Replayable, Live, Answer, AnswerInv
    <3>2. record' = record
      BY <2>3 DEF Peek, ReadLocked
    <3>3. \A s \in Request : answer'[s] \in Request => Given(answer'[s])
      BY <2>1, <3>1 DEF AnswerInv
    <3> QED
      BY <1>0, <2>2, <3>2, <3>3 DEF AnswerInv
  <2>4. CASE Complete(r)
    <3>1. answer'[r] = r /\ record'.response = r
      BY <2>4 DEF Complete, Answer, Record
    <3>2. Given(r)'
      BY <3>1 DEF Given
    <3> QED
      BY <1>0, <2>1, <2>2, <3>1, <3>2 DEF AnswerInv
  <2>5. CASE Undo(r) \/ RequestFault(r)
    <3>1. \A s \in Request : answer'[s] \in Request => answer'[s] = answer[s]
      BY <2>1, <2>5 DEF Undo, RequestFault, QueryFails, Crash, Answer
    <3>2. record' \in {record, None}
      BY <2>5 DEF Undo, RequestFault, QueryFails, Crash
    <3> QED
      BY <1>0, <2>2, <3>1, <3>2 DEF AnswerInv
  <2>6. CASE Create(r)
    <3>1. answer' = answer /\ (record' = record \/ record'.status = "pending")
      BY <2>6 DEF Create
    <3> QED
      BY <1>0, <2>2, <3>1 DEF AnswerInv
  <2>7. CASE Acquire(r) \/ Busy(r) \/ Discard(r) \/ CompleteFails(r) \/ HandlerReturns(r)
             \/ HandlerThrows(r) \/ Release(r)
    <3>1. answer' = answer /\ record' \in {record, None}
      BY <2>7 DEF Acquire, Busy, Discard, CompleteFails, HandlerReturns, HandlerThrows, Release
    <3> QED
      BY <1>0, <2>2, <3>1 DEF AnswerInv
  <2> QED
    BY <1>1, <2>3, <2>4, <2>5, <2>6, <2>7 DEF RequestStep
<1>2. CASE LockExpires \/ Sweep \/ UNCHANGED vars \/ \E r \in Request : TimePasses(r)
  <2>1. answer' = answer /\ pc' = pc /\ record' \in {record, None}
    BY <1>2 DEF LockExpires, Sweep, vars, TimePasses
  <2> QED
    BY <2>1 DEF AnswerInv, Given
<1>3. CASE RecordExpires
  <2>1. answer' = answer /\ pc' = pc
    BY <1>3 DEF RecordExpires
  <2>2. record # None /\ record'.status = record.status /\ record'.response = record.response
    BY <1>3 DEF RecordExpires, Live, Record
  <2> QED
    BY <2>1, <2>2 DEF AnswerInv, Given
<1> QED
  BY <1>1, <1>2, <1>3 DEF Next

THEOREM AnswerInvariance == Spec => [](TypeOK /\ AnswerInv)
<1>1. TypeOK /\ AnswerInv /\ [Next]_vars => (TypeOK /\ AnswerInv)'
  BY StepType, StepAnswer
<1> QED
  BY <1>1, InitType, InitAnswer, PTL DEF Spec

\* However the lock behaves, a replayed response, and a stored one, is a response
\* the interceptor gave to the request it names: never one of a handler that
\* failed, or whose completion did.
RealAnswers ==
  /\ \A r \in Request : answer[r] \in Request => answer[answer[r]] = answer[r]
  /\ Live /\ record.status = "completed" => answer[record.response] = record.response

THEOREM ReplaysAreReal == Spec => []RealAnswers
<1>1. AnswerInv => RealAnswers
  BY DEF AnswerInv, Given, RealAnswers, Live
<1> QED
  BY <1>1, AnswerInvariance, PTL

\* However the lock behaves, a request is answered once: the loop that waits for the
\* lock, the holder and the catch never answer it a second time.
AnswersFinal == [][\A r \in Request : answer[r] # None => answer'[r] = answer[r]]_answer

THEOREM AnsweredOnce == Spec => AnswersFinal
<1>1. TypeOK /\ AnswerInv /\ [Next]_vars =>
        [\A r \in Request : answer[r] # None => answer'[r] = answer[r]]_answer
  BY StepAnswered
<1> QED
  BY <1>1, AnswerInvariance, PTL DEF Spec, AnswersFinal

-----------------------------------------------------------------------------
LEMMA InitLock == Init => LockInv
<1> SUFFICES ASSUME Init PROVE LockInv
  OBVIOUS
<1>1. Cardinality(effects) = 0
  BY FS_EmptySet DEF Init
<1>2. EffectInv
  BY <1>1 DEF EffectInv, Init
<1>3. OwnerInv /\ RowInv /\ StoredInv /\ PrintInv /\ PendingInv
  BY IdempotencyAssumption DEF Init, OwnerInv, RowInv, StoredInv, PrintInv, PendingInv,
    Completed, Live, Inside, Running
<1> QED
  BY <1>2, <1>3 DEF LockInv

\* While the lock outlasts the handler, whoever is inside owns it.
LEMMA StepOwner == ASSUME ~Lossy, TypeOK, OwnerInv, [Next]_vars PROVE OwnerInv'
<1> USE IdempotencyAssumption DEF TypeOK, OwnerInv, Goto, PCs, Inside
<1>1. ASSUME NEW r \in Request, RequestStep(r)
      PROVE  OwnerInv'
  <2>1. CASE Acquire(r) \/ Release(r)
    BY <2>1 DEF Acquire, Release
  <2>2. CASE ~Acquire(r) /\ ~Release(r)
    <3>1. owner' = owner /\ \A s \in Request : pc'[s] \in Inside => pc[s] \in Inside
      BY <1>1, <2>2 DEF RequestStep, Busy, Peek, ReadLocked, Discard, Create, Complete,
        CompleteFails, HandlerReturns, HandlerThrows, Undo
    <3> QED
      BY <3>1
  <2> QED
    BY <2>1, <2>2
<1>2. ASSUME NEW r \in Request, RequestFault(r) \/ TimePasses(r)
      PROVE  OwnerInv'
  BY <1>2 DEF RequestFault, QueryFails, Crash, TimePasses
<1>3. CASE LockExpires
  BY <1>3 DEF LockExpires
<1>4. CASE RecordExpires \/ Sweep \/ UNCHANGED vars
  BY <1>4 DEF RecordExpires, Sweep, vars
<1> QED
  BY <1>1, <1>2, <1>3, <1>4 DEF Next

\* The row a request creates is a row.
LEMMA NewRow ==
  ASSUME NEW r \in Request
  PROVE  [status |-> "pending", print |-> PrintOf[r], response |-> None, expired |-> FALSE] # None
<1>1. [status |-> "pending", print |-> PrintOf[r], response |-> None, expired |-> FALSE] \in Record
  BY DEF Record
<1> QED
  BY <1>1, IdempotencyAssumption

\* With one request inside, nobody else touches the row it has read.
LEMMA Alone ==
  ASSUME OwnerInv, NEW r \in Request, NEW s \in Request, pc[r] \in Inside, pc[s] \in Inside
  PROVE  r = s
BY DEF OwnerInv

\* A set of effects grows by one.
LEMMA CountEffects ==
  ASSUME TypeOK, NEW r \in Request
  PROVE  /\ Cardinality(effects) \in Nat /\ Cardinality(effects \cup {r}) \in Nat
         /\ Cardinality(effects \cup {r}) <= Cardinality(effects) + 1
<1>1. IsFiniteSet(effects)
  BY IdempotencyAssumption, FS_Subset DEF TypeOK
<1>2. /\ IsFiniteSet(effects \cup {r})
      /\ Cardinality(effects \cup {r})
           = IF r \in effects THEN Cardinality(effects) ELSE Cardinality(effects) + 1
  BY <1>1, FS_AddElement
<1>3. Cardinality(effects) \in Nat /\ Cardinality(effects \cup {r}) \in Nat
  BY <1>1, <1>2, FS_CardinalityType
<1> QED
  BY <1>2, <1>3

\* The row, its stored response and its pending request, after one request's step.
LEMMA StepRow ==
  ASSUME TypeOK, LockInv, NEW r \in Request, RequestStep(r) \/ RequestFault(r)
  PROVE  RowInv' /\ StoredInv' /\ PendingInv'
<1> USE IdempotencyAssumption
    DEF LockInv, TypeOK, RowInv, StoredInv, PendingInv, Completed, Live, Goto, PCs, Inside,
        Running
<1>0. \A s \in Request : s # r /\ pc[r] \in Inside => pc[s] \notin Inside
  BY Alone
<1>1. CASE Acquire(r) \/ Busy(r) \/ Release(r)
  BY <1>1 DEF Acquire, Busy, Release
<1>2. CASE Peek(r)
  <2>1. /\ pc[r] = "peek" /\ pc'[r] \in {"done", "asking"}
        /\ \A s \in Request : s # r => pc'[s] = pc[s] /\ answer'[s] = answer[s]
        /\ UNCHANGED <<record, faults>>
    BY <1>2 DEF Peek, Mismatch, Replayable, Answer
  <2> QED
    BY <2>1
<1>3. CASE ReadLocked(r)
  BY <1>0, <1>3 DEF ReadLocked, Mismatch, Replayable, Answer, Record
<1>4. CASE Discard(r)
  BY <1>0, <1>4 DEF Discard
<1>5. CASE Create(r)
  <2>1. /\ record' = [status |-> "pending", print |-> PrintOf[r], response |-> None,
                      expired |-> FALSE]
        /\ UNCHANGED <<answer, faults>>
    BY <1>5 DEF Create
  <2>2. record' # None
    BY <2>1, NewRow
  <2>3. /\ pc'[r] = "handle" /\ pc[r] = "create"
        /\ \A s \in Request : s # r => pc'[s] = pc[s] /\ pc[s] \notin Inside
    BY <1>0, <1>5 DEF Create
  <2> QED
    BY <2>1, <2>2, <2>3
<1>6. CASE HandlerReturns(r) \/ HandlerThrows(r) \/ CompleteFails(r)
  <2>1. /\ pc[r] \in {"handle", "complete"} /\ pc'[r] \in {"complete", "undo"}
        /\ \A s \in Request : s # r => pc'[s] = pc[s]
        /\ UNCHANGED <<record, answer>>
    BY <1>6 DEF HandlerReturns, HandlerThrows, CompleteFails
  <2>2. ~Completed /\ RowInv'
    BY <2>1
  <2>3. StoredInv' /\ PendingInv'
    BY <2>1, <2>2
  <2> QED
    BY <2>2, <2>3
<1>7. CASE Complete(r)
  BY <1>0, <1>7 DEF Complete, Answer, Record
<1>8. CASE Undo(r)
  BY <1>0, <1>8 DEF Undo, Answer
<1>9. CASE RequestFault(r)
  BY <1>0, <1>9 DEF RequestFault, QueryFails, Crash, Fault, Answer
<1> QED
  BY <1>1, <1>2, <1>3, <1>4, <1>5, <1>6, <1>7, <1>8, <1>9 DEF RequestStep

\* No answer is another request's response.
LEMMA StepReplay ==
  ASSUME TypeOK, LockInv, NEW r \in Request, RequestStep(r) \/ RequestFault(r)
  PROVE  PrintInv'
<1> USE IdempotencyAssumption DEF TypeOK, PrintInv, Refusals, Answer
<1>1. LockInv /\ PrintInv
  BY DEF LockInv
<1>2. CASE Peek(r) \/ ReadLocked(r)
  BY <1>1, <1>2 DEF Peek, ReadLocked, Mismatch, Replayable, LockInv, StoredInv, Completed
<1>3. CASE Complete(r) \/ Undo(r) \/ RequestFault(r)
  BY <1>1, <1>3 DEF Complete, Undo, RequestFault, QueryFails, Crash
<1>4. CASE Acquire(r) \/ Busy(r) \/ Release(r) \/ Discard(r) \/ Create(r)
           \/ HandlerReturns(r) \/ HandlerThrows(r) \/ CompleteFails(r)
  BY <1>1, <1>4 DEF Acquire, Busy, Release, Discard, Create, HandlerReturns, HandlerThrows,
    CompleteFails
<1> QED
  BY <1>2, <1>3, <1>4 DEF RequestStep

\* Each effect beyond the first is paid for by a fault.
LEMMA StepEffect ==
  ASSUME TypeOK, LockInv, NEW r \in Request, RequestStep(r) \/ RequestFault(r)
  PROVE  EffectInv'
<1> USE IdempotencyAssumption DEF LockInv, TypeOK, Completed, Live, Goto, PCs, Inside, Running
<1>0. /\ Cardinality(effects) \in Nat /\ faults \in Nat
      /\ Cardinality(effects) <= faults + (IF Unpaid THEN 1 ELSE 0)
      /\ \A s \in Request : s # r /\ pc[r] \in Inside => pc[s] \notin Inside
  <2>1. Cardinality(effects) \in Nat
    BY CountEffects
  <2>2. \A s \in Request : s # r /\ pc[r] \in Inside => pc[s] \notin Inside
    BY Alone
  <2> QED
    BY <2>1, <2>2 DEF EffectInv
<1>1. CASE HandlerReturns(r)
  <2>1. ~Unpaid
    BY <1>0, <1>1 DEF HandlerReturns, Unpaid, RowInv
  <2>2. Unpaid'
    BY <1>1 DEF HandlerReturns, Unpaid
  <2>3. Cardinality(effects') <= Cardinality(effects) + 1 /\ faults' = faults
        /\ Cardinality(effects') \in Nat
    BY <1>1, CountEffects DEF HandlerReturns
  <2> QED
    BY <1>0, <2>1, <2>2, <2>3 DEF EffectInv
<1>2. CASE Complete(r)
  <2>1. Live /\ record' = [record EXCEPT !.status = "completed", !.response = r]
    BY <1>2 DEF Complete, RowInv
  <2>2. Completed'
    BY <2>1, IdempotencyAssumption DEF Record
  <2>3. Unpaid
    BY <1>2 DEF Complete, Unpaid
  <2> QED
    BY <1>0, <1>2, <2>2, <2>3 DEF EffectInv, Unpaid, Complete
<1>3. CASE pc[r] = "complete" /\ (CompleteFails(r) \/ Crash(r))
  <2>1. effects' = effects /\ faults' = faults + 1
    BY <1>3 DEF CompleteFails, Crash, Fault, RowInv
  <2> QED
    BY <1>0, <2>1 DEF EffectInv
<1>4. CASE pc[r] # "complete" /\ RequestFault(r)
  <2>1. effects' = effects /\ faults' = faults + 1
    BY <1>4 DEF RequestFault, QueryFails, Crash, Fault
  <2> QED
    BY <1>0, <2>1 DEF EffectInv
<1>5. CASE Acquire(r) \/ Busy(r) \/ Release(r) \/ Peek(r) \/ ReadLocked(r) \/ HandlerThrows(r)
  <2>1. effects' = effects /\ faults' = faults /\ record' = record
    BY <1>5 DEF Acquire, Busy, Release, Peek, ReadLocked, HandlerThrows
  <2>2. \A s \in Request : pc[s] = "complete" => pc'[s] = "complete"
    BY <1>5 DEF Acquire, Busy, Release, Peek, ReadLocked, HandlerThrows
  <2>3. Unpaid => Unpaid'
    BY <2>1, <2>2 DEF Unpaid
  <2> QED
    BY <1>0, <2>1, <2>3 DEF EffectInv
<1>6. CASE Discard(r) \/ Create(r) \/ Undo(r)
  <2>1. ~Unpaid
    BY <1>0, <1>6 DEF Discard, Create, Undo, Unpaid, RowInv
  <2>2. effects' = effects /\ faults' = faults
    BY <1>6 DEF Discard, Create, Undo
  <2> QED
    BY <1>0, <2>1, <2>2 DEF EffectInv
<1>7. RequestFault(r) => QueryFails(r) \/ Crash(r)
  BY DEF RequestFault
<1>8. QueryFails(r) => pc[r] # "complete"
  BY DEF QueryFails
<1>9. CompleteFails(r) => pc[r] = "complete"
  BY DEF CompleteFails
<1> QED
  BY <1>1, <1>2, <1>3, <1>4, <1>5, <1>6, <1>7, <1>8, <1>9 DEF RequestStep

LEMMA StepLock == ASSUME ~Lossy, TypeOK, LockInv, [Next]_vars PROVE LockInv'
<1>1. OwnerInv'
  BY StepOwner DEF LockInv
<1>2. ASSUME NEW r \in Request, RequestStep(r) \/ RequestFault(r)
      PROVE  LockInv'
  BY <1>1, <1>2, StepRow, StepReplay, StepEffect DEF LockInv
<1>3. CASE LockExpires \/ UNCHANGED vars \/ \E r \in Request : TimePasses(r)
  <2>1. UNCHANGED <<pc, record, answer, effects, faults>>
    BY <1>3 DEF LockExpires, vars, TimePasses
  <2> QED
    BY <1>1, <2>1 DEF LockInv, RowInv, StoredInv, PrintInv, PendingInv, EffectInv,
      Unpaid, Completed, Live
<1>4. CASE RecordExpires
  <2>1. /\ \A r \in Request : pc[r] \notin Inside
        /\ UNCHANGED <<pc, answer, faults>> /\ ~Live' /\ effects' = {}
    BY <1>4 DEF RecordExpires, Live, TypeOK, Record
  <2>2. Cardinality(effects') = 0 /\ faults \in Nat
    BY <2>1, FS_EmptySet, IdempotencyAssumption DEF TypeOK
  <2>3. EffectInv'
    BY <2>1, <2>2 DEF EffectInv
  <2>4. RowInv'
    BY <2>1 DEF RowInv, Inside, Running
  <2>5. StoredInv' /\ PendingInv' /\ PrintInv'
    BY <2>1 DEF LockInv, StoredInv, PendingInv, PrintInv, Completed
  <2> QED
    BY <1>1, <2>3, <2>4, <2>5 DEF LockInv
<1>5. CASE Sweep
  <2>1. ~Live /\ ~Live' /\ record' = None /\ UNCHANGED <<pc, answer, effects, faults>>
    BY <1>5 DEF Sweep, Live
  <2> QED
    BY <1>1, <2>1 DEF LockInv, RowInv, StoredInv, PrintInv, PendingInv, EffectInv,
      Unpaid, Completed
<1> QED
  BY <1>2, <1>3, <1>4, <1>5 DEF Next

THEOREM LockInvariance == ASSUME ~Lossy PROVE Spec => [](TypeOK /\ LockInv)
<1>1. ~Lossy
  OBVIOUS
<1>2. TypeOK /\ LockInv /\ [Next]_vars => (TypeOK /\ LockInv)'
  BY <1>1, StepLock, StepType
<1> QED
  BY <1>2, InitLock, InitType, PTL DEF Spec

\* While the lock outlasts the handler, one request at a time is past the lock:
\* the handler never runs beside another reading, discarding or completing the row.
OneInside == \A r, s \in Request : pc[r] \in Inside /\ pc[s] \in Inside => r = s

THEOREM NeverTwoInside == ASSUME ~Lossy PROVE Spec => []OneInside
<1>1. TypeOK /\ LockInv => OneInside
  BY Alone DEF LockInv, OneInside
<1> QED
  BY <1>1, LockInvariance, PTL

\* One key has one effect, and at most one more for each crash or failed write.
THEOREM EffectsPaid == ASSUME ~Lossy PROVE Spec => []EffectsBounded
<1>1. TypeOK /\ LockInv => EffectsBounded
  <2> SUFFICES ASSUME TypeOK, LockInv PROVE EffectsBounded
    OBVIOUS
  <2>1. Cardinality(effects) \in Nat /\ faults \in Nat
    BY IdempotencyAssumption, FS_Subset, FS_CardinalityType DEF TypeOK
  <2> QED
    BY <2>1 DEF LockInv, EffectInv, EffectsBounded
<1> QED
  BY <1>1, LockInvariance, PTL

\* No client is answered with the response of a request other than its own.
THEOREM AnswersFaithful == ASSUME ~Lossy PROVE Spec => []ReplayFaithful
<1>1. LockInv /\ AnswerInv => ReplayFaithful
  BY DEF LockInv, PrintInv, AnswerInv, Given, ReplayFaithful
<1> QED
  BY <1>1, LockInvariance, AnswerInvariance, PTL

\* A failed handler leaves no row: without faults, the row that is there when
\* nobody is inside is a completed one whose request was answered with it.
THEOREM NothingStays == ASSUME ~Lossy PROVE Spec => []NothingLeftBehind
<1>1. TypeOK /\ LockInv => NothingLeftBehind
  <2> SUFFICES ASSUME TypeOK, LockInv, faults = 0, Live, \A r \in Request : pc[r] \notin Inside
               PROVE  record.status = "completed" /\ answer[record.response] = record.response
    BY DEF NothingLeftBehind
  <2>1. record.status # "pending"
    BY DEF LockInv, PendingInv, Inside, Running
  <2>2. record.status = "completed"
    BY <2>1 DEF TypeOK, Record, Live
  <2> QED
    BY <2>2 DEF LockInv, StoredInv, Completed
<1> QED
  BY <1>1, LockInvariance, PTL

\* Once a response is stored, no handler takes effect while its record lives.
THEOREM StoredIsFinal == ASSUME ~Lossy PROVE Spec => NoRunAfterAnswer
<1>1. TypeOK /\ LockInv /\ [Next]_vars =>
        [Live /\ record.status = "completed" => effects' \subseteq effects]_vars
  <2> SUFFICES ASSUME TypeOK, LockInv, Next, Live, record.status = "completed"
               PROVE  effects' \subseteq effects
    BY DEF vars
  <2>1. \A r \in Request : ~HandlerReturns(r)
    BY DEF LockInv, RowInv, HandlerReturns, Goto, Running
  <2> QED
    BY <2>1 DEF Next, RequestStep, RequestFault, Acquire, Busy, Peek, ReadLocked, Discard, Create,
      Complete, CompleteFails, HandlerThrows, Undo, Release, QueryFails, Crash, TimePasses,
      LockExpires, RecordExpires, Sweep
<1> QED
  BY <1>1, LockInvariance, PTL DEF Spec, NoRunAfterAnswer

-----------------------------------------------------------------------------
\* A request that took effect is about to be answered with it, or was answered, or
\* could not complete; and one about to be answered took effect.
RanInv ==
  \A r \in Request :
    /\ r \in effects => pc[r] \in {"complete"} \cup Left \/ (pc[r] = "undo" /\ faults > 0)
    /\ pc[r] = "complete" => r \in effects

LEMMA StepRan ==
  ASSUME TypeOK, LockInv, RanInv, [Next]_vars
  PROVE  RanInv'
<1> USE IdempotencyAssumption DEF TypeOK, RanInv, Left, Goto, PCs, Inside
<1>1. ASSUME NEW r \in Request, RequestStep(r) \/ RequestFault(r)
      PROVE  RanInv'
  <2>1. CASE CompleteFails(r)
    <3>1. faults' > 0
      BY <2>1 DEF CompleteFails, Fault, LockInv, RowInv, Running, Live
    <3> QED
      BY <2>1, <3>1 DEF CompleteFails
  <2>2. CASE HandlerReturns(r)
    BY <2>2 DEF HandlerReturns
  <2>3. CASE Acquire(r) \/ Busy(r) \/ Peek(r) \/ ReadLocked(r) \/ Discard(r) \/ Create(r)
             \/ HandlerThrows(r)
    <3>1. /\ effects' = effects /\ faults' = faults /\ r \notin effects /\ pc'[r] # "complete"
          /\ \A s \in Request : s # r => pc'[s] = pc[s]
      BY <2>3 DEF Acquire, Busy, Peek, ReadLocked, Discard, Create, HandlerThrows
    <3> QED
      BY <3>1
  <2>4. CASE Complete(r) \/ Undo(r) \/ Release(r)
    <3>1. /\ effects' = effects /\ faults' = faults /\ pc'[r] \in Left
          /\ \A s \in Request : s # r => pc'[s] = pc[s]
      BY <2>4 DEF Complete, Undo, Release
    <3> QED
      BY <3>1
  <2>5. CASE RequestFault(r)
    <3>1. /\ effects' = effects /\ faults' = faults + 1 /\ pc'[r] \in Left
          /\ \A s \in Request : s # r => pc'[s] = pc[s]
      BY <2>5 DEF RequestFault, QueryFails, Crash, Fault
    <3> QED
      BY <3>1
  <2> QED
    BY <1>1, <2>1, <2>2, <2>3, <2>4, <2>5 DEF RequestStep
<1>2. CASE LockExpires \/ Sweep \/ UNCHANGED vars \/ \E r \in Request : TimePasses(r)
  <2>1. UNCHANGED <<effects, pc, faults>>
    BY <1>2 DEF LockExpires, Sweep, vars, TimePasses
  <2> QED
    BY <2>1
<1>3. CASE RecordExpires
  BY <1>3 DEF RecordExpires
<1> QED
  BY <1>1, <1>2, <1>3 DEF Next

\* The promise counts as its implementation does.
LEMMA SameCount == \A S : Promise!Cardinality(S) = Cardinality(S)
BY DEF Promise!Cardinality, Cardinality

\* What the promise sees of the row.
Kept == IF Live /\ record.status = "completed" THEN record.response ELSE None

LEMMA StepPromise ==
  ASSUME TypeOK, AnswerInv, LockInv, RanInv, [Next]_vars
  PROVE  [Promise!Next]_(Promise!vars)
<1> USE DEF Goto
<1>0. \A r \in Request : pc[r] \notin Left => answer[r] = None
  BY DEF AnswerInv
<1>1. ASSUME NEW r \in Request, Peek(r) \/ ReadLocked(r)
      PROVE  [Promise!Next]_(Promise!vars)
  <2>1. /\ UNCHANGED <<record, effects, faults>> /\ answer[r] = None /\ r \notin effects
    BY <1>0, <1>1 DEF Peek, ReadLocked, Left, RanInv
  <2>2. CASE Replayable(r) /\ Answer(r, record.response)
    <3>1. Kept = record.response /\ Kept # None /\ PrintOf[Kept] = PrintOf[r]
      BY <2>2, IdempotencyAssumption DEF Replayable, Kept, LockInv, StoredInv, Completed
    <3>2. Promise!Replay(r)
      BY <2>1, <2>2, <3>1 DEF Promise!Replay, Promise!Answer, Answer, Kept, Live
    <3> QED
      BY <3>2 DEF Promise!Next
  <2>3. CASE \E what \in {"mismatch", "timeout"} : Answer(r, what)
    <3>1. Promise!Refuse(r)
      BY <2>1, <2>3 DEF Promise!Refuse, Promise!Answer, Answer, Refusals, Live
    <3> QED
      BY <3>1 DEF Promise!Next
  <2>4. CASE UNCHANGED answer
    BY <2>1, <2>4 DEF Promise!vars, Live
  <2> QED
    BY <1>1, <2>2, <2>3, <2>4 DEF Peek, ReadLocked
<1>2. ASSUME NEW r \in Request, HandlerReturns(r)
      PROVE  [Promise!Next]_(Promise!vars)
  <2>1. /\ effects' = effects \cup {r} /\ UNCHANGED <<record, answer, faults>>
        /\ pc[r] = "handle"
    BY <1>2 DEF HandlerReturns
  <2>2. Live /\ record.status = "pending" /\ answer[r] = None
    BY <1>0, <2>1 DEF LockInv, RowInv, Running, Left
  <2>3. ~Unpaid
    BY <2>1, <2>2, Alone DEF LockInv, Unpaid, Completed, Inside
  <2>4. Cardinality(effects) <= faults
    BY <2>3, CountEffects, IdempotencyAssumption DEF LockInv, EffectInv, TypeOK
  <2>5. Kept = None /\ Kept' = Kept
    BY <2>1, <2>2 DEF Kept, Live
  <2>6. Promise!Run(r)
    BY <2>1, <2>2, <2>4, <2>5, SameCount DEF Promise!Run, Kept
  <2> QED
    BY <2>6 DEF Promise!Next
<1>3. ASSUME NEW r \in Request, Complete(r)
      PROVE  [Promise!Next]_(Promise!vars)
  <2>1. /\ record' = [record EXCEPT !.status = "completed", !.response = r]
        /\ answer' = [answer EXCEPT ![r] = r] /\ pc[r] = "complete"
        /\ UNCHANGED <<effects, faults>>
    BY <1>3 DEF Complete, Answer
  <2>2. Live /\ record.status = "pending" /\ answer[r] = None
    BY <1>0, <2>1 DEF LockInv, RowInv, Running, Left
  <2>3. Live' /\ record'.status = "completed" /\ record'.response = r
    <3>1. record \in Record /\ ~record.expired
      BY <2>2 DEF TypeOK, Live
    <3>2. record' \in Record /\ record'.status = "completed" /\ record'.response = r /\ ~record'.expired
      BY <2>1, <3>1 DEF Record
    <3> QED
      BY <3>2, IdempotencyAssumption DEF Live
  <2>4. r \in effects
    BY <2>1 DEF RanInv
  <2>5. Promise!Keep(r)
    BY <2>1, <2>2, <2>3, <2>4 DEF Promise!Keep, Promise!Answer
  <2> QED
    BY <2>5 DEF Promise!Next
<1>4. ASSUME NEW r \in Request, Undo(r)
      PROVE  [Promise!Next]_(Promise!vars)
  <2>1. /\ record' = None /\ answer' = [answer EXCEPT ![r] = "error"] /\ pc[r] = "undo"
        /\ UNCHANGED <<effects, faults>>
    BY <1>4 DEF Undo, Answer
  <2>2. Live /\ record.status = "pending" /\ answer[r] = None
    BY <1>0, <2>1 DEF LockInv, RowInv, Running, Left
  <2>3. Kept = None /\ Kept' = None
    BY <2>1, <2>2 DEF Kept, Live
  <2>4. r \in effects => faults > 0
    BY <2>1 DEF RanInv, Left
  <2>5. Promise!Refuse(r)
    BY <2>1, <2>2, <2>3, <2>4 DEF Promise!Refuse, Promise!Answer, Refusals, Kept
  <2> QED
    BY <2>5 DEF Promise!Next
<1>5. ASSUME NEW r \in Request, CompleteFails(r) \/ Crash(r)
      PROVE  [Promise!Next]_(Promise!vars)
  <2>1. UNCHANGED <<record, answer, effects>> /\ faults' \in {faults, faults + 1}
    BY <1>5 DEF CompleteFails, Crash, Fault
  <2>2. Kept' = Kept
    BY <2>1 DEF Kept, Live
  <2>3. CASE faults' = faults
    BY <2>1, <2>2, <2>3 DEF Promise!vars, Kept
  <2>4. CASE faults' = faults + 1
    <3>1. Promise!Lapse
      BY <2>1, <2>2, <2>4 DEF Promise!Lapse, Kept
    <3> QED
      BY <3>1 DEF Promise!Next
  <2> QED
    BY <2>1, <2>3, <2>4
<1>6. ASSUME NEW r \in Request, QueryFails(r)
      PROVE  [Promise!Next]_(Promise!vars)
  <2>1. /\ UNCHANGED <<record, effects>> /\ faults' = faults + 1
        /\ answer' = [answer EXCEPT ![r] = "error"] /\ answer[r] = None
    BY <1>0, <1>6 DEF QueryFails, Fault, Answer, Left
  <2>2. Kept' = Kept
    BY <2>1 DEF Kept, Live
  <2>3. Promise!Lapse
    BY <2>1, <2>2 DEF Promise!Lapse, Promise!Answer, Refusals, Kept
  <2> QED
    BY <2>3 DEF Promise!Next
<1>7. ASSUME NEW r \in Request, Discard(r) \/ Create(r)
      PROVE  [Promise!Next]_(Promise!vars)
  <2>1. UNCHANGED <<answer, effects, faults>>
    BY <1>7 DEF Discard, Create
  <2>2. ~Live /\ (record' = None \/ record'.status = "pending")
    BY <1>7 DEF Discard, Create, LockInv, RowInv, Live
  <2>3. Kept' = None /\ Kept = None
    BY <2>2 DEF Kept, Live
  <2> QED
    BY <2>1, <2>3 DEF Promise!vars, Kept
<1>8. CASE RecordExpires
  <2>1. effects' = {} /\ ~Live' /\ UNCHANGED <<answer, faults>>
    BY <1>8 DEF RecordExpires, Live, TypeOK, Record
  <2>2. Kept' = None
    BY <2>1 DEF Kept
  <2>3. Promise!Forget
    BY <2>1, <2>2 DEF Promise!Forget, Kept
  <2> QED
    BY <2>3 DEF Promise!Next
<1>9. CASE Sweep
  <2>1. ~Live /\ ~Live' /\ UNCHANGED <<answer, effects, faults>>
    BY <1>9 DEF Sweep, Live
  <2> QED
    BY <2>1 DEF Promise!vars
<1>10. ASSUME NEW r \in Request,
              Acquire(r) \/ Busy(r) \/ HandlerThrows(r) \/ Release(r) \/ TimePasses(r)
       PROVE  [Promise!Next]_(Promise!vars)
  <2>1. UNCHANGED <<record, answer, effects, faults>>
    BY <1>10 DEF Acquire, Busy, HandlerThrows, Release, TimePasses
  <2> QED
    BY <2>1 DEF Promise!vars, Live
<1>11. CASE LockExpires \/ UNCHANGED vars
  <2>1. UNCHANGED <<record, answer, effects, faults>>
    BY <1>11 DEF LockExpires, vars
  <2> QED
    BY <2>1 DEF Promise!vars, Live
<1> QED
  BY <1>1, <1>2, <1>3, <1>4, <1>5, <1>6, <1>7, <1>8, <1>9, <1>10, <1>11
     DEF Next, RequestStep, RequestFault

\* While the lock outlasts the handler, the interceptor implements OncePerKey: one
\* request runs and one more per lapse, what is kept is what everybody with its
\* print is answered with, nothing runs while it is kept, and whoever ran is refused
\* only after a lapse.
THEOREM Implementation == ASSUME ~Lossy PROVE Spec => ImplementsOncePerKey
<1>1. Init => RanInv /\ Promise!Init
  BY DEF Init, RanInv, Promise!Init, Live
<1>2. TypeOK /\ LockInv /\ RanInv /\ [Next]_vars => RanInv'
  BY StepRan
<1>3. TypeOK /\ AnswerInv /\ LockInv /\ RanInv /\ [Next]_vars =>
        [Promise!Next]_(Promise!vars)
  BY StepPromise
<1> QED
  BY <1>1, <1>2, <1>3, LockInvariance, AnswerInvariance, PTL
     DEF Spec, Promise!Spec, ImplementsOncePerKey

\* OncePerKey by itself promises that the runs are paid for, that a response given
\* is one its own request got, and that without a lapse a refused request was idle.
THEOREM PromiseKept ==
  Promise!Spec => [](Promise!RunsPaid /\ Promise!Faithful /\ Promise!RefusedIdle)
<1> DEFINE Typed == /\ effects \subseteq Request /\ faults \in Nat
                    /\ answer \in [Request -> Answers \cup {None}]
           KeptInv == Kept # None => Kept \in Request /\ answer[Kept] = Kept
           Inv == /\ Typed /\ KeptInv
                  /\ Promise!RunsPaid /\ Promise!Faithful /\ Promise!RefusedIdle
<1>0. /\ None \notin Request /\ None \notin Refusals /\ Refusals \cap Request = {}
      /\ IsFiniteSet(Request)
  BY IdempotencyAssumption
<1>1. Promise!Init => Inv
  <2> SUFFICES ASSUME Promise!Init PROVE Inv
    OBVIOUS
  <2>1. effects = {} /\ Kept = None /\ answer = [r \in Request |-> None] /\ faults = 0
    BY DEF Promise!Init, Kept
  <2>2. Promise!RunsPaid
    BY <2>1, SameCount, FS_EmptySet DEF Promise!RunsPaid
  <2> QED
    BY <1>0, <2>1, <2>2 DEF Promise!Faithful, Promise!RefusedIdle
<1>2. Inv /\ [Promise!Next]_(Promise!vars) => Inv'
  <2> SUFFICES ASSUME Inv, [Promise!Next]_(Promise!vars) PROVE Inv'
    OBVIOUS
  <2> USE <1>0 DEF Promise!Faithful, Promise!RefusedIdle, Promise!Answer, Answers
  <2>1. ASSUME NEW r \in Request, Promise!Run(r)
        PROVE  Inv'
    <3>1. /\ effects' = effects \cup {r} /\ answer[r] = None
          /\ Cardinality(effects) <= faults /\ answer' = answer /\ faults' = faults /\ Kept' = Kept
      BY <2>1, SameCount DEF Promise!Run, Kept
    <3>2. IsFiniteSet(effects) /\ Cardinality(effects) \in Nat
      BY FS_Subset, FS_CardinalityType
    <3>3. Cardinality(effects \cup {r}) <= Cardinality(effects) + 1
          /\ Cardinality(effects \cup {r}) \in Nat
      BY <3>2, FS_AddElement
    <3>4. Cardinality(effects') <= 1 + faults'
      BY <3>1, <3>2, <3>3
    <3>5. Promise!RunsPaid'
      BY <3>4, SameCount DEF Promise!RunsPaid
    <3> QED
      BY <3>1, <3>5
  <2>2. ASSUME NEW r \in Request, Promise!Keep(r)
        PROVE  Inv'
    <3>1. /\ Kept = None /\ Kept' = r /\ answer[r] = None /\ answer' = [answer EXCEPT ![r] = r]
          /\ effects' = effects /\ faults' = faults
      BY <2>2 DEF Promise!Keep, Kept
    <3> QED
      BY <3>1 DEF Promise!RunsPaid
  <2>3. ASSUME NEW r \in Request, Promise!Replay(r)
        PROVE  Inv'
    <3>1. /\ Kept # None /\ PrintOf[Kept] = PrintOf[r] /\ Kept' = Kept
          /\ answer[r] = None /\ answer' = [answer EXCEPT ![r] = Kept]
          /\ effects' = effects /\ faults' = faults
      BY <2>3 DEF Promise!Replay, Kept
    <3> QED
      BY <3>1 DEF Promise!RunsPaid
  <2>4. ASSUME NEW r \in Request, Promise!Refuse(r)
        PROVE  Inv'
    <3>1. /\ effects' = effects /\ faults' = faults /\ Kept' = Kept
          /\ r \in effects => faults > 0
      BY <2>4 DEF Promise!Refuse, Kept
    <3>2. PICK what \in Refusals : answer[r] = None /\ answer' = [answer EXCEPT ![r] = what]
      BY <2>4 DEF Promise!Refuse
    <3> QED
      BY <3>1, <3>2 DEF Promise!RunsPaid
  <2>5. CASE Promise!Lapse
    <3>1. effects' = effects /\ faults' = faults + 1 /\ Kept' = Kept
      BY <2>5 DEF Promise!Lapse, Kept
    <3>2. Promise!RunsPaid'
      <4>1. Cardinality(effects) \in Nat /\ Cardinality(effects) <= 1 + faults
        BY FS_Subset, FS_CardinalityType, SameCount DEF Promise!RunsPaid
      <4> QED
        BY <3>1, <4>1, SameCount DEF Promise!RunsPaid
    <3>3. CASE answer' = answer
      BY <3>1, <3>2, <3>3
    <3>4. CASE \E r \in Request, what \in Refusals :
                 answer[r] = None /\ answer' = [answer EXCEPT ![r] = what]
      BY <3>1, <3>2, <3>4
    <3> QED
      BY <2>5, <3>3, <3>4 DEF Promise!Lapse
  <2>6. CASE Promise!Forget
    <3>1. effects' = {} /\ Kept' = None /\ answer' = answer /\ faults' = faults
      BY <2>6 DEF Promise!Forget, Kept
    <3>2. Promise!RunsPaid'
      BY <3>1, SameCount, FS_EmptySet DEF Promise!RunsPaid
    <3> QED
      BY <3>1, <3>2
  <2>7. CASE UNCHANGED Promise!vars
    <3>1. Kept' = Kept /\ UNCHANGED <<effects, answer, faults>>
      BY <2>7 DEF Promise!vars, Kept
    <3> QED
      BY <3>1 DEF Promise!RunsPaid
  <2> QED
    BY <2>1, <2>2, <2>3, <2>4, <2>5, <2>6, <2>7 DEF Promise!Next
<1> QED
  BY <1>1, <1>2, PTL DEF Promise!Spec
=============================================================================
