----------------------- MODULE OutboundWebhooksProofs -----------------------
(***************************************************************************)
(* The delivery log of the outbound webhooks, for any number of            *)
(* subscriptions, messages, workers, administrators, attempts and rounds:  *)
(* a pending delivery has somebody to bring it on, a dead one has had its  *)
(* attempts, and what is settled stays settled.                            *)
(***************************************************************************)
EXTENDS OutboundWebhooks, TLAPS

\* BullMQ's bookkeeping: a job that can still run has attempts and stalls
\* left, a lock is held by the worker that runs the job it is on, and an
\* administrator enqueues what he claimed.
QueueInv ==
  /\ \A k \in JobId :
       /\ job[k] = "none" => made[k] = 0
       /\ job[k] \in {"none", "waiting", "active"} => made[k] < Attempts /\ stalls[k] <= MaxStalls
       /\ holder[k] # None =>
            job[k] = "active" /\ task[holder[k]] = k /\ tried[holder[k]] = made[k]
  /\ \A w \in Worker : pc[w] = "idle" <=> task[w] = None
  /\ \A a \in Admin : admin[a].d = None => admin[a].id = None

\* A job is of a row that was written, and of a round it has reached.
Reached(k) == status[k[1]] # "none" /\ k[2] <= round[k[1]]

RoundInv ==
  /\ \A k \in JobId : Held(k) => Reached(k)
  /\ \A w \in Worker : pc[w] # "idle" => Reached(task[w])
  /\ \A m \in Msg : next[m] # None => Reached(next[m])
  /\ \A a \in Admin : admin[a].id # None => Reached(admin[a].id)

\* A row is deleted where no fan-out writes it again.
DeletedInv ==
  \A d \in Delivery : status[d] = "deleted" => sub[d[1]] = "gone" \/ fan[d[2]] = "settled"

\* What a worker is about to write, or has written.
Mid == {"disable", "send", "landed", "refused"}

RunInv ==
  /\ \A v, w \in Worker :
       v # w /\ pc[v] # "idle" /\ pc[w] # "idle" /\ Of(v) = Of(w) => Of(w) \in crossed
  /\ \A w \in Worker :
       pc[w] \in Mid /\ Of(w) \notin crossed => status[Of(w)] \in {"pending", "deleted"}

\* A run that is over has settled the row it was of, or is not the last.
Open(k) == status[k[1]] = "pending" /\ round[k[1]] = k[2]

EndInv ==
  \A w \in Worker :
    /\ pc[w] = "complete" => ~Open(task[w])
    /\ pc[w] = "fail" /\ IsLastAttempt(w) => ~Open(task[w]) \/ Of(w) \in stranded

\* A finished job leaves its row pending only where the model says so.
FinishedInv ==
  \A d \in Delivery :
    status[d] = "pending" /\ job[<<d, round[d]>>] \in {"completed", "failed"} => d \in stranded

\* Every attempt BullMQ counts is a try of the row's round.
TallyInv ==
  /\ \A k \in JobId :
       k[1] \notin crossed /\ k[2] = round[k[1]] => made[k] <= spent[k[1]]
  /\ \A w \in Worker : pc[w] # "idle" /\ Of(w) \notin crossed =>
       /\ pc[w] \in Mid => task[w][2] = round[Of(w)] /\ tried[w] + 1 <= spent[Of(w)]
       /\ pc[w] = "fail" /\ task[w][2] = round[Of(w)] => tried[w] + 1 <= spent[Of(w)]
       /\ pc[w] = "read" /\ task[w][2] = round[Of(w)] => tried[w] <= spent[Of(w)]

\* The part of PendingIsCarried that holds whatever fails.
CarriedInv == \A d \in Delivery : status[d] = "pending" => Carried(d) \/ d \in stranded

\* While nothing has failed, a pending row has its job, or a party that is past
\* deciding to enqueue it: being handed the message again is not needed.
Promised(d) ==
  \/ job[<<d, round[d]>>] \in {"waiting", "active"}
  \/ next[d[2]] = <<d, round[d]>>
  \/ Claimed(d)

FaultlessInv ==
  /\ \A m \in Msg : fan[m] = "due" => next[m] = None
  /\ faults = 0 =>
       /\ stranded = {}
       /\ \A d \in Delivery : status[d] = "pending" => Promised(d)
       /\ \A k \in JobId : job[k] = "active" => holder[k] # None

IInv == /\ TypeOK /\ QueueInv /\ RoundInv /\ DeletedInv /\ RunInv
        /\ EndInv /\ FinishedInv /\ TallyInv /\ CarriedInv /\ FaultlessInv /\ DeadIsSpent

-----------------------------------------------------------------------------
LEMMA Pairs ==
  /\ \A d \in Delivery : d[1] \in Sub /\ d[2] \in Msg /\ d = <<d[1], d[2]>> /\ d # None
  /\ \A s \in Sub, m \in Msg : <<s, m>> \in Delivery
  /\ \A k \in JobId : k[1] \in Delivery /\ k[2] \in 0..MaxRound /\ k = <<k[1], k[2]>> /\ k # None
  /\ \A d \in Delivery, r \in 0..MaxRound : <<d, r>> \in JobId
  /\ \A d \in Delivery, r, q \in 0..MaxRound : <<d, r>> = <<d, q>> => r = q
BY WebhookAssumption DEF Delivery, JobId

LEMMA InitInv == Init => IInv
<1> SUFFICES ASSUME Init PROVE IInv
  OBVIOUS
<1>1. TypeOK
  <2> USE WebhookAssumption DEF Init
  <2>1. 0 \in 0..MaxRound /\ 0 \in 0..Attempts /\ 0 \in 0..MaxStalls + 1 /\ 0 \in 0..MaxFaults
    OBVIOUS
  <2>2. /\ round \in [Delivery -> 0..MaxRound] /\ faults \in 0..MaxFaults
        /\ made \in [JobId -> 0..Attempts] /\ stalls \in [JobId -> 0..MaxStalls + 1]
        /\ tried \in [Worker -> 0..Attempts]
    BY <2>1
  <2>3. Idle \in [d : Delivery \cup {None}, id : JobId \cup {None}]
    BY DEF Idle
  <2>4. admin \in [Admin -> [d : Delivery \cup {None}, id : JobId \cup {None}]]
    BY <2>3
  <2> QED
    BY <2>2, <2>4 DEF TypeOK, Statuses
<1> USE Pairs, WebhookAssumption
<1>2. QueueInv
  BY DEF Init, QueueInv, Idle
<1>3. RoundInv
  BY DEF Init, RoundInv, Held, Idle
<1>4. DeletedInv /\ RunInv
  BY DEF Init, DeletedInv, RunInv, Mid
<1>5. EndInv /\ FinishedInv
  BY DEF Init, EndInv, FinishedInv
<1>6. TallyInv
  BY DEF Init, TallyInv
<1>7. CarriedInv /\ FaultlessInv /\ DeadIsSpent
  BY DEF Init, CarriedInv, FaultlessInv, DeadIsSpent
<1> QED
  BY <1>1, <1>2, <1>3, <1>4, <1>5, <1>6, <1>7 DEF IInv

-----------------------------------------------------------------------------
(* The type invariant. *)

\* Of a worker that runs a job.
LEMMA Running ==
  ASSUME TypeOK, QueueInv, NEW w \in Worker, pc[w] # "idle"
  PROVE  task[w] \in JobId /\ Of(w) \in Delivery /\ task[w][2] \in 0..MaxRound
BY Pairs DEF TypeOK, QueueInv, Of

LEMMA QueueType ==
  ASSUME TypeOK, QueueInv, NEW k \in JobId,
         Trim(k) \/ LoseLock(k) \/ Stalled(k)
  PROVE  TypeOK'
<1> USE WebhookAssumption DEF TypeOK, rows, fanout, workers, history
<1>1. CASE Trim(k)
  BY <1>1 DEF Trim
<1>2. CASE LoseLock(k)
  BY <1>2 DEF LoseLock, Fault
<1>3. CASE Stalled(k)
  <2>1. stalls[k] + 1 \in 0..MaxStalls + 1
    BY <1>3 DEF Stalled, QueueInv
  <2>2. stalls' \in [JobId -> 0..MaxStalls + 1]
    BY <1>3, <2>1 DEF Stalled
  <2>3. job' \in [JobId -> {"none", "waiting", "active", "completed", "failed"}]
    BY <1>3 DEF Stalled
  <2>4. stranded' \subseteq Delivery
    BY <1>3, Pairs DEF Stalled
  <2> QED
    BY <1>3, <2>2, <2>3, <2>4 DEF Stalled
<1> QED
  BY <1>1, <1>2, <1>3

LEMMA FanoutType ==
  ASSUME TypeOK, NEW m \in Msg, Fanout(m) \/ FanFails(m)
  PROVE  TypeOK'
<1> USE WebhookAssumption DEF TypeOK, rows, queue, workers, history
<1>1. CASE FanRead(m)
  <2>1. todo' \in [Msg -> SUBSET Sub]
    BY <1>1 DEF FanRead
  <2>2. stranded' \subseteq Delivery
    BY <1>1 DEF FanRead, Delivery
  <2> QED
    BY <1>1, <2>1, <2>2 DEF FanRead
<1>2. CASE FanEnqueue(m)
  BY <1>2 DEF FanEnqueue, Add
<1>3. CASE FanReturn(m) \/ FanSettle(m)
  BY <1>3 DEF FanReturn, FanSettle
<1>4. CASE FanFails(m)
  BY <1>4 DEF FanFails, Rehand, Fault
<1>5. ASSUME NEW s \in Sub, FanUpsert(m, s)
      PROVE  TypeOK'
  <2>1. <<s, m>> \in Delivery
    BY Pairs
  <2>2. status' \in [Delivery -> Statuses]
    BY <1>5, <2>1 DEF FanUpsert, Statuses
  <2>3. next' \in [Msg -> JobId \cup {None}]
    <3>1. round[<<s, m>>] \in 0..MaxRound
      BY <2>1
    <3>2. <<<<s, m>>, round[<<s, m>>]>> \in JobId
      BY <2>1, <3>1, Pairs
    <3> QED
      BY <1>5, <3>2 DEF FanUpsert
  <2>4. todo' \in [Msg -> SUBSET Sub]
    BY <1>5 DEF FanUpsert
  <2> QED
    BY <1>5, <2>2, <2>3, <2>4 DEF FanUpsert
<1>6. ASSUME NEW s \in Sub, FanRefused(m, s)
      PROVE  TypeOK'
  BY <1>6 DEF FanRefused, Rehand
<1> QED
  BY <1>1, <1>2, <1>3, <1>4, <1>5, <1>6 DEF Fanout

LEMMA WorkerType ==
  ASSUME TypeOK, QueueInv, NEW w \in Worker,
         \/ Process(w) \/ DatabaseFails(w) \/ WorkerDies(w)
         \/ \E k \in JobId : Pick(w, k)
  PROVE  TypeOK'
<1> USE WebhookAssumption DEF TypeOK, rows, fanout, queue, workers, history
<1>1. ASSUME NEW k \in JobId, Pick(w, k)
      PROVE  TypeOK'
  <2>1. crossed' \subseteq Delivery
    BY <1>1, Pairs DEF Pick
  <2> QED
    BY <1>1, <2>1 DEF Pick, Goto
<1>2. CASE ReadSettled(w) \/ Send(w)
  BY <1>2 DEF ReadSettled, Send, Goto
<1>3. CASE ReadDisabled(w) \/ ReadPending(w) \/ DatabaseFails(w)
  <2>1. pc[w] # "idle" /\ Of(w) \in Delivery
    BY <1>3, Running DEF ReadDisabled, ReadPending, DatabaseFails, Goto
  <2>2. Try(w) => spent' \in [Delivery -> Nat] /\ crossed' \subseteq Delivery
    BY <2>1 DEF Try
  <2> QED
    BY <1>3, <2>1, <2>2 DEF ReadDisabled, ReadPending, DatabaseFails, Goto, Fault
<1>4. CASE WriteDelivered(w) \/ WriteRefused(w) \/ WriteDisabled(w) \/ WriteMissing(w)
  <2>1. pc[w] # "idle" /\ Of(w) \in Delivery
    BY <1>4, Running DEF WriteDelivered, WriteRefused, WriteDisabled, WriteMissing, Goto
  <2>2. status' \in [Delivery -> Statuses]
    BY <1>4, <2>1 DEF WriteDelivered, WriteRefused, WriteDisabled, WriteMissing, MarkDead, Statuses
  <2>3. off' \subseteq Delivery
    BY <1>4, <2>1 DEF WriteDelivered, WriteRefused, WriteDisabled, WriteMissing
  <2> QED
    BY <1>4, <2>2, <2>3 DEF WriteDelivered, WriteRefused, WriteDisabled, WriteMissing, Goto
<1>5. CASE Finish(w)
  <2>1. task[w] \in JobId
    BY <1>5, Running DEF Finish
  <2>2. holder[task[w]] = w => made[task[w]] < Attempts
    BY <2>1 DEF QueueInv
  <2>3. made' \in [JobId -> 0..Attempts]
    BY <1>5, <2>1, <2>2 DEF Finish
  <2>4. /\ job' \in [JobId -> {"none", "waiting", "active", "completed", "failed"}]
        /\ holder' \in [JobId -> Worker \cup {None}]
    BY <1>5, <2>1 DEF Finish
  <2> QED
    BY <1>5, <2>3, <2>4 DEF Finish, Leave
<1>6. CASE WorkerDies(w)
  <2>1. holder' \in [JobId -> Worker \cup {None}]
    BY <1>6 DEF WorkerDies
  <2>2. /\ task' \in [Worker -> JobId \cup {None}]
        /\ tried' \in [Worker -> 0..Attempts]
        /\ pc' = [pc EXCEPT ![w] = "idle"]
    BY <1>6 DEF WorkerDies, Leave
  <2> QED
    BY <1>6, <2>1, <2>2 DEF WorkerDies, Fault
<1> QED
  BY <1>1, <1>2, <1>3, <1>4, <1>5, <1>6 DEF Process

LEMMA AdminType ==
  ASSUME TypeOK, QueueInv, NEW a \in Admin,
         \/ RedeliverGet(a) \/ RedeliverEnqueue(a) \/ RedeliverFails(a)
         \/ \E d \in Delivery : Redeliver(a, d)
  PROVE  TypeOK'
<1> USE WebhookAssumption DEF TypeOK, rows, fanout, queue, workers, history
<1>1. ASSUME NEW d \in Delivery, Redeliver(a, d)
      PROVE  TypeOK'
  <2>1. round' \in [Delivery -> 0..MaxRound]
    BY <1>1 DEF Redeliver
  <2>2. admin' \in [Admin -> [d : Delivery \cup {None}, id : JobId \cup {None}]]
    <3>1. [admin[a] EXCEPT !.d = d] \in [d : Delivery \cup {None}, id : JobId \cup {None}]
      OBVIOUS
    <3>2. admin' = [admin EXCEPT ![a] = [admin[a] EXCEPT !.d = d]]
      BY <1>1 DEF Redeliver
    <3> QED
      BY <3>1, <3>2
  <2> QED
    BY <1>1, <2>1, <2>2 DEF Redeliver, Statuses
<1>2. CASE RedeliverGet(a)
  <2>1. admin[a].d \in Delivery
    BY <1>2 DEF RedeliverGet
  <2>2. [d |-> admin[a].d, id |-> <<admin[a].d, round[admin[a].d]>>]
          \in [d : Delivery \cup {None}, id : JobId \cup {None}]
    BY <2>1, Pairs
  <2>3. Idle \in [d : Delivery \cup {None}, id : JobId \cup {None}]
    BY DEF Idle
  <2> QED
    BY <1>2, <2>2, <2>3 DEF RedeliverGet
<1>3. CASE RedeliverEnqueue(a)
  <2>1. job' \in [JobId -> {"none", "waiting", "active", "completed", "failed"}]
    BY <1>3 DEF RedeliverEnqueue, Add
  <2>2. Idle \in [d : Delivery \cup {None}, id : JobId \cup {None}]
    BY DEF Idle
  <2> QED
    BY <1>3, <2>1, <2>2 DEF RedeliverEnqueue, Add
<1>4. CASE RedeliverFails(a)
  <2>1. Idle \in [d : Delivery \cup {None}, id : JobId \cup {None}]
    BY DEF Idle
  <2>2. admin[a].d \in Delivery
    BY <1>4 DEF RedeliverFails, QueueInv, Idle
  <2> QED
    BY <1>4, <2>1, <2>2 DEF RedeliverFails, Fault
<1> QED
  BY <1>1, <1>2, <1>3, <1>4

LEMMA StepType == ASSUME TypeOK, QueueInv, [Next]_vars PROVE TypeOK'
<1>1. CASE UNCHANGED vars
  BY <1>1 DEF TypeOK, vars, rows, fanout, queue, workers, history
<1>2. ASSUME NEW s \in Sub, Create(s) \/ SetActive(s) \/ Remove(s)
      PROVE  TypeOK'
  BY <1>2 DEF TypeOK, rows, fanout, queue, workers, history, Create, SetActive, Remove, Statuses
<1>3. ASSUME NEW D \in SUBSET Delivery, Prune(D)
      PROVE  TypeOK'
  BY <1>3 DEF TypeOK, rows, fanout, queue, workers, history, Prune, Statuses
<1> QED
  BY <1>1, <1>2, <1>3, QueueType, FanoutType, WorkerType, AdminType DEF Next

-----------------------------------------------------------------------------
(* The queue's bookkeeping. *)

LEMMA StepQueue == ASSUME IInv, Next PROVE QueueInv'
<1> USE WebhookAssumption DEF IInv, QueueInv
<1>1. ASSUME NEW k \in JobId, Trim(k)
      PROVE  QueueInv'
  BY <1>1 DEF Trim, TypeOK, workers
<1>2. ASSUME NEW k \in JobId, LoseLock(k)
      PROVE  QueueInv'
  BY <1>2 DEF LoseLock, TypeOK, workers
<1>3. ASSUME NEW k \in JobId, Stalled(k)
      PROVE  QueueInv'
  BY <1>3 DEF Stalled, TypeOK, workers
<1>4. ASSUME NEW m \in Msg, FanEnqueue(m)
      PROVE  QueueInv'
  BY <1>4 DEF FanEnqueue, Add, Held, TypeOK, workers
<1>5. ASSUME NEW w \in Worker, NEW k \in JobId, Pick(w, k)
      PROVE  QueueInv'
  BY <1>5, Pairs DEF Pick, Goto, TypeOK
<1>6. ASSUME NEW w \in Worker, Finish(w)
      PROVE  QueueInv'
  <2>1. task[w] \in JobId
    BY <1>6, Running DEF Finish
  <2>2. \A k \in JobId : holder[k] = w => k = task[w]
    BY DEF TypeOK
  <2>3. CASE holder[task[w]] # w
    BY <1>6, <2>1, <2>2, <2>3 DEF Finish, Leave, TypeOK
  <2>4. CASE holder[task[w]] = w
    <3>1. /\ holder' = [holder EXCEPT ![task[w]] = None]
          /\ \A k \in JobId \ {task[w]} : job'[k] = job[k] /\ made'[k] = made[k]
      BY <1>6, <2>1, <2>4 DEF Finish, TypeOK
    <3>2. job'[task[w]] \in {"none", "waiting", "active"} => made'[task[w]] < Attempts
      BY <1>6, <2>1, <2>4 DEF Finish, TypeOK
    <3>3. job'[task[w]] # "none" /\ stalls' = stalls /\ stalls[task[w]] <= MaxStalls
      BY <1>6, <2>1, <2>4 DEF Finish, TypeOK
    <3> QED
      BY <1>6, <2>1, <2>2, <3>1, <3>2, <3>3 DEF Finish, Leave, TypeOK
  <2> QED
    BY <2>3, <2>4
<1>7. ASSUME NEW w \in Worker, WorkerDies(w)
      PROVE  QueueInv'
  <2>1. task[w] \in JobId
    BY <1>7, Running DEF WorkerDies
  <2>2. \A k \in JobId : holder'[k] # None => holder'[k] = holder[k] /\ holder[k] # w
    BY <1>7, <2>1 DEF WorkerDies, TypeOK
  <2> QED
    BY <1>7, <2>2 DEF WorkerDies, Leave, TypeOK
<1>8. ASSUME NEW w \in Worker,
             \/ ReadSettled(w) \/ ReadDisabled(w) \/ ReadPending(w) \/ Send(w)
             \/ WriteDelivered(w) \/ WriteRefused(w) \/ WriteDisabled(w)
             \/ WriteMissing(w) \/ DatabaseFails(w)
      PROVE  QueueInv'
  <2>1. UNCHANGED <<queue, task, tried, admin>>
    BY <1>8 DEF ReadSettled, ReadDisabled, ReadPending, Send, WriteDelivered, WriteRefused,
      WriteDisabled, WriteMissing, DatabaseFails
  <2>2. \A v \in Worker : pc'[v] = "idle" <=> pc[v] = "idle"
    BY <1>8 DEF ReadSettled, ReadDisabled, ReadPending, Send, WriteDelivered, WriteRefused,
      WriteDisabled, WriteMissing, DatabaseFails, Goto, TypeOK
  <2> QED
    BY <2>1, <2>2 DEF queue
<1>9. ASSUME NEW a \in Admin,
             \/ RedeliverGet(a) \/ RedeliverEnqueue(a) \/ RedeliverFails(a)
             \/ \E d \in Delivery : Redeliver(a, d)
      PROVE  QueueInv'
  <2>1. \A b \in Admin : admin'[b].d = None => admin'[b].id = None
    <3>1. \A b \in Admin \ {a} : admin'[b] = admin[b]
      BY <1>9 DEF Redeliver, RedeliverGet, RedeliverEnqueue, RedeliverFails, TypeOK
    <3>2. ASSUME NEW d \in Delivery, Redeliver(a, d)
          PROVE  admin'[a].d # None
      <4>1. admin'[a] = [admin[a] EXCEPT !.d = d]
        BY <3>2 DEF Redeliver, TypeOK
      <4> QED
        BY <4>1, Pairs DEF TypeOK
    <3>3. CASE RedeliverGet(a)
      BY <3>3 DEF RedeliverGet, Idle, TypeOK
    <3>4. CASE RedeliverEnqueue(a) \/ RedeliverFails(a)
      BY <3>4 DEF RedeliverEnqueue, RedeliverFails, Idle, TypeOK
    <3> QED
      BY <1>9, <3>1, <3>2, <3>3, <3>4
  <2>2. UNCHANGED <<pc, task, tried, made, stalls, holder>>
    BY <1>9 DEF Redeliver, RedeliverGet, RedeliverEnqueue, RedeliverFails, Add, queue, workers
  <2>3. job' = job \/ \E k \in JobId : job[k] = "none" /\ job' = [job EXCEPT ![k] = "waiting"]
    BY <1>9 DEF Redeliver, RedeliverGet, RedeliverEnqueue, RedeliverFails, Add, Held, queue, TypeOK
  <2> QED
    BY <2>1, <2>2, <2>3 DEF TypeOK
<1>10. CASE UNCHANGED <<queue, workers, admin>>
  BY <1>10 DEF queue, workers
<1>11. ASSUME NEW m \in Msg, Fanout(m) \/ FanFails(m), ~FanEnqueue(m)
       PROVE  UNCHANGED <<queue, workers, admin>>
  BY <1>11 DEF Fanout, FanFails, FanRead, FanUpsert, FanRefused, FanReturn, FanSettle
<1>12. ASSUME \/ \E s \in Sub : Create(s) \/ SetActive(s) \/ Remove(s)
              \/ \E D \in SUBSET Delivery : Prune(D)
       PROVE  UNCHANGED <<queue, workers, admin>>
  BY <1>12 DEF Create, SetActive, Remove, Prune
<1> QED
  BY <1>1, <1>2, <1>3, <1>4, <1>5, <1>6, <1>7, <1>8, <1>9, <1>10, <1>11, <1>12
    DEF Next, Process

-----------------------------------------------------------------------------
(* What one step can do to a row, a job, a run, a fan-out and a claim. *)

RowKept(d) == status'[d] = status[d] /\ round'[d] = round[d]

RowCreated(d) ==
  /\ status[d] = "none" /\ status'[d] = "pending" /\ round'[d] = round[d]
  /\ next'[d[2]] = <<d, round[d]>>

RowClaimed(d) ==
  /\ status[d] = "dead" /\ status'[d] = "pending" /\ round'[d] = round[d] + 1
  /\ \E a \in Admin : admin'[a].d = d /\ admin'[a].id = None

RowSettled(d) ==
  /\ Exists(d) /\ status'[d] \in {"delivered", "dead"} /\ round'[d] = round[d]
  /\ \E w \in Worker :
       /\ pc[w] \in Mid /\ Of(w) = d /\ pc'[w] \in {"complete", "fail"}
       /\ status'[d] = "dead" => d \in off' \/ (IsLastAttempt(w) /\ spent'[d] = spent[d])

RowDeleted(d) == Exists(d) /\ status'[d] = "deleted" /\ round'[d] = round[d]

LEMMA RowStep ==
  ASSUME IInv, Next, NEW d \in Delivery
  PROVE  RowKept(d) \/ RowCreated(d) \/ RowClaimed(d) \/ RowSettled(d) \/ RowDeleted(d)
<1> USE DEF IInv, TypeOK
<1>1. ASSUME NEW m \in Msg, NEW s \in Sub, FanUpsert(m, s)
      PROVE  RowKept(d) \/ RowCreated(d)
  <2>1. CASE d = <<s, m>> /\ ~Exists(d)
    <3>1. status[d] # "deleted"
      BY <1>1, <2>1, Pairs DEF FanUpsert, DeletedInv
    <3>2. status[d] = "none"
      BY <2>1, <3>1 DEF Exists, Statuses
    <3>3. next'[m] = <<d, round[d]>> /\ d[2] = m
      BY <1>1, <2>1, Pairs DEF FanUpsert
    <3> QED
      BY <1>1, <2>1, <3>2, <3>3 DEF FanUpsert, RowCreated
  <2>2. CASE ~(d = <<s, m>> /\ ~Exists(d))
    BY <1>1, <2>2 DEF FanUpsert, RowKept
  <2> QED
    BY <2>1, <2>2
<1>2. ASSUME NEW a \in Admin, NEW e \in Delivery, Redeliver(a, e)
      PROVE  RowKept(d) \/ RowClaimed(d)
  <2>1. CASE d = e
    <3>1. admin'[a] = [admin[a] EXCEPT !.d = d]
      BY <1>2, <2>1 DEF Redeliver
    <3>2. admin'[a].d = d /\ admin'[a].id = None
      BY <1>2, <3>1 DEF Redeliver, Idle
    <3>3. status[d] = "dead" /\ status'[d] = "pending" /\ round'[d] = round[d] + 1
      BY <1>2, <2>1 DEF Redeliver
    <3> QED
      BY <3>2, <3>3 DEF RowClaimed
  <2>2. CASE d # e
    BY <1>2, <2>2 DEF Redeliver, RowKept
  <2> QED
    BY <2>1, <2>2
<1>3. ASSUME NEW w \in Worker, WriteDelivered(w) \/ WriteRefused(w) \/ WriteDisabled(w)
      PROVE  RowKept(d) \/ RowSettled(d)
  <2>1. /\ pc[w] \in Mid /\ pc'[w] \in {"complete", "fail"}
        /\ Exists(Of(w)) /\ UNCHANGED <<round, spent>>
    BY <1>3 DEF WriteDelivered, WriteRefused, WriteDisabled, Goto, Mid, history
  <2>2. \/ status'[d] = status[d]
        \/ /\ d = Of(w) /\ status'[d] \in {"delivered", "dead"}
           /\ status'[d] = "dead" => d \in off' \/ IsLastAttempt(w)
    BY <1>3 DEF WriteDelivered, WriteRefused, WriteDisabled, MarkDead
  <2> QED
    BY <2>1, <2>2 DEF RowKept, RowSettled
<1>4. ASSUME NEW s \in Sub, Remove(s)
      PROVE  RowKept(d) \/ RowDeleted(d)
  BY <1>4 DEF Remove, RowKept, RowDeleted
<1>5. ASSUME NEW D \in SUBSET Delivery, Prune(D)
      PROVE  RowKept(d) \/ RowDeleted(d)
  BY <1>5 DEF Prune, RowKept, RowDeleted, Exists
<1>6. CASE UNCHANGED rows
  BY <1>6 DEF rows, RowKept
<1>7. ASSUME NEW m \in Msg,
             \/ FanRead(m) \/ FanEnqueue(m) \/ FanReturn(m) \/ FanSettle(m) \/ FanFails(m)
             \/ \E s \in Sub : FanRefused(m, s)
      PROVE  UNCHANGED rows
  BY <1>7 DEF FanRead, FanEnqueue, FanReturn, FanSettle, FanFails, FanRefused
<1>8. ASSUME NEW w \in Worker,
             \/ ReadSettled(w) \/ ReadDisabled(w) \/ ReadPending(w) \/ Send(w) \/ WriteMissing(w)
             \/ Finish(w) \/ DatabaseFails(w) \/ WorkerDies(w) \/ \E k \in JobId : Pick(w, k)
      PROVE  UNCHANGED rows
  BY <1>8 DEF ReadSettled, ReadDisabled, ReadPending, Send, WriteMissing, Finish, DatabaseFails,
    WorkerDies, Pick
<1>9. ASSUME \/ \E k \in JobId : Trim(k) \/ LoseLock(k) \/ Stalled(k)
             \/ \E a \in Admin : RedeliverGet(a) \/ RedeliverEnqueue(a) \/ RedeliverFails(a)
             \/ \E s \in Sub : Create(s) \/ SetActive(s)
      PROVE  UNCHANGED rows
  BY <1>9 DEF Trim, LoseLock, Stalled, RedeliverGet, RedeliverEnqueue, RedeliverFails, Create,
    SetActive
<1> QED
  BY <1>1, <1>2, <1>3, <1>4, <1>5, <1>6, <1>7, <1>8, <1>9 DEF Next, Fanout, Process

\* A job comes from a fan-out or an administrator who had its id; a job of a
\* row's run ends in its worker's Finish or in one stall too many.
LEMMA JobStep ==
  ASSUME IInv, Next, NEW k \in JobId
  PROVE  \/ job'[k] = job[k]
         \/ /\ job[k] = "none" /\ job'[k] = "waiting"
            /\ \/ \E m \in Msg : next[m] = k
               \/ \E a \in Admin : admin[a].id = k
         \/ job[k] = "waiting" /\ job'[k] = "active"
         \/ job[k] = "active" /\ job'[k] = "waiting"
         \/ job[k] = "active" /\ job'[k] = "failed" /\ k[1] \in stranded'
         \/ \E w \in Worker : Finish(w) /\ task[w] = k /\ holder[k] = w
         \/ job[k] \in {"completed", "failed"} /\ job'[k] = "none"
<1> USE DEF IInv, TypeOK
<1>1. ASSUME NEW m \in Msg, Fanout(m) \/ FanFails(m)
      PROVE  \/ job'[k] = job[k]
             \/ job[k] = "none" /\ job'[k] = "waiting" /\ next[m] = k
  BY <1>1 DEF Fanout, FanRead, FanUpsert, FanRefused, FanReturn, FanSettle, FanFails,
    FanEnqueue, Add, Held, queue
<1>2. ASSUME NEW a \in Admin,
             \/ RedeliverGet(a) \/ RedeliverEnqueue(a) \/ RedeliverFails(a)
             \/ \E d \in Delivery : Redeliver(a, d)
      PROVE  \/ job'[k] = job[k]
             \/ job[k] = "none" /\ job'[k] = "waiting" /\ admin[a].id = k
  BY <1>2 DEF Redeliver, RedeliverGet, RedeliverEnqueue, RedeliverFails, Add, Held, queue
<1>3. ASSUME NEW l \in JobId, Trim(l) \/ LoseLock(l) \/ Stalled(l)
      PROVE  \/ job'[k] = job[k]
             \/ job[k] = "active" /\ job'[k] = "waiting"
             \/ job[k] = "active" /\ job'[k] = "failed" /\ k[1] \in stranded'
             \/ job[k] \in {"completed", "failed"} /\ job'[k] = "none"
  BY <1>3 DEF Trim, LoseLock, Stalled
<1>4. ASSUME NEW w \in Worker, NEW l \in JobId, Pick(w, l)
      PROVE  job'[k] = job[k] \/ (job[k] = "waiting" /\ job'[k] = "active")
  BY <1>4 DEF Pick
<1>5. ASSUME NEW w \in Worker, Finish(w)
      PROVE  job'[k] = job[k] \/ (task[w] = k /\ holder[k] = w)
  <2>1. task[w] \in JobId
    BY <1>5, Running DEF Finish
  <2> QED
    BY <1>5, <2>1 DEF Finish
<1>6. ASSUME \/ \E w \in Worker :
                  \/ ReadSettled(w) \/ ReadDisabled(w) \/ ReadPending(w) \/ Send(w)
                  \/ WriteDelivered(w) \/ WriteRefused(w) \/ WriteDisabled(w)
                  \/ WriteMissing(w) \/ DatabaseFails(w) \/ WorkerDies(w)
             \/ \E s \in Sub : Create(s) \/ SetActive(s) \/ Remove(s)
             \/ \E D \in SUBSET Delivery : Prune(D)
      PROVE  UNCHANGED job
  BY <1>6 DEF ReadSettled, ReadDisabled, ReadPending, Send, WriteDelivered, WriteRefused,
    WriteDisabled, WriteMissing, DatabaseFails, WorkerDies, Create, SetActive, Remove, Prune, queue
<1> QED
  BY <1>1, <1>2, <1>3, <1>4, <1>5, <1>6 DEF Next, Process

\* A run keeps its job and what it read of it from the pick to its end.
LEMMA TaskStep ==
  ASSUME IInv, Next, NEW w \in Worker, pc'[w] # "idle"
  PROVE  \/ pc[w] # "idle" /\ task'[w] = task[w] /\ tried'[w] = tried[w]
         \/ \E k \in JobId : Pick(w, k)
<1> USE DEF IInv, TypeOK
<1>1. ASSUME NEW v \in Worker, NEW k \in JobId, Pick(v, k), v # w
      PROVE  pc'[w] = pc[w] /\ task'[w] = task[w] /\ tried'[w] = tried[w]
  BY <1>1 DEF Pick, Goto
<1>2. ASSUME NEW v \in Worker, Finish(v) \/ WorkerDies(v)
      PROVE  v # w /\ pc'[w] = pc[w] /\ task'[w] = task[w] /\ tried'[w] = tried[w]
  BY <1>2 DEF Finish, WorkerDies, Leave
<1>3. ASSUME NEW v \in Worker,
             \/ ReadSettled(v) \/ ReadDisabled(v) \/ ReadPending(v) \/ Send(v)
             \/ WriteDelivered(v) \/ WriteRefused(v) \/ WriteDisabled(v)
             \/ WriteMissing(v) \/ DatabaseFails(v)
      PROVE  pc[w] # "idle" /\ task'[w] = task[w] /\ tried'[w] = tried[w]
  BY <1>3 DEF ReadSettled, ReadDisabled, ReadPending, Send, WriteDelivered, WriteRefused,
    WriteDisabled, WriteMissing, DatabaseFails, Goto
<1>4. ASSUME \/ \E m \in Msg : Fanout(m) \/ FanFails(m)
             \/ \E k \in JobId : Trim(k) \/ LoseLock(k) \/ Stalled(k)
             \/ \E a \in Admin : \/ RedeliverGet(a) \/ RedeliverEnqueue(a) \/ RedeliverFails(a)
                                 \/ \E d \in Delivery : Redeliver(a, d)
             \/ \E s \in Sub : Create(s) \/ SetActive(s) \/ Remove(s)
             \/ \E D \in SUBSET Delivery : Prune(D)
      PROVE  UNCHANGED workers
  BY <1>4 DEF Fanout, FanRead, FanUpsert, FanRefused, FanReturn, FanSettle, FanFails, FanEnqueue,
    Trim, LoseLock, Stalled, Redeliver, RedeliverGet, RedeliverEnqueue, RedeliverFails,
    Create, SetActive, Remove, Prune
<1> QED
  BY <1>1, <1>2, <1>3, <1>4 DEF Next, Process, workers

\* An id to enqueue is kept, or is that of a row as it is read.
LEMMA IdStep ==
  ASSUME IInv, Next
  PROVE  /\ \A m \in Msg : next'[m] # None =>
              \/ next'[m] = next[m]
              \/ \E d \in Delivery : next'[m] = <<d, round[d]>> /\ status'[d] = "pending"
         /\ \A a \in Admin : admin'[a].id # None =>
              \/ admin'[a].id = admin[a].id
              \/ \E d \in Delivery : admin'[a].id = <<d, round[d]>> /\ status[d] # "none"
<1> USE DEF IInv, TypeOK
<1>1. ASSUME NEW l \in Msg, NEW m \in Msg, Fanout(l) \/ FanFails(l), next'[m] # None
      PROVE  \/ next'[m] = next[m]
             \/ \E d \in Delivery : next'[m] = <<d, round[d]>> /\ status'[d] = "pending"
  <2>1. ASSUME NEW s \in Sub, FanUpsert(l, s)
        PROVE  \/ next'[m] = next[m]
               \/ \E d \in Delivery : next'[m] = <<d, round[d]>> /\ status'[d] = "pending"
    <3>1. <<s, l>> \in Delivery
      BY Pairs
    <3>2. CASE m = l
      <4>1. next'[m] = <<<<s, l>>, round[<<s, l>>]>> /\ status'[<<s, l>>] = "pending"
        BY <1>1, <2>1, <3>2 DEF FanUpsert
      <4> QED
        BY <3>1, <4>1
    <3>3. CASE m # l
      BY <2>1, <3>3 DEF FanUpsert
    <3> QED
      BY <3>2, <3>3
  <2>2. CASE FanFails(l) \/ (\E s \in Sub : FanRefused(l, s)) \/ FanEnqueue(l)
    BY <1>1, <2>2 DEF FanFails, FanRefused, Rehand, FanEnqueue
  <2>3. CASE FanRead(l) \/ FanReturn(l) \/ FanSettle(l)
    BY <2>3 DEF FanRead, FanReturn, FanSettle
  <2> QED
    BY <1>1, <2>1, <2>2, <2>3 DEF Fanout
<1>2. ASSUME NEW b \in Admin, NEW a \in Admin, admin'[a].id # None,
             \/ RedeliverGet(b) \/ RedeliverEnqueue(b) \/ RedeliverFails(b)
             \/ \E d \in Delivery : Redeliver(b, d)
      PROVE  \/ admin'[a].id = admin[a].id
             \/ \E d \in Delivery : admin'[a].id = <<d, round[d]>> /\ status[d] # "none"
  <2>1. CASE a # b
    BY <1>2, <2>1 DEF Redeliver, RedeliverGet, RedeliverEnqueue, RedeliverFails
  <2>2. ASSUME a = b, NEW d \in Delivery, Redeliver(b, d)
        PROVE  admin'[a].id = admin[a].id
    <3>1. admin'[a] = [admin[a] EXCEPT !.d = d]
      BY <2>2 DEF Redeliver
    <3> QED
      BY <3>1
  <2>3. ASSUME a = b, RedeliverGet(b)
        PROVE  \E d \in Delivery : admin'[a].id = <<d, round[d]>> /\ status[d] # "none"
    <3>1. admin[a].d \in Delivery
      BY <2>3 DEF RedeliverGet
    <3>2. admin'[a].id = <<admin[a].d, round[admin[a].d]>> /\ Exists(admin[a].d)
      BY <1>2, <2>3 DEF RedeliverGet, Idle
    <3> QED
      BY <3>1, <3>2 DEF Exists
  <2>4. CASE a = b /\ (RedeliverEnqueue(b) \/ RedeliverFails(b))
    BY <1>2, <2>4 DEF RedeliverEnqueue, RedeliverFails, Idle
  <2> QED
    BY <1>2, <2>1, <2>2, <2>3, <2>4
<1>3. ASSUME NEW m \in Msg, Fanout(m) \/ FanFails(m)
      PROVE  UNCHANGED admin
  BY <1>3 DEF Fanout, FanRead, FanUpsert, FanRefused, FanReturn, FanSettle, FanFails, FanEnqueue
<1>4. ASSUME NEW a \in Admin,
             \/ RedeliverGet(a) \/ RedeliverEnqueue(a) \/ RedeliverFails(a)
             \/ \E d \in Delivery : Redeliver(a, d)
      PROVE  UNCHANGED next
  BY <1>4 DEF Redeliver, RedeliverGet, RedeliverEnqueue, RedeliverFails, fanout
<1>5. ASSUME \/ \E k \in JobId : Trim(k) \/ LoseLock(k) \/ Stalled(k)
             \/ \E w \in Worker : \/ DatabaseFails(w) \/ WorkerDies(w) \/ Finish(w)
                                  \/ \E k \in JobId : Pick(w, k)
             \/ \E s \in Sub : Create(s) \/ SetActive(s) \/ Remove(s)
             \/ \E D \in SUBSET Delivery : Prune(D)
      PROVE  UNCHANGED <<next, admin>>
  BY <1>5 DEF Trim, LoseLock, Stalled, DatabaseFails, WorkerDies, Finish, Pick,
    Create, SetActive, Remove, Prune, fanout
<1>6. ASSUME NEW w \in Worker, Process(w)
      PROVE  UNCHANGED <<next, admin>>
  BY <1>6 DEF Process, ReadSettled, ReadDisabled, ReadPending, Send, WriteDelivered, WriteRefused,
    WriteDisabled, WriteMissing, Finish, fanout
<1> QED
  BY <1>1, <1>2, <1>3, <1>4, <1>5, <1>6 DEF Next

-----------------------------------------------------------------------------
(* Jobs, runs and ids are of rows that exist and rounds that were reached. *)

\* What was reached stays reached.
LEMMA ReachedKept ==
  ASSUME IInv, Next, NEW k \in JobId, Reached(k)
  PROVE  Reached(k)'
<1>1. k[1] \in Delivery /\ k[2] \in 0..MaxRound
  BY Pairs
<1>2. round[k[1]] \in Nat
  BY <1>1, WebhookAssumption DEF IInv, TypeOK
<1>3. status'[k[1]] # "none" /\ round'[k[1]] \in {round[k[1]], round[k[1]] + 1}
  BY <1>1, RowStep DEF Reached, RowKept, RowCreated, RowClaimed, RowSettled, RowDeleted
<1> QED
  BY <1>1, <1>2, <1>3 DEF Reached

LEMMA StepRound == ASSUME IInv, Next PROVE RoundInv'
<1> USE DEF IInv, RoundInv
<1>1. ASSUME NEW d \in Delivery, NEW k \in JobId, k = <<d, round[d]>>, status'[d] # "none"
      PROVE  Reached(k)'
  <2>1. round[d] \in Nat /\ round'[d] \in {round[d], round[d] + 1}
    BY RowStep, WebhookAssumption
      DEF TypeOK, RowKept, RowCreated, RowClaimed, RowSettled, RowDeleted
  <2>2. k[1] = d /\ k[2] = round[d]
    BY <1>1
  <2> QED
    BY <1>1, <2>1, <2>2 DEF Reached
<1>2. ASSUME NEW d \in Delivery, status[d] # "none"
      PROVE  status'[d] # "none"
  BY <1>2, RowStep DEF RowKept, RowCreated, RowClaimed, RowSettled, RowDeleted
<1>3. ASSUME NEW k \in JobId, Held(k)'
      PROVE  Reached(k)'
  <2>1. Held(k) \/ (\E m \in Msg : next[m] = k) \/ \E a \in Admin : admin[a].id = k
    BY <1>3, JobStep, WebhookAssumption DEF Held, QueueInv
  <2>2. Reached(k)
    BY <2>1, Pairs
  <2> QED
    BY <2>2, ReachedKept
<1>4. ASSUME NEW w \in Worker, NEW k \in JobId, pc'[w] # "idle", task'[w] = k
      PROVE  Reached(k)'
  <2>1. CASE pc[w] # "idle" /\ task'[w] = task[w]
    BY <1>4, <2>1, ReachedKept
  <2>2. ASSUME NEW l \in JobId, Pick(w, l)
        PROVE  l = k /\ Reached(k)
    BY <1>4, <2>2 DEF Pick, Held, TypeOK
  <2> QED
    BY <1>4, <2>1, <2>2, TaskStep, ReachedKept
<1>5. TypeOK' /\ QueueInv'
  BY StepType, StepQueue
<1>6. \A w \in Worker : pc'[w] # "idle" => Reached(task[w])'
  <2> SUFFICES ASSUME NEW w \in Worker, pc'[w] # "idle"
               PROVE  Reached(task[w])'
    OBVIOUS
  <2>1. task'[w] \in JobId
    BY <1>5 DEF TypeOK, QueueInv
  <2>2. PICK k \in JobId : task'[w] = k
    BY <2>1
  <2>3. Reached(k)'
    BY <1>4, <2>2
  <2> QED
    BY <2>2, <2>3 DEF Reached
<1>7. ASSUME NEW m \in Msg, NEW k \in JobId, next'[m] = k
      PROVE  Reached(k)'
  <2>1. CASE next[m] = k
    BY <2>1, ReachedKept, Pairs
  <2>2. ASSUME NEW d \in Delivery, k = <<d, round[d]>>, status'[d] = "pending"
        PROVE  Reached(k)'
    BY <1>1, <2>2
  <2> QED
    BY <1>7, <2>1, <2>2, IdStep, Pairs
<1>8. ASSUME NEW a \in Admin, NEW k \in JobId, admin'[a].id = k
      PROVE  Reached(k)'
  <2>1. CASE admin[a].id = k
    BY <2>1, ReachedKept, Pairs
  <2>2. ASSUME NEW d \in Delivery, k = <<d, round[d]>>, status[d] # "none"
        PROVE  Reached(k)'
    BY <1>1, <1>2, <2>2
  <2> QED
    BY <1>8, <2>1, <2>2, IdStep, Pairs
<1>9. \A m \in Msg : next'[m] # None => Reached(next[m])'
  <2> SUFFICES ASSUME NEW m \in Msg, next'[m] # None
               PROVE  Reached(next[m])'
    OBVIOUS
  <2>1. PICK k \in JobId : next'[m] = k
    BY <1>5 DEF TypeOK
  <2>2. Reached(k)'
    BY <1>7, <2>1
  <2> QED
    BY <2>1, <2>2 DEF Reached
<1>10. \A a \in Admin : admin'[a].id # None => Reached(admin[a].id)'
  <2> SUFFICES ASSUME NEW a \in Admin, admin'[a].id # None
               PROVE  Reached(admin[a].id)'
    OBVIOUS
  <2>1. PICK k \in JobId : admin'[a].id = k
    BY <1>5 DEF TypeOK
  <2>2. Reached(k)'
    BY <1>8, <2>1
  <2> QED
    BY <2>1, <2>2 DEF Reached
<1> QED
  BY <1>3, <1>6, <1>9, <1>10

\* A deleted row's message is settled or its subscription is gone, for good.
LEMMA StepDeleted == ASSUME IInv, Next PROVE DeletedInv'
<1> USE DEF IInv, TypeOK
<1>1. ASSUME NEW d \in Delivery, status'[d] = "deleted", status[d] # "deleted"
      PROVE  sub'[d[1]] = "gone" \/ fan'[d[2]] = "settled"
  <2>1. ASSUME NEW s \in Sub, Remove(s)
        PROVE  sub'[d[1]] = "gone"
    BY <1>1, <2>1, Pairs DEF Remove
  <2>2. ASSUME NEW D \in SUBSET Delivery, Prune(D)
        PROVE  fan'[d[2]] = "settled"
    BY <1>1, <2>2 DEF Prune, fanout
  <2>3. (\E s \in Sub : Remove(s)) \/ (\E D \in SUBSET Delivery : Prune(D))
    <3>1. ASSUME NEW m \in Msg, Fanout(m) \/ FanFails(m)
          PROVE  FALSE
      BY <1>1, <3>1 DEF Fanout, FanRead, FanUpsert, FanRefused, FanReturn, FanSettle, FanFails,
        FanEnqueue, rows
    <3>2. ASSUME NEW w \in Worker,
                 \/ Process(w) \/ DatabaseFails(w) \/ WorkerDies(w)
                 \/ \E k \in JobId : Pick(w, k)
          PROVE  FALSE
      BY <1>1, <3>2 DEF Process, ReadSettled, ReadDisabled, ReadPending, Send, WriteDelivered,
        WriteRefused, WriteDisabled, WriteMissing, MarkDead, Finish, DatabaseFails, WorkerDies,
        Pick, rows
    <3>3. ASSUME \/ \E k \in JobId : Trim(k) \/ LoseLock(k) \/ Stalled(k)
                 \/ \E a \in Admin : \/ RedeliverGet(a) \/ RedeliverEnqueue(a) \/ RedeliverFails(a)
                                     \/ \E e \in Delivery : Redeliver(a, e)
                 \/ \E s \in Sub : Create(s) \/ SetActive(s)
          PROVE  FALSE
      BY <1>1, <3>3 DEF Trim, LoseLock, Stalled, Redeliver, RedeliverGet, RedeliverEnqueue,
        RedeliverFails, Create, SetActive, rows
    <3> QED
      BY <3>1, <3>2, <3>3 DEF Next
  <2> QED
    BY <2>1, <2>2, <2>3
<1>2. ASSUME NEW s \in Sub, sub[s] = "gone"
      PROVE  sub'[s] = "gone"
  <2>1. \A r \in Sub : Create(r) \/ SetActive(r) \/ Remove(r) => sub'[s] = "gone"
    BY <1>2 DEF Create, SetActive, Remove
  <2>2. sub' = sub \/ \E r \in Sub : Create(r) \/ SetActive(r) \/ Remove(r)
    BY DEF Next, Fanout, FanRead, FanUpsert, FanRefused, FanReturn, FanSettle, FanFails,
      FanEnqueue, Process, ReadSettled, ReadDisabled, ReadPending, Send, WriteDelivered,
      WriteRefused, WriteDisabled, WriteMissing, Finish, DatabaseFails, WorkerDies, Pick,
      Trim, LoseLock, Stalled, Redeliver, RedeliverGet, RedeliverEnqueue, RedeliverFails, Prune
  <2> QED
    BY <1>2, <2>1, <2>2
<1>3. ASSUME NEW m \in Msg, fan[m] = "settled"
      PROVE  fan'[m] = "settled"
  <2>1. \A l \in Msg : Fanout(l) \/ FanFails(l) => fan'[m] = "settled"
    BY <1>3 DEF Fanout, FanRead, FanUpsert, FanRefused, FanReturn, FanSettle, FanFails,
      FanEnqueue, Rehand
  <2>2. fan' = fan \/ \E l \in Msg : Fanout(l) \/ FanFails(l)
    BY DEF Next, Process, ReadSettled, ReadDisabled, ReadPending, Send, WriteDelivered,
      WriteRefused, WriteDisabled, WriteMissing, Finish, DatabaseFails, WorkerDies, Pick,
      Trim, LoseLock, Stalled, Redeliver, RedeliverGet, RedeliverEnqueue, RedeliverFails,
      Create, SetActive, Remove, Prune, fanout
  <2> QED
    BY <1>3, <2>1, <2>2
<1> QED
  BY <1>1, <1>2, <1>3, Pairs DEF DeletedInv

-----------------------------------------------------------------------------
(* What one step does to a run, and to what is remembered of it. *)

\* Nothing is forgotten of the crossings and of what was given up.
LEMMA Grows == ASSUME IInv, Next PROVE crossed \subseteq crossed' /\ stranded \subseteq stranded'
<1>1. ASSUME NEW m \in Msg, Fanout(m) \/ FanFails(m)
      PROVE  crossed \subseteq crossed' /\ stranded \subseteq stranded'
  BY <1>1 DEF Fanout, FanRead, FanUpsert, FanRefused, FanReturn, FanSettle, FanFails,
    FanEnqueue, history
<1>2. ASSUME NEW w \in Worker,
             \/ Process(w) \/ DatabaseFails(w) \/ WorkerDies(w)
             \/ \E k \in JobId : Pick(w, k)
      PROVE  crossed \subseteq crossed' /\ stranded \subseteq stranded'
  BY <1>2 DEF Process, ReadSettled, ReadDisabled, ReadPending, Try, Send, WriteDelivered,
    WriteRefused, WriteDisabled, WriteMissing, Finish, DatabaseFails, WorkerDies, Pick, history
<1>3. ASSUME \/ \E k \in JobId : Trim(k) \/ LoseLock(k) \/ Stalled(k)
             \/ \E a \in Admin : \/ RedeliverGet(a) \/ RedeliverEnqueue(a) \/ RedeliverFails(a)
                                 \/ \E d \in Delivery : Redeliver(a, d)
             \/ \E s \in Sub : Create(s) \/ SetActive(s) \/ Remove(s)
             \/ \E D \in SUBSET Delivery : Prune(D)
      PROVE  crossed \subseteq crossed' /\ stranded \subseteq stranded'
  BY <1>3 DEF Trim, LoseLock, Stalled, Redeliver, RedeliverGet, RedeliverEnqueue,
    RedeliverFails, Create, SetActive, Remove, Prune, history
<1> QED
  BY <1>1, <1>2, <1>3 DEF Next

\* Worker w goes on with its run: what it read, tried and wrote.
Advance(w) ==
  \/ /\ pc[w] = "read" /\ pc'[w] = "complete"
     /\ status[Of(w)] # "pending" /\ UNCHANGED rows
  \/ /\ pc[w] = "read" /\ pc'[w] \in {"disable", "send"}
     /\ status[Of(w)] = "pending" /\ Try(w) /\ UNCHANGED rows
  \/ /\ pc[w] = "read" /\ pc'[w] = "fail" /\ Try(w) /\ UNCHANGED rows
     /\ IsLastAttempt(w) => Of(w) \in stranded'
  \/ pc[w] \in Mid /\ pc'[w] \in Mid /\ UNCHANGED <<rows, spent>>
  \/ /\ pc[w] \in Mid /\ pc'[w] \in {"complete", "fail"} /\ UNCHANGED <<round, spent>>
     /\ \/ status'[Of(w)] # "pending"
        \/ pc'[w] = "fail" /\ (IsLastAttempt(w) => Of(w) \in stranded')

LEMMA RunStep ==
  ASSUME IInv, Next, NEW w \in Worker, pc'[w] # "idle"
  PROVE  \/ pc[w] = pc'[w] /\ task'[w] = task[w] /\ tried'[w] = tried[w]
         \/ \E k \in JobId : Pick(w, k)
         \/ task'[w] = task[w] /\ tried'[w] = tried[w] /\ Advance(w)
<1> USE DEF IInv, TypeOK
<1>1. CASE ReadSettled(w)
  BY <1>1 DEF ReadSettled, Goto, Advance
<1>2. CASE ReadDisabled(w) \/ ReadPending(w)
  BY <1>2 DEF ReadDisabled, ReadPending, Goto, Advance
<1>3. CASE Send(w)
  BY <1>3 DEF Send, Goto, Advance, Mid, history
<1>4. CASE WriteDelivered(w) \/ WriteDisabled(w)
  <2>1. Of(w) \in Delivery
    BY <1>4, Running DEF WriteDelivered, WriteDisabled, Goto
  <2>2. status'[Of(w)] # "pending"
    BY <1>4, <2>1 DEF WriteDelivered, WriteDisabled, MarkDead
  <2> QED
    BY <1>4, <2>2 DEF WriteDelivered, WriteDisabled, Goto, Advance, Mid, history
<1>5. CASE WriteRefused(w)
  <2>1. Of(w) \in Delivery
    BY <1>5, Running DEF WriteRefused, Goto
  <2>2. IsLastAttempt(w) => status'[Of(w)] # "pending"
    BY <1>5, <2>1 DEF WriteRefused, MarkDead
  <2> QED
    BY <1>5, <2>2 DEF WriteRefused, Goto, Advance, Mid
<1>6. CASE WriteMissing(w)
  BY <1>6 DEF WriteMissing, Exists, Advance, Mid, rows, history
<1>7. CASE DatabaseFails(w)
  BY <1>7 DEF DatabaseFails, Advance, Mid, rows
<1>8. CASE \E v \in Worker \ {w} :
             \/ Process(v) \/ DatabaseFails(v) \/ WorkerDies(v)
             \/ \E k \in JobId : Pick(v, k)
  BY <1>8 DEF Process, ReadSettled, ReadDisabled, ReadPending, Send, WriteDelivered,
    WriteRefused, WriteDisabled, WriteMissing, Finish, Leave, DatabaseFails, WorkerDies, Pick, Goto
<1>9. ~Finish(w) /\ ~WorkerDies(w)
  BY DEF Finish, WorkerDies, Leave
<1>10. ASSUME \/ \E m \in Msg : Fanout(m) \/ FanFails(m)
              \/ \E k \in JobId : Trim(k) \/ LoseLock(k) \/ Stalled(k)
              \/ \E a \in Admin : \/ RedeliverGet(a) \/ RedeliverEnqueue(a) \/ RedeliverFails(a)
                                  \/ \E d \in Delivery : Redeliver(a, d)
              \/ \E s \in Sub : Create(s) \/ SetActive(s) \/ Remove(s)
              \/ \E D \in SUBSET Delivery : Prune(D)
       PROVE  UNCHANGED workers
  BY <1>10 DEF Fanout, FanRead, FanUpsert, FanRefused, FanReturn, FanSettle, FanFails, FanEnqueue,
    Trim, LoseLock, Stalled, Redeliver, RedeliverGet, RedeliverEnqueue, RedeliverFails,
    Create, SetActive, Remove, Prune
<1> QED
  BY <1>1, <1>2, <1>3, <1>4, <1>5, <1>6, <1>7, <1>8, <1>9, <1>10 DEF Next, Process, workers

\* The tries of a row are only reset by a redelivery.
LEMMA SpentStep ==
  ASSUME IInv, Next, NEW d \in Delivery
  PROVE  spent'[d] >= spent[d] \/ RowClaimed(d)
<1> USE DEF IInv, TypeOK
<1>1. ASSUME NEW w \in Worker, Try(w)
      PROVE  spent'[d] >= spent[d]
  BY <1>1 DEF Try
<1>2. ASSUME NEW a \in Admin, NEW e \in Delivery, Redeliver(a, e)
      PROVE  spent'[d] >= spent[d] \/ RowClaimed(d)
  <2>1. CASE d # e
    BY <1>2, <2>1 DEF Redeliver
  <2>2. CASE d = e
    <3>1. status'[d] = "pending" /\ status[d] = "dead" /\ round'[d] = round[d] + 1
      BY <1>2, <2>2 DEF Redeliver
    <3>2. admin'[a] = [admin[a] EXCEPT !.d = d]
      BY <1>2, <2>2 DEF Redeliver
    <3>3. admin'[a].d = d /\ admin'[a].id = None
      BY <1>2, <3>2 DEF Redeliver, Idle
    <3> QED
      BY <3>1, <3>3 DEF RowClaimed
  <2> QED
    BY <2>1, <2>2
<1>3. ASSUME NEW w \in Worker,
             \/ Process(w) \/ DatabaseFails(w) \/ WorkerDies(w)
             \/ \E k \in JobId : Pick(w, k)
      PROVE  UNCHANGED spent \/ Try(w)
  BY <1>3 DEF Process, ReadSettled, ReadDisabled, ReadPending, Send, WriteDelivered,
    WriteRefused, WriteDisabled, WriteMissing, Finish, DatabaseFails, WorkerDies, Pick, history
<1>4. ASSUME \/ \E m \in Msg : Fanout(m) \/ FanFails(m)
             \/ \E k \in JobId : Trim(k) \/ LoseLock(k) \/ Stalled(k)
             \/ \E a \in Admin : RedeliverGet(a) \/ RedeliverEnqueue(a) \/ RedeliverFails(a)
             \/ \E s \in Sub : Create(s) \/ SetActive(s) \/ Remove(s)
             \/ \E D \in SUBSET Delivery : Prune(D)
      PROVE  UNCHANGED spent
  BY <1>4 DEF Fanout, FanRead, FanUpsert, FanRefused, FanReturn, FanSettle, FanFails, FanEnqueue,
    Trim, LoseLock, Stalled, RedeliverGet, RedeliverEnqueue, RedeliverFails,
    Create, SetActive, Remove, Prune, history
<1> QED
  BY <1>1, <1>2, <1>3, <1>4 DEF Next

\* BullMQ counts an attempt when the worker that holds the job fails it.
LEMMA MadeStep ==
  ASSUME IInv, Next, NEW k \in JobId
  PROVE  \/ made'[k] \in {made[k], 0}
         \/ \E w \in Worker :
              task[w] = k /\ holder[k] = w /\ pc[w] = "fail" /\ made'[k] = made[k] + 1
<1> USE DEF IInv, TypeOK
<1>1. ASSUME NEW w \in Worker, Finish(w)
      PROVE  \/ made'[k] = made[k]
             \/ task[w] = k /\ holder[k] = w /\ pc[w] = "fail" /\ made'[k] = made[k] + 1
  <2>1. task[w] \in JobId
    BY <1>1, Running DEF Finish
  <2> QED
    BY <1>1, <2>1 DEF Finish
<1>2. ASSUME NEW l \in JobId, Trim(l)
      PROVE  made'[k] \in {made[k], 0}
  BY <1>2 DEF Trim
<1>3. ASSUME NEW w \in Worker,
             \/ ReadSettled(w) \/ ReadDisabled(w) \/ ReadPending(w) \/ Send(w)
             \/ WriteDelivered(w) \/ WriteRefused(w) \/ WriteDisabled(w)
             \/ WriteMissing(w) \/ DatabaseFails(w) \/ WorkerDies(w)
             \/ \E l \in JobId : Pick(w, l)
      PROVE  UNCHANGED made
  BY <1>3 DEF ReadSettled, ReadDisabled, ReadPending, Send, WriteDelivered,
    WriteRefused, WriteDisabled, WriteMissing, DatabaseFails, WorkerDies, Pick, queue
<1>4. ASSUME \/ \E m \in Msg : Fanout(m) \/ FanFails(m)
             \/ \E l \in JobId : LoseLock(l) \/ Stalled(l)
             \/ \E a \in Admin : \/ RedeliverGet(a) \/ RedeliverEnqueue(a) \/ RedeliverFails(a)
                                 \/ \E d \in Delivery : Redeliver(a, d)
             \/ \E s \in Sub : Create(s) \/ SetActive(s) \/ Remove(s)
             \/ \E D \in SUBSET Delivery : Prune(D)
      PROVE  UNCHANGED made
  BY <1>4 DEF Fanout, FanRead, FanUpsert, FanRefused, FanReturn, FanSettle, FanFails, FanEnqueue,
    Add, LoseLock, Stalled, Redeliver, RedeliverGet, RedeliverEnqueue, RedeliverFails,
    Create, SetActive, Remove, Prune, queue
<1> QED
  BY <1>1, <1>2, <1>3, <1>4 DEF Next, Process

-----------------------------------------------------------------------------
(* The invariant's other conjuncts. *)

\* Two workers never pick in one step, and a pick is of the worker that does it.
LEMMA OnePick ==
  ASSUME TypeOK, NEW v \in Worker, NEW w \in Worker, NEW k \in JobId, Pick(w, k), v # w
  PROVE  pc'[v] = pc[v] /\ task'[v] = task[v]
BY DEF Pick, Goto, TypeOK

LEMMA StepRun == ASSUME IInv, Next PROVE RunInv'
<1> USE DEF IInv
<1>1. ASSUME NEW v \in Worker, NEW w \in Worker, v # w,
             pc'[v] # "idle", pc'[w] # "idle", Of(v)' = Of(w)'
      PROVE  Of(w)' \in crossed'
  <2>1. ASSUME NEW x \in Worker, NEW y \in Worker, x # y, NEW k \in JobId, Pick(y, k),
               pc'[x] # "idle", Of(x)' = Of(y)'
        PROVE  Of(y)' \in crossed'
    <3>1. pc[x] # "idle" /\ Of(x)' = Of(x)
      BY <2>1, OnePick DEF Of
    <3>2. Of(y)' = k[1]
      BY <2>1 DEF Pick, Of, TypeOK
    <3> QED
      BY <2>1, <3>1, <3>2 DEF Pick
  <2>2. CASE task'[v] = task[v] /\ task'[w] = task[w] /\ pc[v] # "idle" /\ pc[w] # "idle"
    BY <1>1, <2>2, Grows DEF RunInv, Of
  <2> QED
    BY <1>1, <2>1, <2>2, TaskStep
<1>2. ASSUME NEW w \in Worker, pc'[w] \in Mid, Of(w)' \notin crossed'
      PROVE  status'[Of(w)'] \in {"pending", "deleted"}
  <2>1. task'[w] = task[w] /\ (pc[w] = pc'[w] \/ Advance(w))
    BY <1>2, RunStep DEF Mid, Pick, Goto, TypeOK
  <2>2. Of(w)' = Of(w) /\ pc[w] # "idle" /\ Of(w) \in Delivery /\ Of(w) \notin crossed
    BY <1>2, <2>1, Running, Grows DEF Of, Advance, Mid
  <2>3. CASE pc[w] \in Mid
    <3>1. status[Of(w)] \in {"pending", "deleted"}
      BY <2>2, <2>3 DEF RunInv
    <3>2. ~RowSettled(Of(w))
      <4> SUFFICES ASSUME NEW v \in Worker, pc[v] \in Mid, Of(v) = Of(w),
                          pc'[v] \in {"complete", "fail"}
                   PROVE  FALSE
        BY DEF RowSettled
      <4>1. v # w
        BY <1>2 DEF Mid
      <4> QED
        BY <2>2, <2>3, <4>1 DEF RunInv, Mid
    <3>3. RowKept(Of(w)) \/ RowDeleted(Of(w))
      BY <2>2, <3>1, <3>2, RowStep DEF RowCreated, RowClaimed
    <3> QED
      BY <2>2, <3>1, <3>3 DEF RowKept, RowDeleted
  <2>4. CASE pc[w] \notin Mid
    BY <1>2, <2>1, <2>2, <2>4 DEF Advance, Mid, rows
  <2> QED
    BY <2>3, <2>4
<1> QED
  BY <1>1, <1>2 DEF RunInv, Of

\* A row that a run has settled, or left for a later round, is not open to it again.
LEMMA ClosedKept ==
  ASSUME IInv, Next, NEW k \in JobId, Reached(k), ~Open(k)
  PROVE  ~Open(k)'
<1>1. k[1] \in Delivery /\ k[2] \in 0..MaxRound /\ round[k[1]] \in Nat
  BY Pairs, WebhookAssumption DEF IInv, TypeOK
<1> QED
  BY <1>1, RowStep DEF Open, Reached, RowKept, RowCreated, RowClaimed, RowSettled, RowDeleted

LEMMA StepEnd == ASSUME IInv, Next PROVE EndInv'
<1> USE DEF IInv
<1>1. ASSUME NEW w \in Worker, NEW k \in JobId, task'[w] = k, pc'[w] \in {"complete", "fail"}
      PROVE  /\ pc'[w] = "complete" => ~Open(k)'
             /\ pc'[w] = "fail" /\ tried'[w] + 1 >= Attempts => ~Open(k)' \/ k[1] \in stranded'
  <2>1. /\ task[w] = k /\ tried'[w] = tried[w] /\ pc[w] # "idle"
        /\ pc[w] = pc'[w] \/ Advance(w)
    BY <1>1, RunStep DEF Pick, Goto, TypeOK, Advance, Mid
  <2>2. Reached(k)
    BY <2>1 DEF RoundInv
  <2>3. CASE pc[w] = pc'[w]
    BY <1>1, <2>1, <2>2, <2>3, ClosedKept, Grows DEF EndInv, IsLastAttempt, Of
  <2>4. CASE Advance(w)
    BY <1>1, <2>1, <2>4 DEF Advance, Open, IsLastAttempt, Of, Mid, rows
  <2> QED
    BY <2>1, <2>3, <2>4
<1>2. ASSUME NEW w \in Worker, pc'[w] \in {"complete", "fail"}
      PROVE  \E k \in JobId : task'[w] = k
  BY <1>2, StepType, StepQueue DEF TypeOK, QueueInv
<1> QED
  BY <1>1, <1>2 DEF EndInv, Open, IsLastAttempt, Of

LEMMA StepFinished == ASSUME IInv, Next PROVE FinishedInv'
<1> USE DEF IInv
<1> SUFFICES ASSUME NEW d \in Delivery, NEW k \in JobId, k = <<d, round'[d]>>,
                    status'[d] = "pending", job'[k] \in {"completed", "failed"}
             PROVE  d \in stranded'
  BY StepType, Pairs DEF FinishedInv, TypeOK
<1>1. k[1] = d /\ k[2] = round'[d] /\ round[d] \in Nat
  BY WebhookAssumption DEF TypeOK
<1>2. CASE \E w \in Worker : Finish(w) /\ task[w] = k /\ holder[k] = w
  <2>1. PICK w \in Worker : Finish(w) /\ task[w] = k /\ holder[k] = w
    BY <1>2
  <2>2. Reached(k) /\ round'[d] = round[d] /\ status[d] = "pending"
    <3>1. UNCHANGED rows /\ pc[w] # "idle"
      BY <2>1 DEF Finish
    <3> QED
      BY <2>1, <3>1 DEF RoundInv, rows
  <2>3. Open(k) /\ stranded' = stranded
    BY <1>1, <2>1, <2>2 DEF Open, Finish, history
  <2>4. tried[w] = made[k]
    BY <2>1, WebhookAssumption DEF QueueInv
  <2>5. pc[w] = "fail" /\ tried[w] + 1 >= Attempts
    <3>1. pc[w] = "fail"
      BY <2>1, <2>3 DEF Finish, EndInv
    <3>2. job'[k] = IF made[k] + 1 < Attempts THEN "waiting" ELSE "failed"
      BY <2>1, <3>1 DEF Finish, TypeOK
    <3>3. made[k] \in Nat /\ Attempts \in Nat
      BY WebhookAssumption DEF TypeOK
    <3> QED
      BY <2>4, <3>1, <3>2, <3>3
  <2> QED
    BY <1>1, <2>1, <2>3, <2>5 DEF EndInv, IsLastAttempt, Of
<1>3. CASE job[k] = "active" /\ job'[k] = "failed" /\ k[1] \in stranded'
  BY <1>1, <1>3
<1>4. CASE job'[k] = job[k]
  <2>1. Reached(k)
    BY <1>4 DEF RoundInv, Held
  <2>2. RowKept(d)
    BY <1>1, <2>1, RowStep DEF Reached, RowCreated, RowClaimed, RowSettled, RowDeleted
  <2> QED
    BY <1>4, <2>2, Grows DEF RowKept, FinishedInv
<1> QED
  BY <1>2, <1>3, <1>4, JobStep

LEMMA StepTally == ASSUME IInv, Next PROVE TallyInv'
<1> USE WebhookAssumption DEF IInv
<1>1. TypeOK' /\ QueueInv'
  BY StepType, StepQueue
<1>2. ASSUME NEW k \in JobId, k[1] \notin crossed', k[2] = round'[k[1]]
      PROVE  made'[k] <= spent'[k[1]]
  <2>1. k[1] \in Delivery /\ round[k[1]] \in Nat /\ made[k] \in Nat /\ spent[k[1]] \in Nat
        /\ spent'[k[1]] \in Nat
    BY <1>1, Pairs DEF TypeOK
  <2>2. CASE RowClaimed(k[1])
    <3>1. ~Reached(k)
      BY <1>2, <2>1, <2>2 DEF Reached, RowClaimed
    <3>2. made[k] = 0 /\ \A w \in Worker : task[w] = k => pc[w] = "idle"
      BY <3>1 DEF RoundInv, QueueInv, Held
    <3>3. made'[k] = 0
      BY <3>2, MadeStep
    <3> QED
      BY <2>1, <3>3
  <2>3. CASE ~RowClaimed(k[1])
    <3>1. k[2] = round[k[1]] /\ spent'[k[1]] >= spent[k[1]] /\ k[1] \notin crossed
      BY <1>2, <2>1, <2>3, RowStep, SpentStep, Grows
        DEF RowKept, RowCreated, RowSettled, RowDeleted
    <3>2. made[k] <= spent[k[1]]
      BY <3>1 DEF TallyInv
    <3>3. ASSUME NEW w \in Worker, task[w] = k, holder[k] = w, pc[w] = "fail"
          PROVE  made[k] + 1 <= spent[k[1]]
      <4>1. tried[w] = made[k]
        BY <3>3 DEF QueueInv
      <4> QED
        BY <3>1, <3>3, <4>1 DEF TallyInv, Of
    <3> QED
      BY <2>1, <3>1, <3>2, <3>3, MadeStep
  <2> QED
    BY <2>2, <2>3
<1>3. ASSUME NEW w \in Worker, NEW k \in JobId, task'[w] = k, pc'[w] # "idle",
             k[1] \notin crossed'
      PROVE  /\ pc'[w] \in Mid => k[2] = round'[k[1]] /\ tried'[w] + 1 <= spent'[k[1]]
             /\ pc'[w] = "fail" /\ k[2] = round'[k[1]] => tried'[w] + 1 <= spent'[k[1]]
             /\ pc'[w] = "read" /\ k[2] = round'[k[1]] => tried'[w] <= spent'[k[1]]
  <2>1. /\ k[1] \in Delivery /\ k[2] \in Nat /\ round[k[1]] \in Nat
        /\ spent[k[1]] \in Nat /\ spent'[k[1]] \in Nat /\ tried[w] \in Nat
        /\ k[1] \notin crossed
    BY <1>1, <1>3, Pairs, Grows DEF TypeOK
  <2>2. ASSUME NEW l \in JobId, Pick(w, l)
        PROVE  pc'[w] = "read" /\ (tried'[w] <= spent'[k[1]] \/ k[2] # round'[k[1]])
    <3>1. l = k /\ tried'[w] = made[k] /\ UNCHANGED <<rows, spent>>
      BY <1>3, <2>2 DEF Pick, TypeOK
    <3> QED
      BY <2>1, <2>2, <3>1 DEF TallyInv, Pick, Goto, TypeOK, rows
  <2>3. CASE pc[w] = pc'[w] /\ task[w] = k /\ tried'[w] = tried[w]
    <3>1. Reached(k)
      BY <1>3, <2>3 DEF RoundInv
    <3>2. CASE RowClaimed(k[1])
      <4>1. k[2] # round'[k[1]]
        BY <2>1, <3>1, <3>2 DEF Reached, RowClaimed
      <4>2. pc[w] \notin Mid
        BY <2>1, <2>3, <3>2 DEF RunInv, RowClaimed, Of
      <4> QED
        BY <2>3, <4>1, <4>2
    <3>3. CASE ~RowClaimed(k[1])
      <4>1. round'[k[1]] = round[k[1]] /\ spent'[k[1]] >= spent[k[1]]
        BY <2>1, <3>3, RowStep, SpentStep DEF RowKept, RowCreated, RowSettled, RowDeleted
      <4>2. /\ pc[w] \in Mid => k[2] = round[k[1]] /\ tried[w] + 1 <= spent[k[1]]
            /\ pc[w] = "fail" /\ k[2] = round[k[1]] => tried[w] + 1 <= spent[k[1]]
            /\ pc[w] = "read" /\ k[2] = round[k[1]] => tried[w] <= spent[k[1]]
        BY <1>3, <2>1, <2>3 DEF TallyInv, Of
      <4> QED
        BY <2>1, <2>3, <4>1, <4>2
    <3> QED
      BY <3>2, <3>3
  <2>4. CASE task[w] = k /\ tried'[w] = tried[w] /\ Advance(w)
    <3>1. /\ pc[w] \in Mid => k[2] = round[k[1]] /\ tried[w] + 1 <= spent[k[1]]
          /\ pc[w] = "read" /\ k[2] = round[k[1]] => tried[w] <= spent[k[1]]
      BY <2>1, <2>4 DEF TallyInv, Of, Advance, Mid
    <3>2. Try(w) => k[2] = round[k[1]] /\ spent'[k[1]] = spent[k[1]] + 1
      BY <1>3, <2>1, <2>4 DEF Try, Of, TypeOK
    <3>3. UNCHANGED round
      BY <2>4 DEF Advance, rows
    <3> QED
      BY <2>1, <2>4, <3>1, <3>2, <3>3 DEF Advance, Mid
  <2> QED
    BY <1>3, <2>2, <2>3, <2>4, RunStep DEF Pick, Goto, TypeOK, Mid
<1>4. ASSUME NEW w \in Worker, pc'[w] # "idle"
      PROVE  \E k \in JobId : task'[w] = k
  BY <1>1, <1>4 DEF TypeOK, QueueInv
<1>5. \A k \in JobId :
        k[1] \notin crossed' /\ k[2] = round'[k[1]] => made'[k] <= spent'[k[1]]
  BY <1>2
<1>6. \A w \in Worker : pc'[w] # "idle" /\ Of(w)' \notin crossed' =>
        /\ pc'[w] \in Mid => task'[w][2] = round'[Of(w)'] /\ tried'[w] + 1 <= spent'[Of(w)']
        /\ pc'[w] = "fail" /\ task'[w][2] = round'[Of(w)'] => tried'[w] + 1 <= spent'[Of(w)']
        /\ pc'[w] = "read" /\ task'[w][2] = round'[Of(w)'] => tried'[w] <= spent'[Of(w)']
  BY <1>3, <1>4 DEF Of
<1> QED
  BY <1>5, <1>6 DEF TallyInv, Of

\* An enqueued id is that of a job that can run, unless its job is finished.
LEMMA Enqueued ==
  ASSUME TypeOK, NEW k \in JobId, Add(k)
  PROVE  job'[k] \in {"waiting", "active", "completed", "failed"}
BY DEF Add, Held, TypeOK

\* Where the fan-out of its message goes on, it still comes to the row, hands
\* its job to the queue, or passes over a row whose subscription is disabled.
LEMMA FanoutCarries ==
  ASSUME IInv, Next, NEW d \in Delivery, NEW k \in JobId, k = <<d, round[d]>>,
         status[d] = "pending",
         fan[d[2]] = "due" \/ d[1] \in todo[d[2]] \/ next[d[2]] = k
  PROVE  \/ fan'[d[2]] = "due" \/ d[1] \in todo'[d[2]] \/ next'[d[2]] = k
         \/ job'[k] \in {"waiting", "active", "completed", "failed"}
         \/ d \in stranded' \/ Claimed(d)'
<1> DEFINE Coming == fan'[d[2]] = "due" \/ d[1] \in todo'[d[2]] \/ next'[d[2]] = k
<1> USE DEF IInv, TypeOK
<1>1. d[2] \in Msg /\ d[1] \in Sub /\ d = <<d[1], d[2]>> /\ k # None
  BY Pairs
<1>2. ASSUME NEW m \in Msg, m # d[2], Fanout(m) \/ FanFails(m)
      PROVE  Coming
  <2>1. CASE FanRead(m) \/ FanEnqueue(m) \/ FanReturn(m) \/ FanSettle(m)
    BY <1>1, <1>2, <2>1 DEF FanRead, FanEnqueue, FanReturn, FanSettle
  <2>2. CASE FanFails(m) \/ \E s \in Sub : FanRefused(m, s)
    BY <1>1, <1>2, <2>2 DEF FanFails, FanRefused, Rehand
  <2>3. CASE \E s \in Sub : FanUpsert(m, s)
    BY <1>1, <1>2, <2>3 DEF FanUpsert
  <2> QED
    BY <1>2, <2>1, <2>2, <2>3 DEF Fanout
<1>3. CASE FanRead(d[2])
  <2>1. d[1] \in todo'[d[2]] \/ d \in stranded' \/ Held(k) \/ Claimed(d)
    BY <1>1, <1>3 DEF FanRead
  <2>2. job' = job /\ (Claimed(d)' <=> Claimed(d))
    BY <1>3 DEF FanRead, queue, rows, Claimed
  <2> QED
    BY <2>1, <2>2 DEF Held
<1>4. ASSUME NEW s \in Sub, FanUpsert(d[2], s)
      PROVE  Coming
  <2>1. CASE s = d[1]
    BY <1>1, <1>4, <2>1 DEF FanUpsert, Exists
  <2>2. CASE s # d[1]
    BY <1>1, <1>4, <2>2 DEF FanUpsert
  <2> QED
    BY <2>1, <2>2
<1>5. CASE FanFails(d[2]) \/ \E s \in Sub : FanRefused(d[2], s)
  BY <1>1, <1>5 DEF FanFails, FanRefused, Rehand
<1>6. CASE FanEnqueue(d[2])
  <2>1. UNCHANGED <<fan, todo>>
    BY <1>6 DEF FanEnqueue
  <2>2. next[d[2]] = k => job'[k] \in {"waiting", "active", "completed", "failed"}
    BY <1>6, Enqueued DEF FanEnqueue
  <2> QED
    BY <2>1, <2>2
<1>7. CASE FanReturn(d[2]) \/ FanSettle(d[2])
  BY <1>1, <1>7 DEF FanReturn, FanSettle
<1>8. CASE UNCHANGED fanout
  BY <1>8 DEF fanout
<1>9. UNCHANGED fanout \/ \E m \in Msg : Fanout(m) \/ FanFails(m)
  BY DEF Next, Process, ReadSettled, ReadDisabled, ReadPending, Send, WriteDelivered,
    WriteRefused, WriteDisabled, WriteMissing, Finish, DatabaseFails, WorkerDies, Pick,
    Trim, LoseLock, Stalled, Redeliver, RedeliverGet, RedeliverEnqueue, RedeliverFails,
    Create, SetActive, Remove, Prune
<1> QED
  BY <1>1, <1>2, <1>3, <1>4, <1>5, <1>6, <1>7, <1>8, <1>9 DEF Fanout

\* An administrator who claimed the row enqueues the job, or fails.
LEMMA ClaimCarries ==
  ASSUME IInv, Next, NEW d \in Delivery, NEW k \in JobId, k = <<d, round[d]>>,
         status[d] = "pending", NEW a \in Admin, admin[a].d = d, admin[a].id \in {None, k}
  PROVE  \/ admin'[a].d = d /\ admin'[a].id \in {None, k}
         \/ job'[k] \in {"waiting", "active", "completed", "failed"}
         \/ d \in stranded'
<1> USE DEF IInv, TypeOK
<1>1. d # None /\ k # None
  BY Pairs
<1>2. CASE RedeliverGet(a)
  BY <1>1, <1>2 DEF RedeliverGet, Exists
<1>3. CASE RedeliverEnqueue(a)
  BY <1>3, Enqueued DEF RedeliverEnqueue
<1>4. CASE RedeliverFails(a)
  BY <1>4 DEF RedeliverFails
<1>5. ASSUME NEW e \in Delivery, Redeliver(a, e)
      PROVE  FALSE
  BY <1>1, <1>5 DEF Redeliver, Idle
<1>6. ASSUME NEW b \in Admin, b # a,
             \/ RedeliverGet(b) \/ RedeliverEnqueue(b) \/ RedeliverFails(b)
             \/ \E e \in Delivery : Redeliver(b, e)
      PROVE  admin'[a] = admin[a]
  BY <1>6 DEF Redeliver, RedeliverGet, RedeliverEnqueue, RedeliverFails
<1>7. \/ UNCHANGED admin
      \/ \E b \in Admin : \/ RedeliverGet(b) \/ RedeliverEnqueue(b) \/ RedeliverFails(b)
                          \/ \E e \in Delivery : Redeliver(b, e)
  BY DEF Next, Process, ReadSettled, ReadDisabled, ReadPending, Send, WriteDelivered,
    WriteRefused, WriteDisabled, WriteMissing, Finish, DatabaseFails, WorkerDies, Pick,
    Trim, LoseLock, Stalled, Create, SetActive, Remove, Prune, Fanout, FanFails, FanRead, FanUpsert,
    FanRefused, FanEnqueue, FanReturn, FanSettle
<1> QED
  BY <1>2, <1>3, <1>4, <1>5, <1>6, <1>7

LEMMA StepCarried == ASSUME IInv, Next PROVE CarriedInv'
<1> USE DEF IInv
<1> SUFFICES ASSUME NEW d \in Delivery, status'[d] = "pending"
             PROVE  Carried(d)' \/ d \in stranded'
  BY DEF CarriedInv
<1>1. FinishedInv' /\ TypeOK'
  BY StepFinished, StepType
<1>2. PICK k \in JobId : k = <<d, round'[d]>>
  BY <1>1, Pairs DEF TypeOK
<1>3. job'[k] \in {"waiting", "active", "completed", "failed"} => Carried(d)' \/ d \in stranded'
  BY <1>1, <1>2 DEF Carried, FinishedInv
<1>4. CASE RowCreated(d)
  BY <1>4 DEF RowCreated, Carried
<1>5. CASE RowClaimed(d)
  BY <1>5 DEF RowClaimed, Carried, Claimed
<1>6. CASE RowKept(d)
  <2>1. status[d] = "pending" /\ k = <<d, round[d]>>
    BY <1>2, <1>6 DEF RowKept
  <2>2. CASE d \in stranded
    BY <2>2, Grows
  <2>3. CASE job[k] \in {"waiting", "active"}
    <3>1. \A w \in Worker : Finish(w) /\ task[w] = k /\ holder[k] = w => job'[k] # "none"
      BY DEF Finish, TypeOK
    <3>2. job'[k] # "none"
      BY <2>3, <3>1, JobStep
    <3>3. job'[k] \in {"waiting", "active", "completed", "failed"}
      BY <1>1, <3>2 DEF TypeOK
    <3> QED
      BY <1>3, <3>3
  <2>4. CASE fan[d[2]] = "due" \/ d[1] \in todo[d[2]] \/ next[d[2]] = k
    BY <1>2, <1>3, <2>1, <2>4, FanoutCarries DEF Carried
  <2>5. ASSUME NEW a \in Admin, admin[a].d = d, admin[a].id \in {None, k}
        PROVE  Carried(d)' \/ d \in stranded'
    BY <1>2, <1>3, <2>1, <2>5, ClaimCarries DEF Carried, Claimed
  <2> QED
    BY <2>1, <2>2, <2>3, <2>4, <2>5 DEF CarriedInv, Carried, Claimed
<1> QED
  BY <1>4, <1>5, <1>6, RowStep DEF RowSettled, RowDeleted

\* A step that is not a fault is none of the actions that model one.
LEMMA NoFault ==
  ASSUME IInv, Next, faults' = 0
  PROVE  /\ faults = 0
         /\ \A m \in Msg : ~FanFails(m)
         /\ \A w \in Worker : ~DatabaseFails(w) /\ ~WorkerDies(w)
         /\ \A k \in JobId : ~LoseLock(k)
         /\ \A a \in Admin : ~RedeliverFails(a)
<1>1. ~Fault
  BY DEF Fault, IInv, TypeOK
<1>2. ~UNCHANGED faults => faults = 0
  BY <1>1 DEF Next, Fanout, FanFails, FanRead, FanUpsert, FanRefused, FanEnqueue, FanReturn,
    FanSettle, Process, ReadSettled, ReadDisabled, ReadPending, Send, WriteDelivered, WriteRefused,
    WriteDisabled, WriteMissing, Finish, DatabaseFails, WorkerDies, Pick, Trim, LoseLock, Stalled,
    Redeliver, RedeliverGet, RedeliverEnqueue, RedeliverFails, Create, SetActive, Remove, Prune
<1> QED
  BY <1>1, <1>2 DEF FanFails, DatabaseFails, WorkerDies, LoseLock, RedeliverFails

\* A fan-out that has yet to read holds no job id.
LEMMA StepDue ==
  ASSUME IInv, Next, NEW m \in Msg, fan'[m] = "due"
  PROVE  next'[m] = None
<1> USE DEF IInv, TypeOK
<1>1. ASSUME NEW n \in Msg, Fanout(n) \/ FanFails(n)
      PROVE  next'[m] = None
  <2>1. CASE n = m
    BY <1>1, <2>1 DEF Fanout, FanFails, FanRead, FanUpsert, FanRefused, Rehand, FanEnqueue,
      FanReturn, FanSettle, FaultlessInv
  <2>2. CASE n # m
    <3>1. fan'[m] = fan[m] /\ next'[m] = next[m]
      BY <1>1, <2>2 DEF Fanout, FanFails, FanRead, FanUpsert, FanRefused, Rehand, FanEnqueue,
        FanReturn, FanSettle
    <3> QED
      BY <3>1 DEF FaultlessInv
  <2> QED
    BY <2>1, <2>2
<1>2. UNCHANGED fanout \/ \E n \in Msg : Fanout(n) \/ FanFails(n)
  BY DEF Next, Process, ReadSettled, ReadDisabled, ReadPending, Send, WriteDelivered,
    WriteRefused, WriteDisabled, WriteMissing, Finish, DatabaseFails, WorkerDies, Pick,
    Trim, LoseLock, Stalled, Redeliver, RedeliverGet, RedeliverEnqueue, RedeliverFails,
    Create, SetActive, Remove, Prune
<1> QED
  BY <1>1, <1>2 DEF fanout, FaultlessInv

\* While nothing has failed, the lock of a running job is held.
LEMMA StepHolder ==
  ASSUME IInv, Next, faults' = 0, NEW k \in JobId, job'[k] = "active"
  PROVE  holder'[k] # None
<1> USE DEF IInv, TypeOK
<1>0. faults = 0 /\ (job[k] = "active" => holder[k] # None)
  BY NoFault DEF FaultlessInv
<1>1. ASSUME NEW w \in Worker, NEW l \in JobId, Pick(w, l)
      PROVE  holder'[k] # None
  BY <1>0, <1>1, WebhookAssumption DEF Pick
<1>2. ASSUME NEW w \in Worker, Finish(w)
      PROVE  holder'[k] # None
  <2>1. task[w] \in JobId
    BY <1>2, Running DEF Finish
  <2> QED
    BY <1>0, <1>2, <2>1 DEF Finish
<1>3. ASSUME NEW l \in JobId, Trim(l) \/ Stalled(l)
      PROVE  holder'[k] # None
  BY <1>0, <1>3 DEF Trim, Stalled
<1>4. ASSUME NEW l \in JobId, Add(l)
      PROVE  holder'[k] # None
  BY <1>0, <1>4 DEF Add
<1>5. CASE \E a \in Admin : RedeliverEnqueue(a)
  BY <1>4, <1>5 DEF RedeliverEnqueue
<1>6. CASE \E m \in Msg : FanEnqueue(m)
  BY <1>4, <1>6 DEF FanEnqueue
<1>7. CASE UNCHANGED queue
  BY <1>0, <1>7 DEF queue
<1>8. ASSUME NEW w \in Worker, Process(w)
      PROVE  UNCHANGED queue \/ Finish(w)
  BY <1>8 DEF Process, ReadSettled, ReadDisabled, ReadPending, Send, WriteDelivered,
    WriteRefused, WriteDisabled, WriteMissing
<1>9. ASSUME NEW m \in Msg, Fanout(m)
      PROVE  UNCHANGED queue \/ FanEnqueue(m)
  BY <1>9 DEF Fanout, FanRead, FanUpsert, FanRefused, FanReturn, FanSettle
<1>10. ASSUME \/ \E a \in Admin : RedeliverGet(a) \/ \E d \in Delivery : Redeliver(a, d)
              \/ \E s \in Sub : Create(s) \/ SetActive(s) \/ Remove(s)
              \/ \E D \in SUBSET Delivery : Prune(D)
       PROVE  UNCHANGED queue
  BY <1>10 DEF RedeliverGet, Redeliver, Create, SetActive, Remove, Prune
<1> QED
  BY <1>1, <1>2, <1>3, <1>5, <1>6, <1>7, <1>8, <1>9, <1>10, NoFault DEF Next

\* While nothing has failed, no run of a row is given up: a fan-out that reads finds
\* every pending row's job, or its claim.
LEMMA StepStranded == ASSUME IInv, Next, faults' = 0 PROVE stranded' = {}
<1> USE DEF IInv, TypeOK
<1>0. faults = 0 /\ stranded = {}
  BY NoFault DEF FaultlessInv
<1>1. ASSUME NEW m \in Msg, FanRead(m)
      PROVE  stranded' = {}
  <2>1. next[m] = None
    BY <1>1 DEF FanRead, FaultlessInv
  <2>2. ASSUME NEW d \in Delivery, d[2] = m, status[d] = "pending"
        PROVE  Held(<<d, round[d]>>) \/ Claimed(d)
    BY <1>0, <2>1, <2>2, Pairs DEF FaultlessInv, Promised, Held
  <2>3. ASSUME NEW d \in stranded'
        PROVE  FALSE
    <3>1. PICK s \in Sub : d = <<s, m>>
      BY <1>0, <1>1, <2>3 DEF FanRead
    <3>2. d \in Delivery /\ d[2] = m
      BY <3>1, Pairs
    <3>3. status[d] = "pending" /\ ~Held(<<d, round[d]>>) /\ ~Claimed(d)
      BY <1>0, <1>1, <2>3 DEF FanRead
    <3> QED
      BY <2>2, <3>2, <3>3
  <2> QED
    BY <2>3
<1>2. ASSUME NEW k \in JobId, Stalled(k)
      PROVE  FALSE
  BY <1>0, <1>2 DEF Stalled, FaultlessInv
<1>3. CASE UNCHANGED stranded
  BY <1>0, <1>3
<1>4. UNCHANGED stranded \/ (\E m \in Msg : FanRead(m)) \/ (\E k \in JobId : Stalled(k))
  BY NoFault DEF Next, Fanout, FanUpsert, FanRefused, FanEnqueue, FanReturn, FanSettle,
    Process, ReadSettled, ReadDisabled, ReadPending, Send, WriteDelivered, WriteRefused,
    WriteDisabled, WriteMissing, Finish, Pick, Trim, Redeliver, RedeliverGet, RedeliverEnqueue,
    Create, SetActive, Remove, Prune, history
<1> QED
  BY <1>1, <1>2, <1>3, <1>4

\* A fan-out that holds the id of a job enqueues it, unless it fails.
LEMMA IdCarries ==
  ASSUME IInv, Next, NEW m \in Msg, NEW k \in JobId, next[m] = k, ~FanFails(m)
  PROVE  next'[m] = k \/ job'[k] \in {"waiting", "active", "completed", "failed"}
<1> USE DEF IInv, TypeOK
<1>0. k # None
  BY Pairs
<1>1. ASSUME NEW n \in Msg, Fanout(n) \/ FanFails(n), n # m
      PROVE  next'[m] = k
  BY <1>1 DEF Fanout, FanFails, FanRead, FanUpsert, FanRefused, Rehand, FanEnqueue, FanReturn,
    FanSettle
<1>2. CASE FanEnqueue(m)
  BY <1>2, Enqueued DEF FanEnqueue
<1>3. CASE Fanout(m) /\ ~FanEnqueue(m)
  BY <1>0, <1>3 DEF Fanout, FanRead, FanUpsert, FanRefused, FanReturn, FanSettle
<1>4. UNCHANGED fanout \/ \E n \in Msg : Fanout(n) \/ FanFails(n)
  BY DEF Next, Process, ReadSettled, ReadDisabled, ReadPending, Send, WriteDelivered,
    WriteRefused, WriteDisabled, WriteMissing, Finish, DatabaseFails, WorkerDies, Pick,
    Trim, LoseLock, Stalled, Redeliver, RedeliverGet, RedeliverEnqueue, RedeliverFails,
    Create, SetActive, Remove, Prune
<1> QED
  BY <1>1, <1>2, <1>3, <1>4 DEF fanout

LEMMA StepPromised ==
  ASSUME IInv, Next, faults' = 0, NEW d \in Delivery, status'[d] = "pending"
  PROVE  Promised(d)'
<1> USE DEF IInv
<1>0. /\ faults = 0 /\ stranded' = {} /\ FinishedInv' /\ TypeOK'
      /\ \A m \in Msg : ~FanFails(m)
  BY NoFault, StepStranded, StepFinished, StepType
<1>1. PICK k \in JobId : k = <<d, round'[d]>>
  BY <1>0, Pairs DEF TypeOK
<1>2. job'[k] \in {"waiting", "active", "completed", "failed"} => Promised(d)'
  BY <1>0, <1>1 DEF Promised, FinishedInv
<1>3. CASE RowCreated(d) \/ RowClaimed(d)
  BY <1>3 DEF RowCreated, RowClaimed, Promised, Claimed
<1>4. CASE RowKept(d)
  <2>1. status[d] = "pending" /\ k = <<d, round[d]>> /\ d[2] \in Msg
    BY <1>1, <1>4, Pairs DEF RowKept
  <2>2. CASE job[k] \in {"waiting", "active"}
    <3>1. \A w \in Worker : Finish(w) /\ task[w] = k /\ holder[k] = w => job'[k] # "none"
      BY DEF Finish, TypeOK
    <3>2. job'[k] # "none"
      BY <2>2, <3>1, JobStep
    <3>3. job'[k] \in {"waiting", "active", "completed", "failed"}
      BY <1>0, <3>2 DEF TypeOK
    <3> QED
      BY <1>2, <3>3
  <2>3. CASE next[d[2]] = k
    <3>1. next'[d[2]] = k \/ job'[k] \in {"waiting", "active", "completed", "failed"}
      BY <1>0, <2>1, <2>3, IdCarries
    <3> QED
      BY <1>1, <1>2, <3>1 DEF Promised
  <2>4. ASSUME NEW a \in Admin, admin[a].d = d, admin[a].id \in {None, k}
        PROVE  Promised(d)'
    BY <1>0, <1>1, <1>2, <2>1, <2>4, ClaimCarries DEF Promised, Claimed
  <2> QED
    BY <1>0, <2>1, <2>2, <2>3, <2>4 DEF FaultlessInv, Promised, Claimed
<1> QED
  BY <1>3, <1>4, RowStep DEF RowSettled, RowDeleted

LEMMA StepFaultless == ASSUME IInv, Next PROVE FaultlessInv'
BY StepDue, StepStranded, StepPromised, StepHolder DEF FaultlessInv

LEMMA StepDead == ASSUME IInv, Next PROVE DeadIsSpent'
<1> USE WebhookAssumption DEF IInv
<1> SUFFICES ASSUME NEW d \in Delivery, status'[d] = "dead", d \notin off' \cup crossed'
             PROVE  spent'[d] >= Attempts
  BY DEF DeadIsSpent
<1>1. spent[d] \in Nat /\ spent'[d] \in Nat /\ d \notin crossed
  BY StepType, Grows DEF TypeOK
<1>2. spent'[d] >= spent[d]
  BY SpentStep DEF RowClaimed
<1>3. CASE RowKept(d)
  <2>1. d \notin off
    <3> SUFFICES ASSUME d \in off PROVE FALSE
      OBVIOUS
    <3>1. off' = off \/ \E w \in Worker : WriteRefused(w) \/ WriteDisabled(w)
      BY DEF Next, Process, ReadSettled, ReadDisabled, ReadPending, Send, WriteDelivered,
        WriteMissing, Finish, DatabaseFails, WorkerDies, Pick, Trim, LoseLock, Stalled,
        Redeliver, RedeliverGet, RedeliverEnqueue, RedeliverFails, Create, SetActive, Remove, Prune,
        Fanout, FanFails, FanRead, FanUpsert, FanRefused, FanEnqueue, FanReturn, FanSettle, history
    <3>2. PICK w \in Worker : WriteRefused(w) /\ Of(w) = d
      BY <3>1 DEF WriteRefused, WriteDisabled
    <3>3. pc[w] \in Mid
      BY <3>2 DEF WriteRefused, Goto, Mid
    <3> QED
      BY <1>1, <1>3, <3>2, <3>3 DEF RunInv, RowKept
  <2> QED
    BY <1>1, <1>2, <1>3, <2>1 DEF RowKept, DeadIsSpent
<1>4. CASE RowSettled(d)
  <2>1. PICK w \in Worker : pc[w] \in Mid /\ Of(w) = d /\ IsLastAttempt(w)
    BY <1>4 DEF RowSettled
  <2>2. tried[w] + 1 <= spent[d] /\ tried[w] \in Nat
    BY <1>1, <2>1 DEF TallyInv, Mid, TypeOK
  <2> QED
    BY <1>1, <1>2, <2>1, <2>2 DEF IsLastAttempt
<1> QED
  BY <1>3, <1>4, RowStep DEF RowCreated, RowClaimed, RowDeleted

-----------------------------------------------------------------------------
LEMMA StepInv == ASSUME IInv, [Next]_vars PROVE IInv'
<1>1. CASE Next
  BY <1>1, StepType, StepQueue, StepRound, StepDeleted, StepRun, StepEnd, StepFinished,
    StepTally, StepCarried, StepFaultless, StepDead DEF IInv
<1>2. CASE UNCHANGED vars
  <2> USE <1>2 DEF vars, rows, fanout, queue, workers, history
  <2>1. TypeOK' /\ QueueInv' /\ RoundInv' /\ DeletedInv'
    BY DEF IInv, TypeOK, QueueInv, RoundInv, Reached, Held, DeletedInv
  <2>2. RunInv' /\ EndInv'
    BY DEF IInv, RunInv, EndInv, Open, Of, IsLastAttempt
  <2>3. FinishedInv' /\ TallyInv'
    BY DEF IInv, FinishedInv, TallyInv, Of
  <2>4. CarriedInv' /\ FaultlessInv' /\ DeadIsSpent'
    BY DEF IInv, CarriedInv, Carried, Claimed, FaultlessInv, Promised, DeadIsSpent
  <2> QED
    BY <2>1, <2>2, <2>3, <2>4 DEF IInv
<1> QED
  BY <1>1, <1>2

\* The inductive invariant of the delivery log, its queue and its runs.
THEOREM Invariance == Spec => []IInv
BY InitInv, StepInv, PTL DEF Spec

\* Every variable keeps its type; in particular BullMQ never counts an attempt
\* or a stall beyond its limits.
THEOREM TypeCorrect == Spec => []TypeOK
<1>1. IInv => TypeOK
  BY DEF IInv
<1> QED
  BY Invariance, <1>1, PTL

\* A pending delivery always has somebody to bring it on, or is one that the
\* code gives up, which it never does before something has failed: for any number of
\* workers, redeliveries, crashes and stalls.
THEOREM NothingIsLost == Spec => []PendingIsCarried
<1>1. IInv => PendingIsCarried
  <2> SUFFICES ASSUME IInv, NEW d \in Delivery, status[d] = "pending"
               PROVE  Carried(d) \/ (d \in stranded /\ faults > 0)
    BY DEF PendingIsCarried
  <2>1. CASE faults = 0
    BY <2>1 DEF IInv, FaultlessInv, Promised, Carried
  <2>2. CASE faults # 0
    <3>1. faults > 0
      BY <2>2, WebhookAssumption DEF IInv, TypeOK
    <3> QED
      BY <3>1 DEF IInv, CarriedInv
  <2> QED
    BY <2>1, <2>2
<1> QED
  BY Invariance, <1>1, PTL

\* The receiver of a delivery is not called for a row that is settled, unless two runs
\* of the delivery crossed: what process() read is still so, or the row was deleted, by
\* the time the request goes out.
SentIsOpen ==
  \A w \in Worker : pc[w] = "send" =>
    status[Of(w)] \in {"pending", "deleted"} \/ Of(w) \in crossed

THEOREM SettledNotSent == Spec => []SentIsOpen
<1>1. IInv => SentIsOpen
  BY DEF IInv, RunInv, Mid, SentIsOpen
<1> QED
  BY Invariance, <1>1, PTL

\* No dead letter before its budget is spent, unless two runs crossed.
THEOREM BudgetIsSpent == Spec => []DeadIsSpent
<1>1. IInv => DeadIsSpent
  BY DEF IInv
<1> QED
  BY Invariance, <1>1, PTL

\* A settled delivery changes by redelivery or deletion only, unless two runs
\* of it crossed.
THEOREM SettledStays == Spec => SettledStands
<1>1. IInv /\ [Next]_vars =>
        [\A d \in Delivery :
           /\ status[d] = "delivered" => status'[d] \in {"delivered", "deleted"} \/ d \in crossed'
           /\ status[d] = "dead" =>
                \/ status'[d] \in {"dead", "deleted"}
                \/ status'[d] = "pending" /\ round'[d] = round[d] + 1
                \/ d \in crossed']_vars
  <2> SUFFICES ASSUME IInv, Next, NEW d \in Delivery, status[d] \in {"delivered", "dead"}
               PROVE  \/ status'[d] \in {status[d], "deleted"}
                      \/ status[d] = "dead" /\ status'[d] = "pending" /\ round'[d] = round[d] + 1
                      \/ d \in crossed'
    BY DEF vars
  <2>1. RowSettled(d) => d \in crossed'
    BY Grows DEF RowSettled, IInv, RunInv
  <2> QED
    BY <2>1, RowStep DEF RowKept, RowCreated, RowClaimed, RowDeleted
<1> QED
  BY <1>1, Invariance, PTL DEF Spec, SettledStands
=============================================================================
