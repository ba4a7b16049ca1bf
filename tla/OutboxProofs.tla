---------------------------- MODULE OutboxProofs ----------------------------
(***************************************************************************)
(* Proofs about Outbox, for every set of messages, handlers and relays and *)
(* every value of its bounds, whether or not the lock may expire.          *)
(*                                                                         *)
(* The invariant says what a relay's stale copies still guarantee: a       *)
(* handler of the message being delivered that is neither waiting its turn *)
(* nor between its end and its receipt has its receipt, unless one failed  *)
(* or the message was pruned meanwhile.                                    *)
(***************************************************************************)
EXTENDS Outbox, TLAPS

\* What relay r still knows of the message it delivers and of its batch.
RelayInv(r) ==
  /\ pc[r] = "next" => batch[r] # <<>>
  /\ \A i \in DOMAIN batch[r] : status[batch[r][i].msg] # "absent"
  /\ pc[r] \in {"deliver", "receipt"} =>
       /\ cur[r] \in Row
       /\ status[cur[r].msg] # "absent"
       /\ todo[r] \subseteq HandlersOf[cur[r].msg]
       /\ ~failed[r] /\ status[cur[r].msg] # "pruned" =>
            HandlersOf[cur[r].msg] \subseteq receipts[cur[r].msg] \cup todo[r] \cup {running[r]}
  /\ pc[r] # "receipt" => running[r] = None
  /\ pc[r] = "receipt" => running[r] \in Handler /\ running[r] \in ran[cur[r].msg]

\* What the tables and the handlers' effects have to do with each other.
MessageInv(m) ==
  /\ receipts[m] \subseteq ran[m]
  /\ status[m] = "delivered" => HandlersOf[m] \subseteq receipts[m]
  /\ m \in aged => status[m] \in {"delivered", "dead"}

\* Only staged messages are due, and prune only holds what was once settled.
QueueInv == \A i \in DOMAIN queue : status[queue[i]] # "absent"
PruneInv ==
  prune.step # "idle" =>
    \A m \in prune.ids :
      \/ status[m] \in {"delivered", "dead"}
      \/ m \in Operated /\ status[m] = "pending"

IInv ==
  /\ TypeOK
  /\ \A r \in Relay : RelayInv(r)
  /\ \A m \in Message : MessageInv(m)
  /\ QueueInv
  /\ PruneInv

\* What no step of anyone ever takes back.
Monotone ==
  \A m \in Message :
    /\ status[m] # "absent" => status'[m] # "absent"
    /\ status[m] = "pruned" => status'[m] = "pruned"
    /\ status'[m] # "pruned" => receipts[m] \subseteq receipts'[m]
    /\ ran[m] \subseteq ran'[m]

-----------------------------------------------------------------------------
\* Dequeue leaves a sequence of some of the queue's messages.
LEMMA DequeueType ==
  ASSUME TypeOK, NEW M, Dequeue(M)
  PROVE  /\ queue' \in Seq(Message)
         /\ \A i \in DOMAIN queue' : \E j \in DOMAIN queue : queue'[i] = queue[j]
<1>0. PICK n \in 0..Len(queue) : \E pos \in [1..n -> DOMAIN queue] :
        queue' = [i \in 1..n |-> queue[pos[i]]]
  BY DEF Dequeue
<1>1. PICK pos \in [1..n -> DOMAIN queue] : queue' = [i \in 1..n |-> queue[pos[i]]]
  BY <1>0
<1>2. queue \in Seq(Message)
  BY DEF TypeOK
<1>3. n \in Nat /\ \A i \in 1..n : pos[i] \in DOMAIN queue /\ queue[pos[i]] \in Message
  BY <1>2
<1>4. queue' \in Seq(Message) /\ DOMAIN queue' = 1..n
  BY <1>1, <1>3
<1> QED
  BY <1>1, <1>3, <1>4

\* So a queue of staged messages stays one when messages leave it.
LEMMA DequeueStaged ==
  ASSUME TypeOK, QueueInv, NEW M, Dequeue(M),
         \A m \in Message : status[m] # "absent" => status'[m] # "absent"
  PROVE  QueueInv'
<1>1. \A i \in DOMAIN queue' : \E j \in DOMAIN queue : queue'[i] = queue[j]
  BY DequeueType
<1>2. \A j \in DOMAIN queue : queue[j] \in Message
  BY DEF TypeOK
<1> QED
  BY <1>1, <1>2 DEF QueueInv

\* One more message at the end of the queue.
LEMMA EnqueueStaged ==
  ASSUME TypeOK, QueueInv, NEW m \in Message, Enqueue(m), status'[m] # "absent",
         \A n \in Message : status[n] # "absent" => status'[n] # "absent"
  PROVE  queue' \in Seq(Message) /\ QueueInv'
<1>1. queue \in Seq(Message) /\ queue' = Append(queue, m)
  BY DEF TypeOK, Enqueue
<1>2. queue' \in Seq(Message)
  BY <1>1
<1>3. \A i \in DOMAIN queue' : queue'[i] = m \/ (i \in DOMAIN queue /\ queue'[i] = queue[i])
  BY <1>1
<1>4. \A j \in DOMAIN queue : queue[j] \in Message
  BY <1>1
<1> QED
  BY <1>2, <1>3, <1>4 DEF QueueInv

\* The steps of others leave what a relay knows true.
LEMMA Bystander ==
  ASSUME TypeOK, Monotone, NEW r \in Relay, RelayInv(r),
         pc'[r] = pc[r], batch'[r] = batch[r], cur'[r] = cur[r],
         todo'[r] = todo[r], running'[r] = running[r], failed'[r] = failed[r]
  PROVE  RelayInv(r)'
<1>1. \A i \in DOMAIN batch[r] : batch[r][i].msg \in Message
  <2>1. batch[r] \in Seq(Row)
    BY DEF TypeOK
  <2>2. \A i \in DOMAIN batch[r] : batch[r][i] \in Row
    BY <2>1
  <2> QED
    BY <2>2 DEF Row
<1>2. cur[r] \in Row => cur[r].msg \in Message
  BY DEF Row
<1> QED
  BY <1>1, <1>2 DEF Monotone, RelayInv

-----------------------------------------------------------------------------
\* No step takes back a staging, a pruning, a receipt of a message that still
\* exists, or an effect.
LEMMA StepMonotone ==
  ASSUME IInv, [Next]_vars
  PROVE  Monotone
<1> USE DEF IInv, TypeOK, Monotone
<1>1. CASE \E r \in Relay : Acquire(r) \/ Fetch(r) \/ FetchNothing(r) \/ Begin(r)
  BY <1>1 DEF Acquire, Fetch, FetchNothing, Begin, rows
<1>2. ASSUME NEW r \in Relay, NEW h \in Handler, HandlerDone(r, h)
      PROVE  Monotone
  BY <1>2 DEF HandlerDone, rows
<1>3. CASE \E r \in Relay, h \in Handler : HandlerFails(r, h)
  BY <1>3 DEF HandlerFails, rows
<1>4. ASSUME NEW r \in Relay, WriteReceipt(r)
      PROVE  Monotone
  BY <1>4 DEF WriteReceipt
<1>5. CASE \E r \in Relay : ReceiptFails(r) \/ Release(r) \/ RelayFault(r)
  BY <1>5 DEF ReceiptFails, Release, RelayFault, DrainError, Crash, HandlerKills, rows
<1>6. ASSUME NEW r \in Relay, SettleDelivered(r)
      PROVE  Monotone
  BY <1>6 DEF SettleDelivered
<1>7. ASSUME NEW r \in Relay, RecordFailure(r)
      PROVE  Monotone
  BY <1>7 DEF RecordFailure
<1>8. ASSUME NEW m \in Message, MessageStep(m)
      PROVE  Monotone
  BY <1>8 DEF MessageStep, Stage, BackoffElapses, Requeue, Age, rows
<1>9. CASE PruneSelect \/ PruneReceipts \/ Expire
  BY <1>9 DEF PruneSelect, PruneReceipts, Expire, rows
<1>10. CASE PruneMessages
  BY <1>10 DEF PruneMessages
<1>11. CASE UNCHANGED vars
  BY <1>11 DEF vars, rows
<1> QED
  BY <1>1, <1>2, <1>3, <1>4, <1>5, <1>6, <1>7, <1>8, <1>9, <1>10, <1>11
     DEF Next, RelayStep, Prune

\* No step leaves the types.
LEMMA StepType ==
  ASSUME IInv, [Next]_vars
  PROVE  TypeOK'
<1> USE DEF IInv, TypeOK
<1>1. ASSUME NEW r \in Relay, Acquire(r)
      PROVE  TypeOK'
  BY <1>1 DEF Acquire, Goto, rows, Draining
<1>2. ASSUME NEW r \in Relay, Fetch(r)
      PROVE  TypeOK'
  <2> DEFINE n == Smaller(BatchSize, Len(queue))
             read == [i \in 1..n |-> [msg |-> queue[i], attempts |-> attempts[queue[i]]]]
  <2>1. /\ queue \in Seq(Message) /\ attempts \in [Message -> Nat]
        /\ batches[r] \in 0..MaxBatches
    OBVIOUS
  <2>a. n \in Nat /\ n <= Len(queue)
    BY <2>1, OutboxAssumption DEF Smaller
  <2>b. \A i \in 1..n : queue[i] \in Message /\ attempts[queue[i]] \in Nat
    BY <2>1, <2>a
  <2>c. \A i \in 1..n : [msg |-> queue[i], attempts |-> attempts[queue[i]]] \in Row
    BY <2>b DEF Row
  <2>d. read \in [1..n -> Row]
    BY <2>c
  <2>e. \A k \in Nat : \A f \in [1..k -> Row] : f \in Seq(Row)
    OBVIOUS
  <2>2. read \in Seq(Row)
    BY <2>a, <2>d, <2>e
  <2>3. batch' \in [Relay -> Seq(Row)]
    BY <1>2, <2>2 DEF Fetch
  <2>4. batches' \in [Relay -> 0..MaxBatches]
    BY <1>2, <2>1, OutboxAssumption DEF Fetch
  <2> QED
    BY <1>2, <2>3, <2>4 DEF Fetch, Goto, rows, Draining
<1>3. ASSUME NEW r \in Relay, Begin(r)
      PROVE  TypeOK'
  <2>1. batch[r] \in Seq(Row) /\ batch[r] # <<>>
    BY <1>3 DEF Begin, Goto, RelayInv
  <2>2. Head(batch[r]) \in Row /\ Tail(batch[r]) \in Seq(Row)
    BY <2>1
  <2>3. batch' \in [Relay -> Seq(Row)] /\ cur' \in [Relay -> Row \cup {None}]
    BY <1>3, <2>2 DEF Begin
  <2>4. HandlersOf[Head(batch[r]).msg] \subseteq Handler
    BY <2>2, OutboxAssumption DEF Row
  <2>5. todo' \in [Relay -> SUBSET Handler]
    BY <1>3, <2>4 DEF Begin
  <2> QED
    BY <1>3, <2>3, <2>5 DEF Begin, Goto, rows, Draining
<1>4. ASSUME NEW r \in Relay, NEW h \in Handler, HandlerDone(r, h)
      PROVE  TypeOK'
  <2>1. cur[r].msg \in Message
    BY <1>4 DEF HandlerDone, Goto, RelayInv, Row
  <2>2. ran' \in [Message -> SUBSET Handler]
    BY <1>4, <2>1 DEF HandlerDone
  <2>3. /\ running' \in [Relay -> Handler \cup {None}]
        /\ todo' \in [Relay -> SUBSET Handler]
        /\ pc' \in [Relay -> Draining \cup {"idle", "release"}]
    BY <1>4 DEF HandlerDone, Goto, Draining
  <2> QED
    BY <1>4, <2>2, <2>3 DEF HandlerDone, rows
<1>4a. ASSUME NEW r \in Relay, NEW h \in Handler, HandlerFails(r, h)
       PROVE  TypeOK'
  BY <1>4a DEF HandlerFails, rows
<1>5. ASSUME NEW r \in Relay, WriteReceipt(r)
      PROVE  TypeOK'
  <2>1. cur[r].msg \in Message /\ running[r] \in Handler
    BY <1>5 DEF WriteReceipt, Goto, RelayInv, Row
  <2>2. receipts' \in [Message -> SUBSET Handler]
    BY <1>5, <2>1 DEF WriteReceipt
  <2>3. /\ running' \in [Relay -> Handler \cup {None}]
        /\ pc' \in [Relay -> Draining \cup {"idle", "release"}]
    BY <1>5 DEF WriteReceipt, Goto, Draining
  <2> QED
    BY <1>5, <2>2, <2>3 DEF WriteReceipt
<1>5a. ASSUME NEW r \in Relay, ReceiptFails(r)
       PROVE  TypeOK'
  <2>1. /\ running' \in [Relay -> Handler \cup {None}]
        /\ failed' \in [Relay -> BOOLEAN]
        /\ pc' \in [Relay -> Draining \cup {"idle", "release"}]
    BY <1>5a DEF ReceiptFails, Goto, Draining
  <2>2. faults' \in 0..MaxFaults
    BY <1>5a, OutboxAssumption DEF ReceiptFails, Fault
  <2> QED
    BY <1>5a, <2>1, <2>2 DEF ReceiptFails, rows
<1>6. ASSUME NEW r \in Relay, SettleDelivered(r)
      PROVE  TypeOK'
  <2>1. queue' \in Seq(Message)
    BY <1>6, DequeueType DEF SettleDelivered
  <2> QED
    BY <1>6, <2>1 DEF SettleDelivered, EndDelivery, Draining, Statuses
<1>7. ASSUME NEW r \in Relay, RecordFailure(r)
      PROVE  TypeOK'
  <2>1. queue' \in Seq(Message)
    BY <1>7, DequeueType DEF RecordFailure
  <2>2. cur[r] \in Row /\ cur[r].msg \in Message /\ cur[r].attempts + 1 \in Nat
    BY <1>7 DEF RecordFailure, EndDelivery, RelayInv, Row
  <2>3. \A n \in 0..MaxAttempts : Smaller(n + 1, MaxAttempts) \in 0..MaxAttempts
    BY OutboxAssumption DEF Smaller
  <2>4. attempts' \in [Message -> Nat]
    BY <1>7, <2>2 DEF RecordFailure
  <2>4a. rounds' \in [Message -> 0..MaxAttempts]
    <3>1. Smaller(rounds[cur[r].msg] + 1, MaxAttempts) \in 0..MaxAttempts
      BY <2>2, <2>3
    <3>2. CASE status[cur[r].msg] = "pending"
      <4>1. rounds' = [rounds EXCEPT ![cur[r].msg] = Smaller(@ + 1, MaxAttempts)]
        BY <1>7, <3>2 DEF RecordFailure
      <4> QED
        BY <3>1, <4>1
    <3>3. CASE status[cur[r].msg] # "pending"
      BY <1>7, <3>3 DEF RecordFailure
    <3> QED
      BY <3>2, <3>3
  <2>5. status' \in [Message -> Statuses]
    <3>1. \/ status' = status
          \/ status' = [status EXCEPT ![cur[r].msg] = "dead"]
      BY <1>7 DEF RecordFailure
    <3> QED
      BY <3>1 DEF Statuses
  <2> QED
    BY <1>7, <2>1, <2>4, <2>4a, <2>5 DEF RecordFailure, EndDelivery, Draining
<1>8. ASSUME NEW r \in Relay, FetchNothing(r) \/ RelayFault(r)
      PROVE  TypeOK'
  <2>1. Forget(r) /\ UNCHANGED <<rows, aged, owner, prune, ran, rounds>>
    BY <1>8 DEF FetchNothing, RelayFault, DrainError, Crash, HandlerKills
  <2>2. /\ batch' \in [Relay -> Seq(Row)] /\ batches' \in [Relay -> 0..MaxBatches]
        /\ cur' \in [Relay -> Row \cup {None}] /\ todo' \in [Relay -> SUBSET Handler]
        /\ running' \in [Relay -> Handler \cup {None}] /\ failed' \in [Relay -> BOOLEAN]
    BY <2>1, OutboxAssumption DEF Forget
  <2>3. pc' \in [Relay -> Draining \cup {"idle", "release"}]
    BY <1>8 DEF FetchNothing, RelayFault, DrainError, Crash, HandlerKills, Goto
  <2>4. faults' \in 0..MaxFaults
    BY <1>8, OutboxAssumption DEF FetchNothing, RelayFault, DrainError, Crash, HandlerKills, Fault
  <2> QED
    BY <2>1, <2>2, <2>3, <2>4 DEF rows
<1>9. ASSUME NEW r \in Relay, Release(r)
      PROVE  TypeOK'
  BY <1>9 DEF Release, Goto, rows
<1>10. ASSUME NEW m \in Message, Stage(m) \/ BackoffElapses(m) \/ Requeue(m)
       PROVE  TypeOK'
  <2>1. queue' = Append(queue, m)
    BY <1>10 DEF Stage, BackoffElapses, Requeue, Enqueue
  <2>2. queue' \in Seq(Message)
    BY <2>1
  <2>3. CASE Stage(m)
    BY <2>2, <2>3 DEF Stage, Statuses, relayVars
  <2>4. CASE BackoffElapses(m)
    BY <2>2, <2>4 DEF BackoffElapses, relayVars
  <2>5. CASE Requeue(m)
    BY <2>2, <2>5, OutboxAssumption DEF Requeue, Statuses, relayVars
  <2> QED
    BY <1>10, <2>3, <2>4, <2>5
<1>11. ASSUME NEW m \in Message, Age(m)
       PROVE  TypeOK'
  BY <1>11 DEF Age, rows, relayVars
<1>12. CASE PruneSelect \/ PruneReceipts
  <2>1. CASE PruneSelect
    <3>1. prune' = [prune EXCEPT !.step = "selected", !.ids = aged]
      BY <2>1 DEF PruneSelect
    <3>2. prune' \in [step : {"idle", "selected", "deleting"}, ids : SUBSET Message,
                      seen : [Message -> SUBSET Handler]]
      BY <3>1
    <3> QED
      BY <2>1, <3>2 DEF PruneSelect, rows, relayVars
  <2>2. CASE PruneReceipts
    <3> DEFINE seen == [m \in Message |-> IF m \in prune.ids THEN receipts[m] ELSE {}]
    <3>1. seen \in [Message -> SUBSET Handler]
      OBVIOUS
    <3>2. prune' = [prune EXCEPT !.step = "deleting", !.seen = seen]
      BY <2>2 DEF PruneReceipts
    <3>3. prune' \in [step : {"idle", "selected", "deleting"}, ids : SUBSET Message,
                      seen : [Message -> SUBSET Handler]]
      BY <3>1, <3>2
    <3> QED
      BY <2>2, <3>3 DEF PruneReceipts, rows, relayVars
  <2> QED
    BY <1>12, <2>1, <2>2
<1>13. CASE PruneMessages
  <2>1. queue' \in Seq(Message)
    BY <1>13, DequeueType DEF PruneMessages
  <2>2. prune' \in [step : {"idle", "selected", "deleting"}, ids : SUBSET Message,
                    seen : [Message -> SUBSET Handler]]
    BY <1>13 DEF PruneMessages, Idle
  <2> QED
    BY <1>13, <2>1, <2>2 DEF PruneMessages, relayVars, Statuses
<1>14. CASE Expire
  BY <1>14 DEF Expire, rows, relayVars
<1>15. CASE UNCHANGED vars
  BY <1>15 DEF vars, rows, relayVars
<1> QED
  BY <1>1, <1>2, <1>3, <1>4, <1>4a, <1>5, <1>5a, <1>6, <1>7, <1>8, <1>9, <1>10, <1>11,
     <1>12, <1>13, <1>14, <1>15
     DEF Next, RelayStep, MessageStep, Prune

\* No step leaves a relay with less than RelayInv.
LEMMA StepRelay ==
  ASSUME IInv, [Next]_vars, NEW q \in Relay
  PROVE  RelayInv(q)'
<1>1. Monotone
  BY StepMonotone
<1>2. TypeOK /\ RelayInv(q)
  BY DEF IInv
<1>3. CASE UNCHANGED <<pc[q], batch[q], cur[q], todo[q], running[q], failed[q]>>
  BY <1>1, <1>2, <1>3, Bystander
<1>4. CASE UNCHANGED relayVars
  BY <1>3, <1>4 DEF relayVars
<1>5. ASSUME NEW r \in Relay, r # q, Acquire(r) \/ RelayStep(r) \/ RelayFault(r)
      PROVE  RelayInv(q)'
  <2>1. UNCHANGED <<pc[q], batch[q], cur[q], todo[q], running[q], failed[q]>>
    <3> USE DEF TypeOK, Goto, Forget
    <3>1. CASE Acquire(r) \/ Fetch(r) \/ FetchNothing(r) \/ Begin(r) \/ Release(r)
      BY <1>2, <1>5, <3>1 DEF Acquire, Fetch, FetchNothing, Begin, Release
    <3>2. CASE \E h \in Handler : HandlerDone(r, h) \/ HandlerFails(r, h)
      BY <1>2, <1>5, <3>2 DEF HandlerDone, HandlerFails
    <3>3. CASE WriteReceipt(r) \/ ReceiptFails(r)
      BY <1>2, <1>5, <3>3 DEF WriteReceipt, ReceiptFails
    <3>4. CASE SettleDelivered(r) \/ RecordFailure(r)
      BY <1>2, <1>5, <3>4 DEF SettleDelivered, RecordFailure, EndDelivery
    <3>5. CASE RelayFault(r)
      BY <1>2, <1>5, <3>5 DEF RelayFault, DrainError, Crash, HandlerKills
    <3> QED
      BY <1>5, <3>1, <3>2, <3>3, <3>4, <3>5 DEF RelayStep
  <2> QED
    BY <1>3, <2>1
<1>6. CASE Acquire(q)
  BY <1>1, <1>2, <1>6 DEF Acquire, Goto, RelayInv, TypeOK, Monotone, rows
<1>7. CASE Fetch(q)
  <2> DEFINE n == Smaller(BatchSize, Len(queue))
             read == [i \in 1..n |-> [msg |-> queue[i], attempts |-> attempts[queue[i]]]]
  <2>1. queue \in Seq(Message) /\ queue # <<>>
    BY <1>2, <1>7 DEF Fetch, TypeOK
  <2>2. n \in Nat \ {0} /\ n <= Len(queue)
    BY <2>1, OutboxAssumption DEF Smaller
  <2>3. batch'[q] = read /\ pc'[q] = "next" /\ running'[q] = running[q] /\ status' = status
    BY <1>2, <1>7 DEF Fetch, Goto, TypeOK, rows
  <2>4. DOMAIN read = 1..n /\ 1 \in 1..n
    BY <2>2
  <2>5. read # <<>>
    BY <2>4
  <2>6. \A i \in DOMAIN read : status[read[i].msg] # "absent"
    BY <2>1, <2>2 DEF IInv, QueueInv
  <2>7. running[q] = None
    BY <1>2, <1>7 DEF Fetch, Goto, RelayInv
  <2> QED
    BY <2>3, <2>5, <2>6, <2>7 DEF RelayInv
<1>8. CASE FetchNothing(q) \/ RelayFault(q)
  <2>1. batch'[q] = <<>> /\ running'[q] = None /\ pc'[q] \in {"idle", "release"}
    BY <1>2, <1>8 DEF FetchNothing, RelayFault, DrainError, Crash, HandlerKills, Forget, Goto, TypeOK
  <2> QED
    BY <2>1 DEF RelayInv
<1>9. CASE Begin(q)
  <2>1. batch[q] \in Seq(Row) /\ batch[q] # <<>> /\ running[q] = None
    BY <1>2, <1>9 DEF Begin, Goto, RelayInv, TypeOK
  <2>2. Head(batch[q]) = batch[q][1] /\ 1 \in DOMAIN batch[q] /\ Head(batch[q]) \in Row
    BY <2>1
  <2>3. \A i \in DOMAIN Tail(batch[q]) : Tail(batch[q])[i] = batch[q][i + 1] /\ i + 1 \in DOMAIN batch[q]
    BY <2>1
  <2>4. /\ batch'[q] = Tail(batch[q]) /\ cur'[q] = Head(batch[q]) /\ pc'[q] = "deliver"
        /\ running'[q] = None /\ status' = status /\ receipts' = receipts
        /\ todo'[q] = HandlersOf[Head(batch[q]).msg] \ receipts[Head(batch[q]).msg]
    BY <1>2, <1>9, <2>1 DEF Begin, Goto, TypeOK, rows
  <2>5. status[Head(batch[q]).msg] # "absent"
    BY <1>2, <2>2 DEF RelayInv
  <2>6. \A i \in DOMAIN Tail(batch[q]) : status[Tail(batch[q])[i].msg] # "absent"
    BY <1>2, <2>3 DEF RelayInv
  <2> QED
    BY <2>2, <2>4, <2>5, <2>6 DEF RelayInv
<1>10. ASSUME NEW h \in Handler, HandlerDone(q, h)
       PROVE  RelayInv(q)'
  <2> DEFINE m == cur[q].msg
  <2>1. /\ pc[q] = "deliver" /\ pc'[q] = "receipt" /\ m \in Message
        /\ todo'[q] = todo[q] \ {h} /\ running'[q] = h /\ h \in ran'[m]
        /\ batch' = batch /\ cur' = cur /\ failed' = failed /\ status' = status
        /\ receipts' = receipts
    BY <1>2, <1>10 DEF HandlerDone, Goto, RelayInv, TypeOK, Row, rows
  <2>2. /\ cur[q] \in Row /\ status[m] # "absent" /\ todo[q] \subseteq HandlersOf[m]
        /\ ~failed[q] /\ status[m] # "pruned" =>
             HandlersOf[m] \subseteq receipts[m] \cup todo[q] \cup {None}
        /\ \A i \in DOMAIN batch[q] : status[batch[q][i].msg] # "absent"
    BY <1>2, <2>1 DEF RelayInv
  <2>3. HandlersOf[m] \subseteq Handler /\ None \notin Handler
    BY <2>1, OutboxAssumption
  <2> QED
    BY <2>1, <2>2, <2>3 DEF RelayInv
<1>11. ASSUME NEW h \in Handler, HandlerFails(q, h)
       PROVE  RelayInv(q)'
  BY <1>1, <1>2, <1>11 DEF HandlerFails, RelayInv, TypeOK, Row, rows
<1>12. CASE WriteReceipt(q)
  <2> DEFINE m == cur[q].msg
  <2>1. /\ pc[q] = "receipt" /\ pc'[q] = "deliver" /\ m \in Message /\ running'[q] = None
        /\ receipts'[m] = receipts[m] \cup {running[q]}
        /\ batch' = batch /\ cur' = cur /\ todo' = todo /\ failed' = failed /\ status' = status
    BY <1>2, <1>12 DEF WriteReceipt, Goto, RelayInv, TypeOK, Row
  <2>2. /\ cur[q] \in Row /\ status[m] # "absent" /\ todo[q] \subseteq HandlersOf[m]
        /\ ~failed[q] /\ status[m] # "pruned" =>
             HandlersOf[m] \subseteq receipts[m] \cup todo[q] \cup {running[q]}
        /\ \A i \in DOMAIN batch[q] : status[batch[q][i].msg] # "absent"
    BY <1>2, <2>1 DEF RelayInv
  <2> QED
    BY <2>1, <2>2 DEF RelayInv
<1>13. CASE ReceiptFails(q)
  BY <1>1, <1>2, <1>13 DEF ReceiptFails, Goto, RelayInv, TypeOK, Row, rows
<1>14. CASE SettleDelivered(q) \/ RecordFailure(q)
  <2>1. /\ pc'[q] \in {"next", "fetch"} /\ (pc'[q] = "next" => batch[q] # <<>>)
        /\ batch'[q] = batch[q] /\ running'[q] = running[q] /\ running[q] = None
    BY <1>2, <1>14 DEF SettleDelivered, RecordFailure, EndDelivery, TypeOK, RelayInv
  <2>2. \A i \in DOMAIN batch[q] : batch[q][i].msg \in Message
    <3>1. batch[q] \in Seq(Row)
      BY <1>2 DEF TypeOK
    <3>2. \A i \in DOMAIN batch[q] : batch[q][i] \in Row
      BY <3>1
    <3> QED
      BY <3>2 DEF Row
  <2> QED
    BY <1>1, <1>2, <2>1, <2>2 DEF RelayInv, Monotone
<1>15. CASE Release(q)
  BY <1>1, <1>2, <1>15 DEF Release, Goto, RelayInv, TypeOK, rows
<1>16. CASE (\E m \in Message : MessageStep(m)) \/ Prune \/ Expire \/ UNCHANGED vars
  <2>1. UNCHANGED relayVars
    BY <1>16 DEF MessageStep, Stage, BackoffElapses, Requeue, Age, Prune, PruneSelect,
         PruneReceipts, PruneMessages, Expire, vars
  <2> QED
    BY <1>4, <2>1
<1> QED
  BY <1>5, <1>6, <1>7, <1>8, <1>9, <1>10, <1>11, <1>12, <1>13, <1>14, <1>15, <1>16
     DEF Next, RelayStep

\* No step parts the tables from the effects they stand for.
LEMMA StepMessage ==
  ASSUME IInv, [Next]_vars, NEW n \in Message
  PROVE  MessageInv(n)'
<1>1. Monotone /\ TypeOK /\ TypeOK' /\ MessageInv(n)
  BY StepMonotone, StepType DEF IInv
<1>2. CASE UNCHANGED <<status, receipts, aged>>
  BY <1>1, <1>2 DEF MessageInv, Monotone
<1>3. CASE \E r \in Relay : Acquire(r) \/ RelayFault(r)
  BY <1>2, <1>3 DEF Acquire, RelayFault, DrainError, Crash, HandlerKills, rows
<1>4. ASSUME NEW r \in Relay, WriteReceipt(r)
      PROVE  MessageInv(n)'
  <2>1. cur[r].msg \in Message /\ running[r] \in ran[cur[r].msg]
    BY <1>4 DEF IInv, WriteReceipt, Goto, RelayInv, Row
  <2> QED
    BY <1>1, <1>4, <2>1 DEF WriteReceipt, MessageInv, TypeOK
<1>5. ASSUME NEW r \in Relay, SettleDelivered(r)
      PROVE  MessageInv(n)'
  <2>1. /\ cur[r].msg \in Message
        /\ status[cur[r].msg] # "pruned" => HandlersOf[cur[r].msg] \subseteq receipts[cur[r].msg] \cup {None}
    BY <1>5 DEF IInv, SettleDelivered, EndDelivery, RelayInv, Row
  <2>2. HandlersOf[cur[r].msg] \subseteq Handler /\ None \notin Handler
    BY <2>1, OutboxAssumption
  <2> QED
    BY <1>1, <1>5, <2>1, <2>2 DEF SettleDelivered, MessageInv, TypeOK
<1>6. ASSUME NEW r \in Relay, RecordFailure(r)
      PROVE  MessageInv(n)'
  <2>1. /\ receipts' = receipts /\ aged' = aged /\ ran' = ran
    BY <1>1, <1>6 DEF RecordFailure
  <2>2. \/ status' = status
        \/ status[cur[r].msg] = "pending" /\ status' = [status EXCEPT ![cur[r].msg] = "dead"]
    BY <1>6 DEF RecordFailure
  <2>3. status'[n] = status[n] \/ (status[n] = "pending" /\ status'[n] = "dead")
    BY <1>1, <2>2 DEF TypeOK
  <2> QED
    BY <1>1, <2>1, <2>3 DEF MessageInv
<1>7. ASSUME NEW r \in Relay, RelayStep(r)
      PROVE  MessageInv(n)'
  <2>1. CASE Fetch(r) \/ FetchNothing(r) \/ Begin(r) \/ ReceiptFails(r) \/ Release(r)
    BY <1>2, <2>1 DEF Fetch, FetchNothing, Begin, ReceiptFails, Release, rows
  <2>2. CASE \E h \in Handler : HandlerDone(r, h) \/ HandlerFails(r, h)
    BY <1>2, <2>2 DEF HandlerDone, HandlerFails, rows
  <2> QED
    BY <1>4, <1>5, <1>6, <1>7, <2>1, <2>2 DEF RelayStep
<1>8. ASSUME NEW m \in Message, MessageStep(m)
      PROVE  MessageInv(n)'
  BY <1>1, <1>8 DEF MessageStep, Stage, BackoffElapses, Requeue, Age, MessageInv, TypeOK, rows
<1>9. CASE PruneSelect \/ PruneReceipts \/ Expire
  BY <1>2, <1>9 DEF PruneSelect, PruneReceipts, Expire, rows
<1>10. CASE PruneMessages
  BY <1>1, <1>10 DEF PruneMessages, MessageInv, TypeOK
<1>11. CASE UNCHANGED vars
  BY <1>2, <1>11 DEF vars, rows
<1> QED
  BY <1>3, <1>7, <1>8, <1>9, <1>10, <1>11 DEF Next, Prune

\* No step makes an unstaged message due.
LEMMA StepQueue ==
  ASSUME IInv, [Next]_vars
  PROVE  QueueInv'
<1>1. Monotone /\ TypeOK /\ QueueInv
  BY StepMonotone DEF IInv
<1>2. \A m \in Message : status[m] # "absent" => status'[m] # "absent"
  BY <1>1 DEF Monotone
<1>3. \A i \in DOMAIN queue : queue[i] \in Message
  BY <1>1 DEF TypeOK
<1>4. CASE queue' = queue
  BY <1>1, <1>2, <1>3, <1>4 DEF QueueInv
<1>5. CASE \E M : Dequeue(M)
  BY <1>1, <1>2, <1>5, DequeueStaged
<1>6. ASSUME NEW m \in Message, MessageStep(m)
      PROVE  QueueInv'
  <2>1. CASE Age(m)
    BY <1>4, <2>1 DEF Age, rows
  <2>2. CASE Stage(m) \/ BackoffElapses(m) \/ Requeue(m)
    <3>1. Enqueue(m) /\ status'[m] # "absent"
      BY <1>1, <2>2 DEF Stage, BackoffElapses, Requeue, TypeOK
    <3> QED
      BY <1>1, <1>2, <3>1, EnqueueStaged
  <2> QED
    BY <1>6, <2>1, <2>2 DEF MessageStep
<1>7. CASE \E r \in Relay : SettleDelivered(r) \/ RecordFailure(r)
  BY <1>4, <1>5, <1>7 DEF SettleDelivered, RecordFailure
<1>8. CASE PruneMessages
  BY <1>4, <1>5, <1>8 DEF PruneMessages
<1>9. CASE \E r \in Relay : Acquire(r) \/ RelayStep(r) \/ RelayFault(r)
  <2> PICK r \in Relay : Acquire(r) \/ RelayStep(r) \/ RelayFault(r)
    BY <1>9
  <2>1. CASE Acquire(r) \/ Fetch(r) \/ FetchNothing(r) \/ Begin(r) \/ Release(r)
    BY <1>4, <2>1 DEF Acquire, Fetch, FetchNothing, Begin, Release, rows
  <2>2. CASE \E h \in Handler : HandlerDone(r, h) \/ HandlerFails(r, h)
    BY <1>4, <2>2 DEF HandlerDone, HandlerFails, rows
  <2>3. CASE WriteReceipt(r) \/ ReceiptFails(r) \/ RelayFault(r)
    BY <1>4, <2>3 DEF WriteReceipt, ReceiptFails, RelayFault, DrainError, Crash, HandlerKills, rows
  <2> QED
    BY <1>7, <2>1, <2>2, <2>3 DEF RelayStep
<1>10. CASE PruneSelect \/ PruneReceipts \/ Expire \/ UNCHANGED vars
  BY <1>4, <1>10 DEF PruneSelect, PruneReceipts, Expire, vars, rows
<1> QED
  BY <1>6, <1>8, <1>9, <1>10 DEF Next, Prune

\* No step puts a message into prune's hands that was never settled, nor one
\* that is pending unless an operator may requeue it.
LEMMA StepPrune ==
  ASSUME IInv, [Next]_vars
  PROVE  PruneInv'
<1>1. TypeOK /\ PruneInv
  BY DEF IInv
<1>2. CASE UNCHANGED <<status, prune>>
  BY <1>1, <1>2 DEF PruneInv
<1>3. CASE PruneSelect
  <2>1. prune'.ids = aged /\ status' = status
    BY <1>1, <1>3 DEF PruneSelect, TypeOK, rows
  <2>2. aged \subseteq Message /\ \A m \in Message : MessageInv(m)
    BY DEF IInv, TypeOK
  <2> QED
    BY <2>1, <2>2 DEF PruneInv, MessageInv
<1>4. CASE PruneReceipts
  BY <1>1, <1>4 DEF PruneReceipts, PruneInv, TypeOK, rows
<1>5. CASE PruneMessages
  BY <1>5 DEF PruneMessages, PruneInv, Idle
<1>6. ASSUME NEW m \in Message, MessageStep(m)
      PROVE  PruneInv'
  <2>1. CASE Stage(m)
    BY <1>1, <2>1 DEF Stage, PruneInv, TypeOK
  <2>2. CASE Requeue(m)
    BY <1>1, <2>2 DEF Requeue, PruneInv, TypeOK
  <2>3. CASE BackoffElapses(m) \/ Age(m)
    BY <1>2, <2>3 DEF BackoffElapses, Age, rows
  <2> QED
    BY <1>6, <2>1, <2>2, <2>3 DEF MessageStep
<1>7. ASSUME NEW r \in Relay, SettleDelivered(r) \/ RecordFailure(r)
      PROVE  PruneInv'
  <2>1. prune' = prune
    BY <1>7 DEF SettleDelivered, RecordFailure
  <2>2. \A m \in Message :
          status'[m] = status[m] \/ (status[m] = "pending" /\ status'[m] \in {"delivered", "dead"})
    BY <1>1, <1>7 DEF SettleDelivered, RecordFailure, TypeOK
  <2>3. prune.ids \subseteq Message
    BY <1>1 DEF TypeOK
  <2> QED
    BY <1>1, <2>1, <2>2, <2>3 DEF PruneInv
<1>8. CASE \E r \in Relay : Acquire(r) \/ RelayStep(r) \/ RelayFault(r)
  <2> PICK r \in Relay : Acquire(r) \/ RelayStep(r) \/ RelayFault(r)
    BY <1>8
  <2>1. CASE Acquire(r) \/ Fetch(r) \/ FetchNothing(r) \/ Begin(r) \/ Release(r)
    BY <1>2, <2>1 DEF Acquire, Fetch, FetchNothing, Begin, Release, rows
  <2>2. CASE \E h \in Handler : HandlerDone(r, h) \/ HandlerFails(r, h)
    BY <1>2, <2>2 DEF HandlerDone, HandlerFails, rows
  <2>3. CASE WriteReceipt(r) \/ ReceiptFails(r) \/ RelayFault(r)
    BY <1>2, <2>3 DEF WriteReceipt, ReceiptFails, RelayFault, DrainError, Crash, HandlerKills, rows
  <2> QED
    BY <1>7, <2>1, <2>2, <2>3 DEF RelayStep
<1>9. CASE Expire \/ UNCHANGED vars
  BY <1>2, <1>9 DEF Expire, vars, rows
<1> QED
  BY <1>3, <1>4, <1>5, <1>6, <1>8, <1>9 DEF Next, Prune

-----------------------------------------------------------------------------
\* IInv holds initially.
LEMMA InitInv == Init => IInv
<1> SUFFICES ASSUME Init PROVE IInv
  OBVIOUS
<1>1. TypeOK
  BY OutboxAssumption DEF Init, TypeOK, Statuses, Draining, Idle
<1>2. (\A r \in Relay : RelayInv(r)) /\ (\A m \in Message : MessageInv(m)) /\ QueueInv /\ PruneInv
  BY DEF Init, RelayInv, MessageInv, QueueInv, PruneInv, Idle
<1> QED
  BY <1>1, <1>2 DEF IInv

\* IInv is inductive, so every reachable state satisfies it.
THEOREM Invariance == Spec => []IInv
<1>1. IInv /\ [Next]_vars => IInv'
  BY StepType, StepRelay, StepMessage, StepQueue, StepPrune DEF IInv
<1> QED
  BY InitInv, <1>1, PTL DEF Spec

\* The tables and the relays' memory keep their types.
THEOREM TypeCorrect == Spec => []TypeOK
BY Invariance, PTL DEF IInv

\* A message is marked delivered only when every handler registered for it has
\* completed and left its receipt, with any relays and any loss of the lock.
THEOREM DeliveredMeansHandled == Spec => []DeliveredHandled
<1>1. IInv => DeliveredHandled
  BY DEF IInv, MessageInv, DeliveredHandled
<1> QED
  BY Invariance, <1>1, PTL

\* A settled message stays settled, whatever a relay with an older copy of its
\* row writes later: it leaves only by prune or, dead, by requeue with no
\* attempts.
THEOREM SettledStays == Spec => SettledIsFinal
<1> DEFINE A(m) == /\ status[m] = "delivered" => status'[m] \in {"delivered", "pruned"}
                   /\ status[m] = "dead" =>
                        \/ status'[m] = "dead" /\ attempts'[m] = attempts[m]
                        \/ status'[m] = "pending" /\ attempts'[m] = 0
                        \/ status'[m] = "pruned"
<1>1. ASSUME TypeOK, [Next]_vars, NEW m \in Message
      PROVE  A(m)
  <2> USE DEF TypeOK
  <2>1. CASE UNCHANGED <<status, attempts>>
    BY <2>1
  <2>2. ASSUME NEW r \in Relay, SettleDelivered(r) \/ RecordFailure(r)
        PROVE  A(m)
    <3>1. \/ status'[m] = status[m]
          \/ status[m] = "pending"
      BY <1>1, <2>2 DEF SettleDelivered, RecordFailure
    <3>2. \/ attempts'[m] = attempts[m]
          \/ status[m] = "pending"
      BY <1>1, <2>2 DEF SettleDelivered, RecordFailure
    <3> QED
      BY <3>1, <3>2
  <2>3. ASSUME NEW n \in Message, MessageStep(n)
        PROVE  A(m)
    BY <1>1, <2>3 DEF MessageStep, Stage, BackoffElapses, Requeue, Age, rows
  <2>4. CASE PruneMessages
    BY <1>1, <2>4 DEF PruneMessages
  <2>5. ASSUME NEW r \in Relay, Acquire(r) \/ RelayStep(r) \/ RelayFault(r)
        PROVE  A(m)
    <3>1. CASE Acquire(r) \/ Fetch(r) \/ FetchNothing(r) \/ Begin(r) \/ Release(r)
      BY <2>1, <3>1 DEF Acquire, Fetch, FetchNothing, Begin, Release, rows
    <3>2. CASE \E h \in Handler : HandlerDone(r, h) \/ HandlerFails(r, h)
      BY <2>1, <3>2 DEF HandlerDone, HandlerFails, rows
    <3>3. CASE WriteReceipt(r) \/ ReceiptFails(r) \/ RelayFault(r)
      BY <2>1, <3>3 DEF WriteReceipt, ReceiptFails, RelayFault, DrainError, Crash, HandlerKills, rows
    <3> QED
      BY <2>2, <2>5, <3>1, <3>2, <3>3 DEF RelayStep
  <2>6. CASE PruneSelect \/ PruneReceipts \/ Expire \/ UNCHANGED vars
    BY <2>1, <2>6 DEF PruneSelect, PruneReceipts, Expire, vars, rows
  <2> QED
    BY <1>1, <2>3, <2>4, <2>5, <2>6 DEF Next, Prune
<1>2. TypeOK /\ [Next]_vars => [\A m \in Message : A(m)]_vars
  BY <1>1
<1> QED
  BY TypeCorrect, <1>2, PTL DEF Spec, SettledIsFinal

-----------------------------------------------------------------------------
\* Every step of the outbox is a step of the promise Delivery makes, or one it
\* does not see.
LEMMA StepPromise ==
  ASSUME IInv, [Next]_vars
  PROVE  [Promise!Next]_(Promise!vars)
<1> USE DEF Promise!Next, Promise!vars
<1>1. TypeOK /\ TypeOK'
  BY StepType DEF IInv
<1>2. CASE UNCHANGED <<status, ran>>
  BY <1>2
<1>3. ASSUME NEW r \in Relay, NEW h \in Handler, HandlerDone(r, h)
      PROVE  Promise!Next
  <2> DEFINE m == cur[r].msg
  <2>1. m \in Message /\ status[m] # "absent" /\ h \in HandlersOf[m]
    BY <1>3 DEF IInv, HandlerDone, Goto, RelayInv, Row
  <2>2. ran' = [ran EXCEPT ![m] = @ \cup {h}] /\ status' = status
    BY <1>3 DEF HandlerDone, rows
  <2>3. Promise!Handle(m, h)
    BY <2>1, <2>2 DEF Promise!Handle
  <2> QED
    BY <2>1, <2>3
<1>4. ASSUME NEW r \in Relay, SettleDelivered(r)
      PROVE  Promise!Next \/ UNCHANGED <<status, ran>>
  <2> DEFINE m == cur[r].msg
  <2>1. /\ m \in Message
        /\ status[m] # "pruned" => HandlersOf[m] \subseteq receipts[m] \cup {None}
    BY <1>4 DEF IInv, SettleDelivered, EndDelivery, RelayInv, Row
  <2>2. HandlersOf[m] \subseteq Handler /\ None \notin Handler
    BY <2>1, OutboxAssumption
  <2>3. receipts[m] \subseteq ran[m]
    BY <2>1 DEF IInv, MessageInv
  <2>4. CASE status[m] = "pending"
    <3>1. status' = [status EXCEPT ![m] = "delivered"] /\ ran' = ran
      BY <1>4, <2>4 DEF SettleDelivered
    <3>2. Promise!Deliver(m)
      BY <2>1, <2>2, <2>3, <2>4, <3>1 DEF Promise!Deliver, Promise!Become
    <3> QED
      BY <2>1, <3>2
  <2>5. CASE status[m] # "pending"
    BY <1>4, <2>5 DEF SettleDelivered
  <2> QED
    BY <2>4, <2>5
<1>5. ASSUME NEW r \in Relay, RecordFailure(r)
      PROVE  Promise!Next \/ UNCHANGED <<status, ran>>
  <2> DEFINE m == cur[r].msg
  <2>1. m \in Message
    BY <1>5 DEF IInv, RecordFailure, EndDelivery, RelayInv, Row
  <2>2. ran' = ran
    BY <1>5 DEF RecordFailure
  <2>3. \/ status' = status
        \/ status[m] = "pending" /\ status' = [status EXCEPT ![m] = "dead"]
    BY <1>5 DEF RecordFailure
  <2>4. status' = status \/ Promise!Bury(m)
    BY <2>2, <2>3 DEF Promise!Bury, Promise!Become
  <2> QED
    BY <2>1, <2>2, <2>4
<1>6. ASSUME NEW m \in Message, MessageStep(m)
      PROVE  Promise!Next \/ UNCHANGED <<status, ran>>
  <2>1. CASE Stage(m)
    BY <2>1 DEF Stage, Promise!Stage, Promise!Become
  <2>2. CASE Requeue(m)
    BY <2>2 DEF Requeue, Promise!Revive, Promise!Become
  <2>3. CASE BackoffElapses(m) \/ Age(m)
    BY <2>3 DEF BackoffElapses, Age, rows
  <2> QED
    BY <1>6, <2>1, <2>2, <2>3 DEF MessageStep
<1>7. CASE PruneMessages
  <2>1. CASE \A m \in prune.ids : receipts[m] \subseteq prune.seen[m]
    <3>1. /\ status' = [m \in Message |-> IF m \in prune.ids THEN "pruned" ELSE status[m]]
          /\ ran' = ran /\ prune.step # "idle"
      BY <1>7, <2>1 DEF PruneMessages
    <3>2. prune.ids \in SUBSET Message
      BY <1>1 DEF TypeOK
    <3>3. CASE prune.ids = {}
      BY <1>1, <3>1, <3>3 DEF TypeOK
    <3>4. CASE prune.ids # {}
      <4>1. Promise!Forget(prune.ids)
        BY <3>1, <3>4 DEF IInv, PruneInv, Promise!Forget
      <4> QED
        BY <3>2, <4>1
    <3> QED
      BY <3>3, <3>4
  <2>2. CASE ~ \A m \in prune.ids : receipts[m] \subseteq prune.seen[m]
    BY <1>7, <2>2 DEF PruneMessages
  <2> QED
    BY <2>1, <2>2
<1>8. ASSUME NEW r \in Relay, Acquire(r) \/ RelayStep(r) \/ RelayFault(r)
      PROVE  Promise!Next \/ UNCHANGED <<status, ran>>
  <2>1. CASE Acquire(r) \/ Fetch(r) \/ FetchNothing(r) \/ Begin(r) \/ Release(r)
    BY <2>1 DEF Acquire, Fetch, FetchNothing, Begin, Release, rows
  <2>2. CASE \E h \in Handler : HandlerFails(r, h)
    BY <2>2 DEF HandlerFails, rows
  <2>3. CASE WriteReceipt(r) \/ ReceiptFails(r) \/ RelayFault(r)
    BY <2>3 DEF WriteReceipt, ReceiptFails, RelayFault, DrainError, Crash, HandlerKills, rows
  <2> QED
    BY <1>3, <1>4, <1>5, <1>8, <2>1, <2>2, <2>3 DEF RelayStep
<1>9. CASE PruneSelect \/ PruneReceipts \/ Expire \/ UNCHANGED vars
  BY <1>9 DEF PruneSelect, PruneReceipts, Expire, vars, rows
<1> QED
  BY <1>2, <1>6, <1>7, <1>8, <1>9 DEF Next, Prune

\* The outbox implements Delivery: seen from outside, relays, locks, receipts
\* and retries are at-least-once handling followed by one settlement.
THEOREM Implementation == Spec => ImplementsDelivery
<1>1. Init => Promise!Init
  BY DEF Init, Promise!Init
<1> QED
  BY Invariance, StepPromise, <1>1, PTL DEF Spec, ImplementsDelivery, Promise!Spec

\* Delivery by itself keeps its two promises: delivered means handled, and what
\* nobody brings back is not forgotten while it is pending.
THEOREM PromiseKept == Promise!Spec => []Promise!DeliveredHandled /\ Promise!PendingKept
<1> DEFINE Inv == Promise!TypeOK /\ Promise!DeliveredHandled
           Kept == \A m \in Message \ Operated : status[m] = "pending" => status'[m] # "pruned"
<1>1. Promise!Init => Inv
  BY DEF Promise!Init, Promise!TypeOK, Promise!DeliveredHandled, Promise!Statuses
<1>2. ASSUME Inv, [Promise!Next]_(Promise!vars)
      PROVE  Inv' /\ Kept
  <2> USE <1>2 DEF Promise!TypeOK, Promise!DeliveredHandled, Promise!Statuses, Promise!Become
  <2>1. ASSUME NEW m \in Message,
               Promise!Stage(m) \/ Promise!Deliver(m) \/ Promise!Bury(m) \/ Promise!Revive(m)
        PROVE  Inv' /\ Kept
    BY <2>1 DEF Promise!Stage, Promise!Deliver, Promise!Bury, Promise!Revive
  <2>2. ASSUME NEW m \in Message, NEW h \in Handler, Promise!Handle(m, h)
        PROVE  Inv' /\ Kept
    BY <2>2 DEF Promise!Handle
  <2>3. ASSUME NEW M \in SUBSET Message, Promise!Forget(M)
        PROVE  Inv' /\ Kept
    BY <2>3 DEF Promise!Forget
  <2>4. CASE UNCHANGED Promise!vars
    BY <2>4 DEF Promise!vars
  <2> QED
    BY <2>1, <2>2, <2>3, <2>4 DEF Promise!Next
<1>3. Inv /\ [Promise!Next]_(Promise!vars) => [Kept]_(Promise!vars)
  BY <1>2
<1> QED
  BY <1>1, <1>2, <1>3, PTL DEF Promise!Spec, Promise!PendingKept

\* So no pending message of the outbox is pruned but one an operator requeued:
\* the prune race (outbox.service.ts:99) reaches no other.
THEOREM PruneSpares ==
  Spec => [][\A m \in Message \ Operated : status[m] = "pending" => status'[m] # "pruned"]_vars
<1> DEFINE Kept == \A m \in Message \ Operated : status[m] = "pending" => status'[m] # "pruned"
<1>1. [Kept]_(Promise!vars) => [Kept]_vars
  BY DEF Promise!vars, vars, rows
<1> QED
  BY Implementation, PromiseKept, <1>1, PTL DEF ImplementsDelivery, Promise!PendingKept

\* The relays use the lock only as Lease allows: they act under it between a
\* grant and the start of its release, and free it only when it is theirs or,
\* when it is lossy, by its expiry.
THEOREM LeaseUse == Spec => UsesLease
<1> DEFINE B == {r \in Relay : pc[r] \in Draining}
<1> USE DEF TheLease!Next, TheLease!vars
<1>1. Init => TheLease!Init
  BY DEF Init, TheLease!Init, Draining
<1>2. ASSUME TypeOK, [Next]_vars
      PROVE  [TheLease!Next]_(TheLease!vars)
  <2> USE DEF TypeOK, Draining
  <2>1. CASE UNCHANGED <<owner, pc>>
    BY <2>1
  <2>2. ASSUME NEW r \in Relay, Acquire(r)
        PROVE  TheLease!Grant(r)
    <3>1. pc[r] = "idle" /\ pc' = [pc EXCEPT ![r] = "fetch"] /\ owner = None /\ owner' = r
      BY <2>2 DEF Acquire, Goto
    <3>2. r \notin B /\ B' = B \cup {r}
      BY <1>2, <3>1
    <3> QED
      BY <3>1, <3>2 DEF TheLease!Grant
  <2>3. ASSUME NEW r \in Relay, owner' = owner, pc[r] \in Draining,
               NEW to \in Draining, pc' = [pc EXCEPT ![r] = to]
        PROVE  UNCHANGED TheLease!vars
    <3>1. B' = B
      BY <2>3
    <3> QED
      BY <2>3, <3>1
  <2>4. ASSUME NEW r \in Relay, owner' = owner, pc[r] \in Draining,
               NEW to \in {"idle", "release"}, pc' = [pc EXCEPT ![r] = to]
        PROVE  TheLease!Leave(r)
    <3>1. r \in B /\ B' = B \ {r}
      BY <1>2, <2>4
    <3> QED
      BY <2>4, <3>1 DEF TheLease!Leave
  <2>5. ASSUME NEW r \in Relay, Release(r)
        PROVE  TheLease!Free \/ UNCHANGED TheLease!vars
    <3>1. pc[r] = "release" /\ pc' = [pc EXCEPT ![r] = "idle"]
      BY <2>5 DEF Release, Goto
    <3>2. B' = B
      BY <3>1
    <3>3. r \notin B
      BY <3>1
    <3>4. CASE owner = r
      <4>1. owner' = None /\ owner # None
        BY <2>5, <3>4, OutboxAssumption DEF Release
      <4> QED
        BY <3>2, <3>3, <3>4, <4>1 DEF TheLease!Free
    <3>5. CASE owner # r
      BY <2>5, <3>2, <3>5 DEF Release
    <3> QED
      BY <3>4, <3>5
  <2>6. CASE Expire
    <3>1. B' = B /\ owner # None /\ owner' = None /\ (Lossy \/ owner \notin B)
      BY <2>6 DEF Expire, relayVars
    <3> QED
      BY <3>1 DEF TheLease!Free
  <2>7. ASSUME NEW r \in Relay, RelayStep(r)
        PROVE  TheLease!Next \/ UNCHANGED TheLease!vars
    <3>1. CASE FetchNothing(r)
      BY <2>4, <3>1 DEF FetchNothing, Goto
    <3>2. CASE Fetch(r) \/ Begin(r) \/ WriteReceipt(r) \/ ReceiptFails(r)
      BY <2>3, <3>2 DEF Fetch, Begin, WriteReceipt, ReceiptFails, Goto
    <3>3. CASE \E h \in Handler : HandlerDone(r, h) \/ HandlerFails(r, h)
      BY <2>1, <2>3, <3>3 DEF HandlerDone, HandlerFails, Goto
    <3>4. CASE SettleDelivered(r) \/ RecordFailure(r)
      <4>1. pc[r] = "deliver" /\ owner' = owner
            /\ \E to \in {"fetch", "next"} : pc' = [pc EXCEPT ![r] = to]
        BY <3>4 DEF SettleDelivered, RecordFailure, EndDelivery
      <4> QED
        BY <2>3, <4>1
    <3> QED
      BY <2>5, <2>7, <3>1, <3>2, <3>3, <3>4 DEF RelayStep
  <2>8. ASSUME NEW r \in Relay, RelayFault(r)
        PROVE  TheLease!Next \/ UNCHANGED TheLease!vars
    <3>1. owner' = owner /\ \E to \in {"idle", "release"} : pc' = [pc EXCEPT ![r] = to]
      BY <2>8 DEF RelayFault, DrainError, Crash, HandlerKills, Goto
    <3>2. pc[r] \in Draining \cup {"release"}
      BY <2>8 DEF RelayFault, DrainError, Crash, HandlerKills, Goto
    <3>3. CASE pc[r] \in Draining
      BY <2>4, <3>1, <3>3
    <3>4. CASE pc[r] = "release"
      BY <3>1, <3>4
    <3> QED
      BY <3>2, <3>3, <3>4
  <2>9. CASE (\E m \in Message : MessageStep(m)) \/ Prune \/ UNCHANGED vars
    BY <2>1, <2>9 DEF MessageStep, Stage, BackoffElapses, Requeue, Age, Prune, PruneSelect,
         PruneReceipts, PruneMessages, vars, relayVars
  <2> QED
    BY <1>2, <2>2, <2>6, <2>7, <2>8, <2>9 DEF Next
<1> QED
  BY TypeCorrect, <1>1, <1>2, PTL DEF Spec, UsesLease, TheLease!Spec
=============================================================================
