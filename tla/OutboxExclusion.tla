--------------------------- MODULE OutboxExclusion ---------------------------
(***************************************************************************)
(* What the outbox gains from a lock that outlasts every drain (Lossy is   *)
(* FALSE, which Lock guarantees under Timely): the rows a relay read are   *)
(* still the rows of the table when it settles them, so retries run only   *)
(* unfinished handlers and attempts are counted exactly.                   *)
(***************************************************************************)
EXTENDS OutboxProofs

\* At most one relay drains, and it owns the lock.
Exclusive == \A r \in Relay : pc[r] \in Draining => owner = r

\* The due messages are pending, each once.
DueInv ==
  /\ \A i \in DOMAIN queue : status[queue[i]] = "pending"
  /\ \A i, j \in DOMAIN queue : queue[i] = queue[j] => i = j

\* A row a relay holds is the table's row, unless prune deleted it.
Fresh(row) ==
  \/ status[row.msg] = "pending" /\ row.attempts = attempts[row.msg]
  \/ status[row.msg] = "pruned"

\* The rows of a batch are fresh, and none is there twice.
BatchInv(r) ==
  pc[r] \in {"next", "deliver", "receipt"} =>
    /\ \A i \in DOMAIN batch[r] : Fresh(batch[r][i])
    /\ \A i, j \in DOMAIN batch[r] : batch[r][i].msg = batch[r][j].msg => i = j

\* So is the row being delivered, and what is left to run has no receipt.
CurInv(r) ==
  pc[r] \in {"deliver", "receipt"} =>
    /\ Fresh(cur[r])
    /\ \A i \in DOMAIN batch[r] : batch[r][i].msg # cur[r].msg
    /\ todo[r] \cap receipts[cur[r].msg] = {}
    /\ pc[r] = "receipt" => running[r] \notin receipts[cur[r].msg] \cup todo[r]

\* A message's pending row is due.
Due(m) == status[m] = "pending" => \E i \in DOMAIN queue : queue[i] = m

\* What a relay holds is still due: nobody else delayed or settled it.
HeldInv(r) ==
  /\ pc[r] \in {"next", "deliver", "receipt"} =>
       \A i \in DOMAIN batch[r] : Due(batch[r][i].msg)
  /\ pc[r] \in {"deliver", "receipt"} => Due(cur[r].msg)

\* Without a fault, a handler that completed has its receipt, or a relay is
\* about to write it.
OnceInv(m) ==
  faults = 0 /\ status[m] # "pruned" =>
    \A h \in ran[m] :
      \/ h \in receipts[m]
      \/ \E r \in Relay : pc[r] = "receipt" /\ cur[r].msg = m /\ running[r] = h

CountInv(m) ==
  /\ status[m] \in {"absent", "pending", "dead"} => attempts[m] = rounds[m]
  /\ status[m] = "dead" <=> status[m] # "pruned" /\ rounds[m] = MaxAttempts

XInv ==
  /\ Exclusive
  /\ DueInv
  /\ \A r \in Relay : BatchInv(r) /\ CurInv(r)
  /\ \A m \in Message : CountInv(m)
  /\ \A r \in Relay : HeldInv(r)
  /\ \A m \in Message : OnceInv(m)

-----------------------------------------------------------------------------
\* No step lets a second relay drain, when the lock does not expire under one.
LEMMA StepExclusive ==
  ASSUME ~Lossy, IInv, Exclusive, [Next]_vars
  PROVE  Exclusive'
<1> USE DEF IInv, TypeOK, Draining
<1>1. CASE UNCHANGED <<pc, owner>>
  BY <1>1 DEF Exclusive
<1>2. ASSUME NEW r \in Relay, Acquire(r)
      PROVE  Exclusive'
  BY <1>2, OutboxAssumption DEF Acquire, Goto, Exclusive
<1>3. ASSUME NEW r \in Relay, owner' = owner, pc[r] \in Draining,
             NEW to \in Draining \cup {"idle", "release"}, pc' = [pc EXCEPT ![r] = to]
      PROVE  Exclusive'
  BY <1>3 DEF Exclusive
<1>4. ASSUME NEW r \in Relay, RelayStep(r)
      PROVE  Exclusive'
  <2>1. CASE Fetch(r) \/ FetchNothing(r) \/ Begin(r) \/ WriteReceipt(r) \/ ReceiptFails(r)
    BY <1>3, <2>1 DEF Fetch, FetchNothing, Begin, WriteReceipt, ReceiptFails, Goto
  <2>2. CASE \E h \in Handler : HandlerDone(r, h) \/ HandlerFails(r, h)
    BY <1>1, <1>3, <2>2 DEF HandlerDone, HandlerFails, Goto
  <2>3. CASE SettleDelivered(r) \/ RecordFailure(r)
    <3>1. pc[r] = "deliver" /\ owner' = owner
          /\ \E to \in {"fetch", "next"} : pc' = [pc EXCEPT ![r] = to]
      BY <2>3 DEF SettleDelivered, RecordFailure, EndDelivery
    <3> QED
      BY <1>3, <3>1
  <2>4. CASE Release(r)
    BY <2>4, OutboxAssumption DEF Release, Goto, Exclusive
  <2> QED
    BY <1>4, <2>1, <2>2, <2>3, <2>4 DEF RelayStep
<1>5. ASSUME NEW r \in Relay, RelayFault(r)
      PROVE  Exclusive'
  <2>1. /\ owner' = owner
        /\ pc' = [pc EXCEPT ![r] = "idle"] \/ pc' = [pc EXCEPT ![r] = "release"]
    BY <1>5 DEF RelayFault, DrainError, Crash, HandlerKills, Goto
  <2> QED
    BY <2>1 DEF Exclusive
<1>6. CASE Expire
  BY <1>6 DEF Expire, Exclusive, relayVars
<1>7. CASE (\E m \in Message : MessageStep(m)) \/ Prune \/ UNCHANGED vars
  BY <1>1, <1>7 DEF MessageStep, Stage, BackoffElapses, Requeue, Age, Prune, PruneSelect,
       PruneReceipts, PruneMessages, vars, relayVars
<1> QED
  BY <1>2, <1>4, <1>5, <1>6, <1>7 DEF Next

\* Dequeue leaves the messages outside M, each as often as before.
LEMMA DequeueDue ==
  ASSUME TypeOK, DueInv, NEW M, Dequeue(M),
         \A m \in Message : m \notin M => status'[m] = status[m]
  PROVE  DueInv'
<1>0. PICK n \in 0..Len(queue) : \E pos \in [1..n -> DOMAIN queue] :
        /\ \A i, j \in 1..n : i < j => pos[i] < pos[j]
        /\ {pos[i] : i \in 1..n} = {k \in DOMAIN queue : queue[k] \notin M}
        /\ queue' = [i \in 1..n |-> queue[pos[i]]]
  BY DEF Dequeue
<1>1. PICK pos \in [1..n -> DOMAIN queue] :
        /\ \A i, j \in 1..n : i < j => pos[i] < pos[j]
        /\ {pos[i] : i \in 1..n} = {k \in DOMAIN queue : queue[k] \notin M}
        /\ queue' = [i \in 1..n |-> queue[pos[i]]]
  BY <1>0
<1>2. queue \in Seq(Message) /\ n \in Nat
  BY DEF TypeOK
<1>3. DOMAIN queue' = 1..n
  BY <1>1
<1>4. \A i \in 1..n : /\ pos[i] \in DOMAIN queue /\ queue'[i] = queue[pos[i]]
                      /\ queue[pos[i]] \notin M /\ queue[pos[i]] \in Message
  BY <1>1, <1>2
<1>5. \A i \in 1..n : status'[queue'[i]] = "pending"
  BY <1>4 DEF DueInv
<1>6. \A i, j \in 1..n : pos[i] = pos[j] => i = j
  <2>1. \A i \in 1..n : pos[i] \in Nat
    BY <1>2, <1>4
  <2>2. \A i, j \in 1..n : i < j \/ j < i \/ i = j
    BY <1>2
  <2> QED
    BY <1>1, <2>1, <2>2
<1>7. \A i, j \in 1..n : queue'[i] = queue'[j] => i = j
  BY <1>4, <1>6 DEF DueInv
<1> QED
  BY <1>3, <1>5, <1>7 DEF DueInv

\* One more pending message that was not due.
LEMMA EnqueueDue ==
  ASSUME TypeOK, DueInv, NEW m \in Message, Enqueue(m), status'[m] = "pending",
         \A i \in DOMAIN queue : queue[i] # m,
         \A n \in Message : n # m => status'[n] = status[n]
  PROVE  DueInv'
<1>1. queue \in Seq(Message) /\ queue' = Append(queue, m)
  BY DEF TypeOK, Enqueue
<1>2. /\ DOMAIN queue' = 1..(Len(queue) + 1) /\ DOMAIN queue = 1..Len(queue)
      /\ Len(queue) \in Nat
      /\ \A i \in DOMAIN queue : queue'[i] = queue[i] /\ queue[i] \in Message
      /\ queue'[Len(queue) + 1] = m
  BY <1>1
<1>3. \A i \in DOMAIN queue' : i \in DOMAIN queue \/ i = Len(queue) + 1
  BY <1>2
<1>4. \A i \in DOMAIN queue' : status'[queue'[i]] = "pending"
  BY <1>2, <1>3 DEF DueInv
<1>5. \A i, j \in DOMAIN queue' : queue'[i] = queue'[j] => i = j
  BY <1>2, <1>3 DEF DueInv
<1> QED
  BY <1>4, <1>5 DEF DueInv

\* No step makes a message due twice, or one that is not pending.
LEMMA StepDue ==
  ASSUME IInv, DueInv, [Next]_vars
  PROVE  DueInv'
<1>1. TypeOK
  BY DEF IInv
<1>2. CASE UNCHANGED <<queue, status>>
  BY <1>2 DEF DueInv
<1>3. ASSUME NEW r \in Relay, SettleDelivered(r) \/ RecordFailure(r)
      PROVE  DueInv'
  <2> DEFINE m == cur[r].msg
  <2>1. UNCHANGED <<queue, status>> \/
          (Dequeue({m}) /\ \A n \in Message : n \notin {m} => status'[n] = status[n])
    BY <1>1, <1>3 DEF SettleDelivered, RecordFailure, TypeOK
  <2> QED
    BY <1>1, <1>2, <2>1, DequeueDue
<1>4. ASSUME NEW m \in Message, MessageStep(m)
      PROVE  DueInv'
  <2>1. CASE Age(m)
    BY <1>2, <2>1 DEF Age, rows
  <2>2. CASE Stage(m) \/ Requeue(m)
    <3>1. /\ Enqueue(m) /\ status'[m] = "pending" /\ status[m] # "pending"
          /\ \A n \in Message : n # m => status'[n] = status[n]
      BY <1>1, <2>2 DEF Stage, Requeue, TypeOK
    <3>2. \A i \in DOMAIN queue : queue[i] # m
      BY <3>1 DEF DueInv
    <3> QED
      BY <1>1, <3>1, <3>2, EnqueueDue
  <2>3. CASE BackoffElapses(m)
    <3>1. /\ Enqueue(m) /\ status'[m] = "pending" /\ status' = status
          /\ \A i \in DOMAIN queue : queue[i] # m
      BY <2>3 DEF BackoffElapses
    <3> QED
      BY <1>1, <3>1, EnqueueDue
  <2> QED
    BY <1>4, <2>1, <2>2, <2>3 DEF MessageStep
<1>5. CASE PruneMessages
  <2>1. UNCHANGED <<queue, status>> \/
          (Dequeue(prune.ids) /\ \A n \in Message : n \notin prune.ids => status'[n] = status[n])
    BY <1>5 DEF PruneMessages
  <2> QED
    BY <1>1, <1>2, <2>1, DequeueDue
<1>6. ASSUME NEW r \in Relay, Acquire(r) \/ RelayStep(r) \/ RelayFault(r)
      PROVE  DueInv'
  <2>1. CASE Acquire(r) \/ Fetch(r) \/ FetchNothing(r) \/ Begin(r) \/ Release(r)
    BY <1>2, <2>1 DEF Acquire, Fetch, FetchNothing, Begin, Release, rows
  <2>2. CASE \E h \in Handler : HandlerDone(r, h) \/ HandlerFails(r, h)
    BY <1>2, <2>2 DEF HandlerDone, HandlerFails, rows
  <2>3. CASE WriteReceipt(r) \/ ReceiptFails(r) \/ RelayFault(r)
    BY <1>2, <2>3 DEF WriteReceipt, ReceiptFails, RelayFault, DrainError, Crash, HandlerKills, rows
  <2> QED
    BY <1>3, <1>6, <2>1, <2>2, <2>3 DEF RelayStep
<1>7. CASE PruneSelect \/ PruneReceipts \/ Expire \/ UNCHANGED vars
  BY <1>2, <1>7 DEF PruneSelect, PruneReceipts, Expire, vars, rows
<1> QED
  BY <1>4, <1>5, <1>6, <1>7 DEF Next, Prune
-----------------------------------------------------------------------------
\* Rows stay fresh when the table changes under other messages, or by prune.
LEMMA RowsStay ==
  ASSUME TypeOK, NEW r \in Relay, BatchInv(r), CurInv(r), RelayInv(r),
         UNCHANGED <<pc[r], batch[r], cur[r], todo[r], running[r]>>,
         \A m \in Message : receipts'[m] \subseteq receipts[m],
         \A m \in Message : status[m] \in {"pending", "pruned"} =>
            \/ status'[m] = status[m] /\ attempts'[m] = attempts[m]
            \/ status'[m] = "pruned"
  PROVE  BatchInv(r)' /\ CurInv(r)'
<1>1. \A i \in DOMAIN batch[r] : batch[r][i].msg \in Message
  <2>1. batch[r] \in Seq(Row)
    BY DEF TypeOK
  <2>2. \A i \in DOMAIN batch[r] : batch[r][i] \in Row
    BY <2>1
  <2> QED
    BY <2>2 DEF Row
<1>2. pc[r] \in {"deliver", "receipt"} => cur[r].msg \in Message
  BY DEF RelayInv, Row
<1>3. \A i \in DOMAIN batch[r] : Fresh(batch[r][i]) => Fresh(batch[r][i])'
  BY <1>1 DEF Fresh
<1>4. pc[r] \in {"deliver", "receipt"} /\ Fresh(cur[r]) => Fresh(cur[r])'
  BY <1>2 DEF Fresh
<1>5. BatchInv(r)'
  BY <1>3 DEF BatchInv
<1>6. CurInv(r)'
  BY <1>2, <1>4 DEF CurInv
<1> QED
  BY <1>5, <1>6

\* The draining relay's rows are the table's rows after each of its own steps.
LEMMA OwnStep ==
  ASSUME IInv, XInv, NEW r \in Relay, RelayStep(r)
  PROVE  BatchInv(r)' /\ CurInv(r)'
<1> USE DEF IInv, XInv
<1>1. TypeOK /\ RelayInv(r) /\ BatchInv(r) /\ CurInv(r) /\ batch[r] \in Seq(Row)
  BY DEF TypeOK
<1>2. \A i \in DOMAIN batch[r] : batch[r][i] \in Row /\ batch[r][i].msg \in Message
  <2>1. \A i \in DOMAIN batch[r] : batch[r][i] \in Row
    BY <1>1
  <2> QED
    BY <2>1 DEF Row
<1>3. pc[r] \in {"deliver", "receipt"} => cur[r].msg \in Message /\ todo[r] \subseteq Handler
  BY <1>1 DEF RelayInv, Row, TypeOK
<1>4. CASE Fetch(r)
  <2> DEFINE n == Smaller(BatchSize, Len(queue))
             read == [i \in 1..n |-> [msg |-> queue[i], attempts |-> attempts[queue[i]]]]
  <2>1. batch'[r] = read /\ pc'[r] = "next" /\ status' = status /\ attempts' = attempts
    BY <1>1, <1>4 DEF Fetch, Goto, TypeOK, rows
  <2>2. queue \in Seq(Message) /\ n \in Nat /\ n <= Len(queue)
    BY <1>1, OutboxAssumption DEF TypeOK, Smaller
  <2>3. \A i \in 1..n : i \in DOMAIN queue /\ read[i].msg = queue[i] /\ read[i].attempts = attempts[queue[i]]
    BY <2>2
  <2>4. \A i \in 1..n : Fresh(read[i])
    BY <2>3 DEF DueInv, Fresh
  <2>5. \A i, j \in 1..n : read[i].msg = read[j].msg => i = j
    BY <2>3 DEF DueInv
  <2>6. BatchInv(r)'
    BY <2>1, <2>4, <2>5 DEF BatchInv, Fresh
  <2> QED
    BY <2>1, <2>6 DEF CurInv
<1>5. CASE Begin(r)
  <2>1. pc[r] = "next" /\ batch[r] # <<>>
    BY <1>1, <1>5 DEF Begin, Goto, RelayInv
  <2>2. Head(batch[r]) = batch[r][1] /\ 1 \in DOMAIN batch[r]
    BY <1>1, <2>1
  <2>3. \A i \in DOMAIN Tail(batch[r]) :
          /\ Tail(batch[r])[i] = batch[r][i + 1] /\ i + 1 \in DOMAIN batch[r] /\ i + 1 # 1
          /\ i \in Int
    BY <1>1, <2>1
  <2>4. /\ batch'[r] = Tail(batch[r]) /\ cur'[r] = batch[r][1] /\ pc'[r] = "deliver"
        /\ status' = status /\ attempts' = attempts /\ receipts' = receipts
        /\ todo'[r] = HandlersOf[batch[r][1].msg] \ receipts[batch[r][1].msg]
    BY <1>1, <1>5, <2>2 DEF Begin, Goto, TypeOK, rows
  <2>5. /\ \A i \in DOMAIN batch[r] : Fresh(batch[r][i])
        /\ \A i, j \in DOMAIN batch[r] : batch[r][i].msg = batch[r][j].msg => i = j
    BY <1>1, <2>1 DEF BatchInv
  <2>6. BatchInv(r)'
    <3>1. \A i \in DOMAIN Tail(batch[r]) : Fresh(Tail(batch[r])[i])
      BY <2>3, <2>5
    <3>2. \A i, j \in DOMAIN Tail(batch[r]) :
            Tail(batch[r])[i].msg = Tail(batch[r])[j].msg => i = j
      <4> TAKE i, j \in DOMAIN Tail(batch[r])
      <4> HAVE Tail(batch[r])[i].msg = Tail(batch[r])[j].msg
      <4>1. i + 1 = j + 1
        BY <2>3, <2>5
      <4> QED
        BY <2>3, <4>1
    <3> QED
      BY <2>4, <3>1, <3>2 DEF BatchInv, Fresh
  <2>7. \A i \in DOMAIN Tail(batch[r]) : Tail(batch[r])[i].msg # batch[r][1].msg
    BY <2>2, <2>3, <2>5
  <2>8. Fresh(batch[r][1])
    BY <2>2, <2>5
  <2>9. CurInv(r)'
    BY <2>4, <2>7, <2>8 DEF CurInv, Fresh
  <2> QED
    BY <2>6, <2>9
<1>6. ASSUME NEW h \in Handler, HandlerDone(r, h) \/ HandlerFails(r, h)
      PROVE  BatchInv(r)' /\ CurInv(r)'
  <2>1. /\ pc[r] = "deliver" /\ pc'[r] \in {"deliver", "receipt"} /\ h \in todo[r]
        /\ UNCHANGED <<status, attempts, receipts, batch, cur>>
        /\ todo'[r] = todo[r] \ {h}
        /\ pc'[r] = "receipt" => running'[r] = h
    BY <1>1, <1>6 DEF HandlerDone, HandlerFails, Goto, TypeOK, rows
  <2>2. BatchInv(r)'
    BY <1>1, <2>1 DEF BatchInv, Fresh
  <2>3. CurInv(r)'
    BY <1>1, <2>1 DEF CurInv, Fresh
  <2> QED
    BY <2>2, <2>3
<1>7. CASE WriteReceipt(r) \/ ReceiptFails(r)
  <2>1. /\ pc[r] = "receipt" /\ pc'[r] = "deliver"
        /\ UNCHANGED <<status, attempts, batch, cur, todo>>
        /\ \A m \in Message : receipts'[m] \subseteq receipts[m] \cup {running[r]}
    <3>1. CASE WriteReceipt(r)
      BY <1>1, <3>1 DEF WriteReceipt, Goto, TypeOK
    <3>2. CASE ReceiptFails(r)
      BY <1>1, <3>2 DEF ReceiptFails, Goto, TypeOK, rows
    <3> QED
      BY <1>7, <3>1, <3>2
  <2>2. BatchInv(r)'
    BY <1>1, <2>1 DEF BatchInv, Fresh
  <2>3. CurInv(r)'
    BY <1>1, <1>3, <2>1 DEF CurInv, Fresh
  <2> QED
    BY <2>2, <2>3
<1>8. CASE SettleDelivered(r) \/ RecordFailure(r)
  <2>1. /\ pc[r] = "deliver" /\ pc'[r] \in {"fetch", "next"} /\ batch' = batch
        /\ \A m \in Message : m # cur[r].msg => status'[m] = status[m] /\ attempts'[m] = attempts[m]
    BY <1>1, <1>8 DEF SettleDelivered, RecordFailure, EndDelivery, TypeOK
  <2>2. \A i \in DOMAIN batch[r] : Fresh(batch[r][i])'
    BY <1>1, <1>2, <2>1 DEF BatchInv, CurInv, Fresh
  <2>3. BatchInv(r)'
    BY <1>1, <2>1, <2>2 DEF BatchInv
  <2> QED
    BY <2>1, <2>3 DEF CurInv
<1>9. CASE FetchNothing(r) \/ Release(r)
  BY <1>1, <1>9 DEF FetchNothing, Release, Goto, TypeOK, BatchInv, CurInv
<1> QED
  BY <1>4, <1>5, <1>6, <1>7, <1>8, <1>9 DEF RelayStep

\* No step leaves a relay, draining or not, with less than BatchInv and CurInv.
LEMMA StepRows ==
  ASSUME ~Lossy, IInv, XInv, [Next]_vars, NEW q \in Relay
  PROVE  BatchInv(q)' /\ CurInv(q)'
<1> USE DEF IInv, XInv
<1>1. TypeOK /\ RelayInv(q) /\ BatchInv(q) /\ CurInv(q) /\ Exclusive
  OBVIOUS
<1>2. CASE RelayStep(q)
  BY <1>2, OwnStep
<1>3. CASE pc'[q] \in {"idle", "fetch", "release"}
  BY <1>3 DEF BatchInv, CurInv
<1>4. CASE Acquire(q) \/ RelayFault(q)
  BY <1>1, <1>3, <1>4 DEF Acquire, RelayFault, DrainError, Crash, HandlerKills, Goto, TypeOK
<1>5. ASSUME NEW r \in Relay, r # q, RelayStep(r)
      PROVE  BatchInv(q)' /\ CurInv(q)'
  <2>1. pc'[q] = pc[q]
    <3>1. CASE Fetch(r) \/ FetchNothing(r) \/ Begin(r) \/ WriteReceipt(r) \/ ReceiptFails(r) \/ Release(r)
      BY <1>1, <1>5, <3>1 DEF Fetch, FetchNothing, Begin, WriteReceipt, ReceiptFails, Release, Goto, TypeOK
    <3>2. CASE \E h \in Handler : HandlerDone(r, h) \/ HandlerFails(r, h)
      BY <1>1, <1>5, <3>2 DEF HandlerDone, HandlerFails, Goto, TypeOK
    <3>3. CASE SettleDelivered(r) \/ RecordFailure(r)
      BY <1>1, <1>5, <3>3 DEF SettleDelivered, RecordFailure, EndDelivery, TypeOK
    <3> QED
      BY <1>5, <3>1, <3>2, <3>3 DEF RelayStep
  <2>2. CASE pc[r] \in Draining
    <3>1. pc[q] \notin Draining
      BY <1>1, <1>5, <2>2 DEF Exclusive
    <3> QED
      BY <2>1, <3>1 DEF BatchInv, CurInv, Draining
  <2>3. CASE pc[r] \notin Draining
    <3>1. Release(r)
      BY <1>5, <2>3 DEF RelayStep, Fetch, FetchNothing, Begin, HandlerDone, HandlerFails, WriteReceipt,
           ReceiptFails, SettleDelivered, RecordFailure, EndDelivery, Goto, Draining
    <3> QED
      BY <1>1, <2>1, <3>1, RowsStay DEF Release, rows
  <2> QED
    BY <2>2, <2>3
<1>6. ASSUME NEW r \in Relay, r # q, Acquire(r) \/ RelayFault(r)
      PROVE  BatchInv(q)' /\ CurInv(q)'
  <2>1. /\ UNCHANGED <<pc[q], batch[q], cur[q], todo[q], running[q]>>
        /\ UNCHANGED <<status, attempts, receipts>>
    BY <1>1, <1>6 DEF Acquire, RelayFault, DrainError, Crash, HandlerKills, Goto, Forget, TypeOK, rows
  <2> QED
    BY <1>1, <2>1, RowsStay
<1>7. ASSUME UNCHANGED relayVars,
             \A m \in Message : receipts'[m] \subseteq receipts[m],
             \A m \in Message : status[m] \in {"pending", "pruned"} =>
               \/ status'[m] = status[m] /\ attempts'[m] = attempts[m]
               \/ status'[m] = "pruned"
      PROVE  BatchInv(q)' /\ CurInv(q)'
  BY <1>1, <1>7, RowsStay DEF relayVars
<1>8. ASSUME NEW m \in Message, MessageStep(m)
      PROVE  BatchInv(q)' /\ CurInv(q)'
  BY <1>1, <1>7, <1>8 DEF MessageStep, Stage, BackoffElapses, Requeue, Age, TypeOK, rows
<1>9. CASE Prune \/ Expire \/ UNCHANGED vars
  <2>1. CASE PruneMessages
    BY <1>1, <1>7, <2>1 DEF PruneMessages, TypeOK
  <2> QED
    BY <1>7, <1>9, <2>1 DEF Prune, PruneSelect, PruneReceipts, Expire, vars, rows
<1> QED
  BY <1>2, <1>4, <1>5, <1>6, <1>8, <1>9 DEF Next

\* No step counts an attempt twice, or misses one.
LEMMA StepCount ==
  ASSUME IInv, XInv, [Next]_vars, NEW n \in Message
  PROVE  CountInv(n)'
<1> USE DEF IInv, XInv
<1>1. TypeOK /\ CountInv(n) /\ MaxAttempts \in Nat \ {0}
  BY OutboxAssumption
<1>2. CASE UNCHANGED <<status, attempts, rounds>>
  BY <1>1, <1>2 DEF CountInv
<1>3. ASSUME NEW r \in Relay, SettleDelivered(r)
      PROVE  CountInv(n)'
  BY <1>1, <1>3 DEF SettleDelivered, CountInv, TypeOK
<1>4. ASSUME NEW r \in Relay, RecordFailure(r)
      PROVE  CountInv(n)'
  <2> DEFINE m == cur[r].msg
             k == cur[r].attempts + 1
  <2>1. m \in Message /\ Fresh(cur[r]) /\ CountInv(m)
    BY <1>4 DEF RecordFailure, EndDelivery, RelayInv, CurInv, Row
  <2>2. CASE status[m] # "pending"
    BY <1>2, <1>4, <2>2 DEF RecordFailure
  <2>3. CASE status[m] = "pending"
    <3>1. attempts[m] = rounds[m] /\ rounds[m] \in 0..MaxAttempts /\ rounds[m] # MaxAttempts
          /\ k = rounds[m] + 1
      BY <1>1, <2>1, <2>3 DEF CountInv, Fresh, TypeOK
    <3>2. Smaller(rounds[m] + 1, MaxAttempts) = k /\ (k >= MaxAttempts <=> k = MaxAttempts)
      BY <1>1, <3>1 DEF Smaller
    <3>3. /\ status' = IF k >= MaxAttempts THEN [status EXCEPT ![m] = "dead"] ELSE status
          /\ attempts' = [attempts EXCEPT ![m] = k]
          /\ rounds' = [rounds EXCEPT ![m] = Smaller(@ + 1, MaxAttempts)]
      BY <1>4, <2>3 DEF RecordFailure
    <3>4. CASE n # m
      BY <1>1, <2>1, <3>3, <3>4 DEF CountInv, TypeOK
    <3>5. CASE n = m
      <4>1. attempts'[m] = k /\ rounds'[m] = k
        BY <1>1, <2>1, <3>2, <3>3 DEF TypeOK
      <4>2. status'[m] = IF k >= MaxAttempts THEN "dead" ELSE "pending"
        BY <1>1, <2>1, <2>3, <3>3 DEF TypeOK
      <4> QED
        BY <3>2, <3>5, <4>1, <4>2 DEF CountInv
    <3> QED
      BY <3>4, <3>5
  <2> QED
    BY <2>2, <2>3
<1>5. ASSUME NEW r \in Relay, Acquire(r) \/ RelayStep(r) \/ RelayFault(r)
      PROVE  CountInv(n)'
  <2>1. CASE Acquire(r) \/ Fetch(r) \/ FetchNothing(r) \/ Begin(r) \/ Release(r)
    BY <1>2, <2>1 DEF Acquire, Fetch, FetchNothing, Begin, Release, rows
  <2>2. CASE \E h \in Handler : HandlerDone(r, h) \/ HandlerFails(r, h)
    BY <1>2, <2>2 DEF HandlerDone, HandlerFails, rows
  <2>3. CASE WriteReceipt(r) \/ ReceiptFails(r) \/ RelayFault(r)
    BY <1>2, <2>3 DEF WriteReceipt, ReceiptFails, RelayFault, DrainError, Crash, HandlerKills, rows
  <2> QED
    BY <1>3, <1>4, <1>5, <2>1, <2>2, <2>3 DEF RelayStep
<1>6. ASSUME NEW m \in Message, MessageStep(m)
      PROVE  CountInv(n)'
  <2>1. CASE Stage(m)
    BY <1>1, <2>1 DEF Stage, CountInv, TypeOK
  <2>2. CASE Requeue(m)
    BY <1>1, <2>2 DEF Requeue, CountInv, TypeOK
  <2>3. CASE BackoffElapses(m) \/ Age(m)
    BY <1>2, <2>3 DEF BackoffElapses, Age, rows
  <2> QED
    BY <1>6, <2>1, <2>2, <2>3 DEF MessageStep
<1>7. CASE PruneMessages
  BY <1>1, <1>7 DEF PruneMessages, CountInv, TypeOK
<1>8. CASE PruneSelect \/ PruneReceipts \/ Expire \/ UNCHANGED vars
  BY <1>2, <1>8 DEF PruneSelect, PruneReceipts, Expire, vars, rows
<1> QED
  BY <1>5, <1>6, <1>7, <1>8 DEF Next, Prune

\* No step writes a message off without its receipt, while nothing fails.
LEMMA StepOnce ==
  ASSUME IInv, XInv, [Next]_vars, NEW n \in Message
  PROVE  OnceInv(n)'
<1> USE DEF IInv, XInv
<1>1. TypeOK /\ OnceInv(n) /\ Monotone /\ MaxFaults \in Nat
  BY StepMonotone, OutboxAssumption
<1>2. SUFFICES ASSUME faults' = 0, status'[n] # "pruned", NEW h \in ran'[n]
               PROVE  \/ h \in receipts'[n]
                      \/ \E r \in Relay : pc'[r] = "receipt" /\ cur'[r].msg = n /\ running'[r] = h
  BY DEF OnceInv
<1>3. /\ status[n] # "pruned" /\ receipts[n] \subseteq receipts'[n]
      /\ faults \in Nat /\ ~Fault
  BY <1>1, <1>2 DEF Monotone, TypeOK, Fault
<1>4. CASE faults = 0 /\ ran' = ran /\ \A r \in Relay : pc[r] = "receipt" =>
             pc'[r] = "receipt" /\ cur'[r] = cur[r] /\ running'[r] = running[r]
  BY <1>1, <1>2, <1>3, <1>4 DEF OnceInv
<1>5. ASSUME NEW r \in Relay, Acquire(r) \/ Fetch(r) \/ FetchNothing(r) \/ Begin(r) \/ Release(r)
      PROVE  faults = 0 /\ ran' = ran /\ \A q \in Relay : pc[q] = "receipt" =>
               pc'[q] = "receipt" /\ cur'[q] = cur[q] /\ running'[q] = running[q]
  BY <1>1, <1>2, <1>5 DEF Acquire, Fetch, FetchNothing, Begin, Release, Goto, Forget, TypeOK
<1>6. ASSUME NEW r \in Relay, \E g \in Handler : HandlerFails(r, g)
      PROVE  faults = 0 /\ ran' = ran /\ \A q \in Relay : pc[q] = "receipt" =>
               pc'[q] = "receipt" /\ cur'[q] = cur[q] /\ running'[q] = running[q]
  BY <1>1, <1>2, <1>6 DEF HandlerFails
<1>7. ASSUME NEW r \in Relay, NEW g \in Handler, HandlerDone(r, g)
      PROVE  \/ h \in receipts'[n]
             \/ \E q \in Relay : pc'[q] = "receipt" /\ cur'[q].msg = n /\ running'[q] = h
  <2>1. /\ pc[r] = "deliver" /\ pc' = [pc EXCEPT ![r] = "receipt"]
        /\ running' = [running EXCEPT ![r] = g] /\ cur' = cur
        /\ ran' = [ran EXCEPT ![cur[r].msg] = @ \cup {g}] /\ faults' = faults
    BY <1>7 DEF HandlerDone, Goto
  <2>2. h \in ran[n] \/ (cur[r].msg = n /\ h = g)
    BY <1>1, <1>2, <2>1 DEF TypeOK
  <2>3. CASE cur[r].msg = n /\ h = g
    BY <1>1, <2>1, <2>3 DEF TypeOK
  <2>4. CASE h \in ran[n]
    BY <1>1, <1>2, <1>3, <2>1, <2>4 DEF OnceInv, TypeOK
  <2> QED
    BY <2>2, <2>3, <2>4
<1>8. ASSUME NEW r \in Relay, WriteReceipt(r)
      PROVE  \/ h \in receipts'[n]
             \/ \E q \in Relay : pc'[q] = "receipt" /\ cur'[q].msg = n /\ running'[q] = h
  <2>1. /\ pc[r] = "receipt" /\ pc' = [pc EXCEPT ![r] = "deliver"]
        /\ receipts' = [receipts EXCEPT ![cur[r].msg] = @ \cup {running[r]}]
        /\ running' = [running EXCEPT ![r] = None] /\ cur' = cur
        /\ ran' = ran /\ faults' = faults
    BY <1>8 DEF WriteReceipt, Goto
  <2>2. CASE h \in receipts[n]
    BY <1>3, <2>2
  <2>3. ASSUME NEW q \in Relay, pc[q] = "receipt", cur[q].msg = n, running[q] = h
        PROVE  \/ h \in receipts'[n]
               \/ \E p \in Relay : pc'[p] = "receipt" /\ cur'[p].msg = n /\ running'[p] = h
    BY <1>1, <2>1, <2>3 DEF TypeOK
  <2> QED
    BY <1>1, <1>2, <1>3, <2>1, <2>2, <2>3 DEF OnceInv
<1>9. ASSUME NEW r \in Relay, ReceiptFails(r)
      PROVE  \/ h \in receipts'[n]
             \/ \E q \in Relay : pc'[q] = "receipt" /\ cur'[q].msg = n /\ running'[q] = h
  <2>1. /\ pc[r] = "receipt" /\ pc' = [pc EXCEPT ![r] = "deliver"]
        /\ ~Exists(cur[r].msg) /\ running' = [running EXCEPT ![r] = None]
        /\ cur' = cur /\ ran' = ran /\ faults' = faults
    BY <1>3, <1>9 DEF ReceiptFails, Goto
  <2>2. cur[r].msg # n
    BY <1>3, <1>9, <2>1 DEF Exists, ReceiptFails, Goto, RelayInv
  <2> QED
    BY <1>1, <1>2, <1>3, <2>1, <2>2 DEF OnceInv, TypeOK
<1>10. ASSUME NEW r \in Relay, SettleDelivered(r) \/ RecordFailure(r) \/ HandlerKills(r)
       PROVE  faults = 0 /\ ran' = ran /\ \A q \in Relay : pc[q] = "receipt" =>
                pc'[q] = "receipt" /\ cur'[q] = cur[q] /\ running'[q] = running[q]
  <2>1. CASE SettleDelivered(r) \/ RecordFailure(r)
    BY <1>1, <1>2, <2>1 DEF SettleDelivered, RecordFailure, EndDelivery, TypeOK
  <2>2. CASE HandlerKills(r)
    BY <1>1, <1>2, <2>2 DEF HandlerKills, Goto, Forget, TypeOK
  <2> QED
    BY <1>10, <2>1, <2>2
<1>11. ASSUME NEW r \in Relay, DrainError(r) \/ Crash(r)
       PROVE  FALSE
  BY <1>3, <1>11 DEF DrainError, Crash
<1>12. CASE (\E m \in Message : MessageStep(m)) \/ Prune \/ Expire \/ UNCHANGED vars
  <2>1. UNCHANGED <<pc, cur, running, ran, faults>>
    BY <1>12 DEF MessageStep, Stage, BackoffElapses, Requeue, Age, Prune, PruneSelect,
         PruneReceipts, PruneMessages, Expire, vars, relayVars
  <2> QED
    BY <1>2, <1>4, <2>1
<1> QED
  BY <1>4, <1>5, <1>6, <1>7, <1>8, <1>9, <1>10, <1>11, <1>12 DEF Next, RelayStep, RelayFault

\* Dequeue leaves every message outside M where it can be found.
LEMMA DequeueKeeps ==
  ASSUME NEW M, Dequeue(M), NEW m, m \notin M, \E i \in DOMAIN queue : queue[i] = m
  PROVE  \E i \in DOMAIN queue' : queue'[i] = m
<1>1. PICK k \in DOMAIN queue : queue[k] = m
  OBVIOUS
<1>2. PICK n \in 0..Len(queue) : \E pos \in [1..n -> DOMAIN queue] :
        /\ {pos[i] : i \in 1..n} = {j \in DOMAIN queue : queue[j] \notin M}
        /\ queue' = [i \in 1..n |-> queue[pos[i]]]
  BY DEF Dequeue
<1>3. PICK pos \in [1..n -> DOMAIN queue] :
        /\ {pos[i] : i \in 1..n} = {j \in DOMAIN queue : queue[j] \notin M}
        /\ queue' = [i \in 1..n |-> queue[pos[i]]]
  BY <1>2
<1>4. k \in {pos[i] : i \in 1..n}
  BY <1>1, <1>3
<1> QED
  BY <1>1, <1>3, <1>4

\* A step that takes only M out of the queue leaves the others due.
LEMMA DueKept ==
  ASSUME TypeOK, NEW m \in Message, Due(m),
         status'[m] = "pending" => status[m] = "pending",
         \/ queue' = queue
         \/ \E n \in Message : Enqueue(n)
         \/ \E M \in SUBSET Message : Dequeue(M) /\ (m \in M => status'[m] # "pending")
  PROVE  Due(m)'
<1> SUFFICES ASSUME status'[m] = "pending"
             PROVE  \E i \in DOMAIN queue' : queue'[i] = m
  BY DEF Due
<1>1. \E i \in DOMAIN queue : queue[i] = m
  BY DEF Due
<1>2. ASSUME NEW n \in Message, Enqueue(n)
      PROVE  \E i \in DOMAIN queue' : queue'[i] = m
  <2>1. queue \in Seq(Message) /\ queue' = Append(queue, n)
    BY <1>2 DEF Enqueue, TypeOK
  <2>2. \A i \in DOMAIN queue : i \in DOMAIN queue' /\ queue'[i] = queue[i]
    BY <2>1
  <2> QED
    BY <1>1, <2>2
<1> QED
  BY <1>1, <1>2, DequeueKeeps

\* What a draining relay holds stays due, unless it is itself taken out.
LEMMA HeldStays ==
  ASSUME IInv, [Next]_vars,
         NEW m \in Message, Due(m), status[m] \in {"pending", "pruned"},
         \/ queue' = queue
         \/ \E n \in Message : Enqueue(n)
         \/ \E M \in SUBSET Message : Dequeue(M) /\ (m \in M => status'[m] # "pending")
  PROVE  Due(m)'
<1>1. Monotone /\ TypeOK
  BY StepMonotone DEF IInv
<1>3. status'[m] = "pending" => status[m] = "pending"
  BY <1>1 DEF Monotone
<1> QED
  BY <1>1, <1>3, DueKept

\* A relay's rows stay due while the others, or prune, change the queue.
LEMMA AllHeld ==
  ASSUME IInv, XInv, [Next]_vars, NEW r \in Relay,
         UNCHANGED <<pc[r], batch[r], cur[r]>>,
         \/ queue' = queue
         \/ \E n \in Message : Enqueue(n)
         \/ \E M \in SUBSET Message : Dequeue(M) /\ \A m \in M : status'[m] # "pending"
  PROVE  HeldInv(r)'
<1> USE DEF IInv, XInv
<1>1. \A i \in DOMAIN batch[r] : batch[r][i].msg \in Message
  <2>1. batch[r] \in Seq(Row)
    BY DEF TypeOK
  <2>2. \A i \in DOMAIN batch[r] : batch[r][i] \in Row
    BY <2>1
  <2> QED
    BY <2>2 DEF Row
<1>2. ASSUME pc[r] \in {"next", "deliver", "receipt"}, NEW i \in DOMAIN batch[r]
      PROVE  Due(batch[r][i].msg)'
  <2>1. PICK m \in Message : m = batch[r][i].msg
    BY <1>1
  <2>2. Due(m) /\ Fresh(batch[r][i])
    BY <1>2, <2>1 DEF HeldInv, BatchInv
  <2>3. status[m] \in {"pending", "pruned"}
    BY <2>1, <2>2 DEF Fresh
  <2>4. Due(m)'
    BY <1>2, <2>2, <2>3, HeldStays
  <2> QED
    BY <2>1, <2>4 DEF Due
<1>3. ASSUME pc[r] \in {"deliver", "receipt"}
      PROVE  Due(cur[r].msg)'
  <2>1. PICK m \in Message : m = cur[r].msg
    BY <1>3 DEF RelayInv, Row
  <2>2. Due(m) /\ Fresh(cur[r])
    BY <1>3, <2>1 DEF HeldInv, CurInv
  <2>3. status[m] \in {"pending", "pruned"}
    BY <2>1, <2>2 DEF Fresh
  <2>4. Due(m)'
    BY <1>3, <2>2, <2>3, HeldStays
  <2> QED
    BY <2>1, <2>4 DEF Due
<1> QED
  BY <1>2, <1>3 DEF HeldInv, Due

\* No step delays or settles a row another relay holds.
LEMMA StepHeld ==
  ASSUME ~Lossy, IInv, XInv, [Next]_vars, NEW q \in Relay
  PROVE  HeldInv(q)'
<1> USE DEF IInv, XInv
<1>1. TypeOK /\ RelayInv(q) /\ Exclusive
  OBVIOUS
<1>2. CASE pc'[q] \notin {"next", "deliver", "receipt"}
  BY <1>2 DEF HeldInv
<1>3. ASSUME UNCHANGED <<pc[q], batch[q], cur[q]>>, queue' = queue
      PROVE  HeldInv(q)'
  BY <1>3, AllHeld
<1>4. ASSUME NEW r \in Relay, r # q, Acquire(r) \/ RelayStep(r) \/ RelayFault(r)
      PROVE  HeldInv(q)'
  <2>1. pc'[q] = pc[q]
    <3>1. CASE Acquire(r) \/ Fetch(r) \/ FetchNothing(r) \/ Begin(r) \/ WriteReceipt(r)
               \/ ReceiptFails(r) \/ Release(r)
      BY <1>1, <1>4, <3>1 DEF Acquire, Fetch, FetchNothing, Begin, WriteReceipt, ReceiptFails,
        Release, Goto, TypeOK
    <3>2. CASE \E h \in Handler : HandlerDone(r, h) \/ HandlerFails(r, h)
      BY <1>1, <1>4, <3>2 DEF HandlerDone, HandlerFails, Goto, TypeOK
    <3>3. CASE SettleDelivered(r) \/ RecordFailure(r)
      BY <1>1, <1>4, <3>3 DEF SettleDelivered, RecordFailure, EndDelivery, TypeOK
    <3>4. CASE RelayFault(r)
      BY <1>1, <1>4, <3>4 DEF RelayFault, DrainError, Crash, HandlerKills, Goto, TypeOK
    <3> QED
      BY <1>4, <3>1, <3>2, <3>3, <3>4 DEF RelayStep
  <2>2. CASE pc[r] \in Draining
    <3>1. pc[q] \notin Draining
      BY <1>1, <1>4, <2>2 DEF Exclusive
    <3> QED
      BY <2>1, <3>1, <1>2 DEF Draining
  <2>3. CASE pc[r] \notin Draining
    <3>1. Acquire(r) \/ Release(r) \/ Crash(r)
      BY <1>4, <2>3 DEF RelayStep, RelayFault, Fetch, FetchNothing, Begin, HandlerDone,
        HandlerFails, WriteReceipt, ReceiptFails, SettleDelivered, RecordFailure, EndDelivery,
        DrainError, HandlerKills, Goto, Draining
    <3>2. UNCHANGED <<pc[q], batch[q], cur[q]>> /\ queue' = queue
      BY <1>1, <1>4, <2>1, <3>1 DEF Acquire, Release, Crash, Forget, rows, TypeOK
    <3> QED
      BY <1>3, <3>2
  <2> QED
    BY <2>2, <2>3
<1>5. CASE Acquire(q) \/ FetchNothing(q) \/ Release(q) \/ RelayFault(q)
  BY <1>1, <1>2, <1>5 DEF Acquire, FetchNothing, Release, RelayFault, DrainError, Crash,
    HandlerKills, Goto, TypeOK
<1>6. CASE Fetch(q)
  <2> DEFINE n == Smaller(BatchSize, Len(queue))
             picked == [i \in 1..n |-> [msg |-> queue[i], attempts |-> attempts[queue[i]]]]
  <2>1. batch'[q] = picked /\ pc'[q] = "next" /\ queue' = queue
    BY <1>1, <1>6 DEF Fetch, Goto, TypeOK, rows
  <2>2. queue \in Seq(Message) /\ n \in Nat /\ n <= Len(queue)
    BY <1>1, OutboxAssumption DEF TypeOK, Smaller
  <2>3. \A i \in 1..n : i \in DOMAIN queue /\ picked[i].msg = queue[i]
    BY <2>2
  <2>4. DOMAIN picked = 1..n
    OBVIOUS
  <2> HIDE DEF picked
  <2>5. \A i \in DOMAIN picked : \E j \in DOMAIN queue' : queue'[j] = picked[i].msg
    BY <2>1, <2>3, <2>4
  <2> QED
    BY <2>1, <2>5 DEF HeldInv, Due
<1>7. CASE Begin(q)
  <2>1. pc[q] = "next" /\ batch[q] \in Seq(Row) /\ batch[q] # <<>>
    BY <1>1, <1>7 DEF Begin, Goto, RelayInv, TypeOK
  <2>2. Head(batch[q]) = batch[q][1] /\ 1 \in DOMAIN batch[q]
    BY <2>1
  <2>3. \A i \in DOMAIN Tail(batch[q]) :
          Tail(batch[q])[i] = batch[q][i + 1] /\ i + 1 \in DOMAIN batch[q]
    BY <2>1
  <2>4. /\ batch'[q] = Tail(batch[q]) /\ cur'[q] = batch[q][1]
        /\ status' = status /\ queue' = queue
    BY <1>1, <1>7, <2>2 DEF Begin, TypeOK, rows
  <2>5. \A i \in DOMAIN batch[q] : Due(batch[q][i].msg)
    BY <2>1 DEF HeldInv
  <2> QED
    BY <2>2, <2>3, <2>4, <2>5 DEF HeldInv, Due
<1>8. ASSUME NEW h \in Handler, HandlerDone(q, h) \/ HandlerFails(q, h)
      PROVE  HeldInv(q)'
  <2>1. /\ pc[q] = "deliver" /\ UNCHANGED <<status, queue, batch, cur>>
    BY <1>8 DEF HandlerDone, HandlerFails, Goto, rows
  <2> QED
    BY <2>1 DEF HeldInv, Due
<1>9. CASE WriteReceipt(q) \/ ReceiptFails(q)
  <2>1. /\ pc[q] = "receipt" /\ UNCHANGED <<status, queue, batch, cur>>
    BY <1>9 DEF WriteReceipt, ReceiptFails, Goto, rows
  <2> QED
    BY <2>1 DEF HeldInv, Due
<1>10. CASE SettleDelivered(q) \/ RecordFailure(q)
  <2>1. /\ pc[q] = "deliver" /\ pc'[q] \in {"fetch", "next"} /\ batch' = batch
        /\ queue' = queue \/ Dequeue({cur[q].msg})
    BY <1>1, <1>10 DEF SettleDelivered, RecordFailure, EndDelivery, TypeOK
  <2>2. ASSUME NEW i \in DOMAIN batch[q]
        PROVE  Due(batch[q][i].msg)'
    <3>1. batch[q][i].msg \in Message
      <4>1. batch[q] \in Seq(Row)
        BY <1>1 DEF TypeOK
      <4>2. batch[q][i] \in Row
        BY <2>2, <4>1
      <4> QED
        BY <4>2 DEF Row
    <3>2. PICK m \in Message : m = batch[q][i].msg
      BY <3>1
    <3>3. Due(m) /\ Fresh(batch[q][i]) /\ m # cur[q].msg
      BY <2>1, <2>2, <3>2 DEF HeldInv, BatchInv, CurInv
    <3>4. status[m] \in {"pending", "pruned"}
      BY <3>2, <3>3 DEF Fresh
    <3>5. cur[q].msg \in Message
      BY <1>1, <2>1 DEF RelayInv, Row
    <3>6. {cur[q].msg} \in SUBSET Message /\ m \notin {cur[q].msg}
      BY <3>3, <3>5
    <3>7. Due(m)'
      BY <2>1, <3>3, <3>4, <3>6, HeldStays
    <3> QED
      BY <2>1, <3>2, <3>7 DEF Due
  <2> QED
    BY <2>1, <2>2 DEF HeldInv, Due
<1>11. ASSUME NEW m \in Message, MessageStep(m)
       PROVE  HeldInv(q)'
  <2>1. UNCHANGED <<pc[q], batch[q], cur[q]>> /\ (queue' = queue \/ Enqueue(m))
    BY <1>11 DEF MessageStep, Stage, BackoffElapses, Requeue, Age, rows, relayVars
  <2> QED
    BY <2>1, AllHeld
<1>12. CASE PruneMessages
  <2>1. UNCHANGED <<pc[q], batch[q], cur[q]>>
        /\ (queue' = queue \/ (Dequeue(prune.ids) /\ \A m \in prune.ids : status'[m] # "pending"))
    BY <1>1, <1>12 DEF PruneMessages, relayVars, TypeOK
  <2>2. prune.ids \in SUBSET Message
    BY <1>1 DEF TypeOK
  <2> QED
    BY <1>3, <2>1, <2>2, AllHeld
<1>13. CASE PruneSelect \/ PruneReceipts \/ Expire \/ UNCHANGED vars
  <2>1. UNCHANGED <<pc[q], batch[q], cur[q]>> /\ queue' = queue
    BY <1>13 DEF PruneSelect, PruneReceipts, Expire, vars, rows, relayVars
  <2> QED
    BY <1>3, <2>1
<1> QED
  BY <1>4, <1>5, <1>6, <1>7, <1>8, <1>9, <1>10, <1>11, <1>12, <1>13 DEF Next, RelayStep, Prune

-----------------------------------------------------------------------------
\* With a lock that outlasts every drain, both invariants hold for ever.
LEMMA ExclusiveInvariance ==
  ASSUME ~Lossy
  PROVE  Spec => [](IInv /\ XInv)
<1>1. Init => XInv
  BY OutboxAssumption DEF Init, XInv, Exclusive, DueInv, BatchInv, CurInv, CountInv, HeldInv,
    OnceInv, Draining
<1>2. IInv /\ XInv /\ [Next]_vars => XInv'
  BY StepExclusive, StepDue, StepRows, StepCount, StepHeld, StepOnce DEF XInv
<1> QED
  BY Invariance, <1>1, <1>2, PTL DEF Spec

\* A retry runs only handlers without a receipt, and without a fault no handler
\* completes on a message twice.
THEOREM RetriesRunUnfinished ==
  ASSUME ~Lossy
  PROVE  Spec => []OnlyUnfinishedRun
<1>1. ASSUME IInv, XInv, NEW r \in Relay, pc[r] \in {"deliver", "receipt"}
      PROVE  /\ todo[r] \cap receipts[cur[r].msg] = {}
             /\ pc[r] = "receipt" => running[r] \notin receipts[cur[r].msg]
             /\ faults = 0 /\ status[cur[r].msg] # "pruned" => todo[r] \cap ran[cur[r].msg] = {}
  <2>1. CurInv(r) /\ cur[r].msg \in Message /\ OnceInv(cur[r].msg)
    BY <1>1 DEF IInv, XInv, RelayInv, Row
  <2>2. \A q \in Relay : pc[q] = "receipt" => q = r
    BY <1>1 DEF XInv, Exclusive, Draining
  <2>3. ASSUME faults = 0, status[cur[r].msg] # "pruned", NEW h \in todo[r]
        PROVE  h \notin ran[cur[r].msg]
    BY <1>1, <2>1, <2>2, <2>3 DEF CurInv, OnceInv
  <2> QED
    BY <1>1, <2>1, <2>3 DEF CurInv
<1>2. IInv /\ XInv => OnlyUnfinishedRun
  BY <1>1 DEF OnlyUnfinishedRun
<1> QED
  BY ExclusiveInvariance, <1>2, PTL

\* At most one relay drains at a time, whatever crashes, errors and expiries of
\* a lock nobody renews any more come between (outbox.relay.ts:55-62).
THEOREM OneDrains ==
  ASSUME ~Lossy
  PROVE  Spec => [](\A p, q \in Relay : pc[p] \in Draining /\ pc[q] \in Draining => p = q)
<1>1. IInv /\ XInv =>
        \A p, q \in Relay : pc[p] \in Draining /\ pc[q] \in Draining => p = q
  BY DEF XInv, Exclusive
<1> QED
  BY ExclusiveInvariance, <1>1, PTL

\* A retry keeps its backoff: the message a relay delivers, if still pending, is
\* due, so nobody recorded a failure of it since the relay read it.
BackoffHeld ==
  \A r \in Relay :
    pc[r] \in {"deliver", "receipt"} /\ status[cur[r].msg] = "pending" =>
      \E i \in DOMAIN queue : queue[i] = cur[r].msg

THEOREM BackoffKept ==
  ASSUME ~Lossy
  PROVE  Spec => []BackoffHeld
<1>1. IInv /\ XInv => BackoffHeld
  BY DEF XInv, HeldInv, Due, BackoffHeld
<1> QED
  BY ExclusiveInvariance, <1>1, PTL

\* Attempts are the failed deliveries since the message was staged or requeued,
\* and a message is dead exactly at MaxAttempts of them.
THEOREM AttemptsExact ==
  ASSUME ~Lossy
  PROVE  Spec => []AttemptsCount
<1>1. IInv /\ XInv => AttemptsCount
  BY DEF XInv, CountInv, AttemptsCount
<1> QED
  BY ExclusiveInvariance, <1>1, PTL
=============================================================================
