------------------------------- MODULE Outbox -------------------------------
(***************************************************************************)
(* The transactional outbox: OutboxRelay (outbox.relay.ts), run by one     *)
(* OutboxRunner per instance and exclusive only through the lock           *)
(* "outbox:relay"; OutboxService.stage, requeue and prune                  *)
(* (outbox.service.ts); and the tables OutboxMessage and OutboxReceipt.    *)
(*                                                                         *)
(* A relay is split wherever it awaits: between reading a batch, reading   *)
(* receipts, running a handler, writing its receipt and settling the       *)
(* message, anything else may happen.  Every field a relay uses after an   *)
(* await is the one it read before it (batch, cur, todo).                  *)
(*                                                                         *)
(* nextAttemptAt and createdAt are kept only as an order: queue holds the  *)
(* pending messages that are due, oldest first; a pending message outside  *)
(* it is waiting out its backoff.                                          *)
(***************************************************************************)
EXTENDS Integers, Sequences

CONSTANTS Message, Handler, Relay,
          None,
          HandlersOf,    \* OutboxRegistry: the handlers matching each message
          Outcomes,      \* what a handler may do with each message
          Operated,      \* the dead messages an operator may requeue
          Lossy,         \* may the relay's lock expire while it drains?
          MaxAttempts,   \* OUTBOX_MAX_ATTEMPTS
          BatchSize,     \* OUTBOX_BATCH_SIZE
          MaxBatches,    \* MAX_BATCHES_PER_RUN
          MaxFaults      \* bound: crashes and database or Redis errors

ASSUME OutboxAssumption ==
  /\ None \notin Relay \cup Handler \cup Message
  /\ HandlersOf \in [Message -> SUBSET Handler]
  /\ Outcomes \in [Message -> SUBSET {"done", "fails", "kills"}]
  /\ Operated \subseteq Message
  /\ Lossy \in BOOLEAN
  /\ MaxAttempts \in Nat \ {0} /\ BatchSize \in Nat \ {0}
  /\ MaxBatches \in Nat \ {0} /\ MaxFaults \in Nat

VARIABLES
  status,    \* OutboxMessage.status; "absent" before its commit, "pruned" after
  attempts,  \* OutboxMessage.attempts
  queue,     \* the due pending messages by nextAttemptAt, createdAt
  receipts,  \* the handlers with an OutboxReceipt, per message
  aged,      \* settled messages past their retention
  owner,     \* the relay whose token holds the lock
  pc,        \* where each relay is in drain()
  batch,     \* the rows of the current batch not delivered yet, as read
  batches,   \* batches read in this drain
  cur,       \* the row being delivered, as read
  todo,      \* handlers without a receipt, as read, not tried yet
  running,   \* the handler that finished and has no receipt yet
  failed,    \* did a handler of this delivery fail?
  prune,     \* OutboxService.prune: step, ids selected, receipts deleted
  ran,       \* history: the handlers that completed on a message
  rounds,    \* history: failed deliveries recorded since staged or requeued
  faults     \* bound counter

rows == <<status, attempts, queue, receipts>>
relayVars == <<pc, batch, batches, cur, todo, running, failed>>
vars == <<rows, aged, owner, relayVars, prune, ran, rounds, faults>>

Statuses == {"absent", "pending", "delivered", "dead", "pruned"}
Draining == {"fetch", "next", "deliver", "receipt"}
Row == [msg : Message, attempts : Nat]
Idle == [step |-> "idle", ids |-> {}, seen |-> [m \in Message |-> {}]]

TypeOK ==
  /\ status \in [Message -> Statuses]
  /\ attempts \in [Message -> Nat]
  /\ queue \in Seq(Message)
  /\ receipts \in [Message -> SUBSET Handler]
  /\ aged \subseteq Message
  /\ owner \in Relay \cup {None}
  /\ pc \in [Relay -> Draining \cup {"idle", "release"}]
  /\ batch \in [Relay -> Seq(Row)]
  /\ batches \in [Relay -> 0..MaxBatches]
  /\ cur \in [Relay -> Row \cup {None}]
  /\ todo \in [Relay -> SUBSET Handler]
  /\ running \in [Relay -> Handler \cup {None}]
  /\ failed \in [Relay -> BOOLEAN]
  /\ prune \in [step : {"idle", "selected", "deleting"}, ids : SUBSET Message,
                seen : [Message -> SUBSET Handler]]
  /\ ran \in [Message -> SUBSET Handler]
  /\ rounds \in [Message -> 0..MaxAttempts]
  /\ faults \in 0..MaxFaults

Init ==
  /\ status = [m \in Message |-> "absent"]
  /\ attempts = [m \in Message |-> 0]
  /\ queue = <<>>
  /\ receipts = [m \in Message |-> {}]
  /\ aged = {}
  /\ owner = None
  /\ pc = [r \in Relay |-> "idle"]
  /\ batch = [r \in Relay |-> <<>>]
  /\ batches = [r \in Relay |-> 0]
  /\ cur = [r \in Relay |-> None]
  /\ todo = [r \in Relay |-> {}]
  /\ running = [r \in Relay |-> None]
  /\ failed = [r \in Relay |-> FALSE]
  /\ prune = Idle
  /\ ran = [m \in Message |-> {}]
  /\ rounds = [m \in Message |-> 0]
  /\ faults = 0

-----------------------------------------------------------------------------
Smaller(a, b) == IF a < b THEN a ELSE b

Enqueue(m) == queue' = Append(queue, m)

\* queue without the messages of M, in the same order: they settled, or they
\* wait for their backoff again.
Dequeue(M) ==
  \E n \in 0..Len(queue) : \E pos \in [1..n -> DOMAIN queue] :
    /\ \A i, j \in 1..n : i < j => pos[i] < pos[j]
    /\ {pos[i] : i \in 1..n} = {k \in DOMAIN queue : queue[k] \notin M}
    /\ queue' = [i \in 1..n |-> queue[pos[i]]]

Goto(r, from, to) ==
  /\ pc[r] \in from
  /\ pc' = [pc EXCEPT ![r] = to]

Exists(m) == status[m] \notin {"absent", "pruned"}

\* One more of the crashes and errors the run allows.
Fault ==
  /\ faults < MaxFaults
  /\ faults' = faults + 1

\* What a relay has in memory when it starts, crashes or drains no more.
Forget(r) ==
  /\ batch' = [batch EXCEPT ![r] = <<>>]
  /\ batches' = [batches EXCEPT ![r] = 0]
  /\ cur' = [cur EXCEPT ![r] = None]
  /\ todo' = [todo EXCEPT ![r] = {}]
  /\ running' = [running EXCEPT ![r] = None]
  /\ failed' = [failed EXCEPT ![r] = FALSE]

-----------------------------------------------------------------------------
\* A transaction that calls stage() or writes an announced model commits.
Stage(m) ==
  /\ status[m] = "absent"
  /\ status' = [status EXCEPT ![m] = "pending"]
  /\ Enqueue(m)
  /\ UNCHANGED <<attempts, receipts, aged, owner, relayVars, prune, ran, rounds, faults>>

\* The clock passes nextAttemptAt.
BackoffElapses(m) ==
  /\ status[m] = "pending"
  /\ \A i \in DOMAIN queue : queue[i] # m
  /\ Enqueue(m)
  /\ UNCHANGED <<status, attempts, receipts, aged, owner, relayVars, prune, ran, rounds, faults>>

\* drain(): the lock is free.  When it is not, drain() returns null.
Acquire(r) ==
  /\ Goto(r, {"idle"}, "fetch")
  /\ owner = None
  /\ owner' = r
  /\ UNCHANGED <<rows, aged, batch, batches, cur, todo, running, failed, prune, ran, rounds, faults>>

\* Mutant of Fetch: no limit on the batches of one drain.
FetchUnbounded(r) ==
  /\ Goto(r, {"fetch"}, "next")
  /\ queue # <<>>
  /\ batch' = [batch EXCEPT ![r] =
                 [i \in 1..Smaller(BatchSize, Len(queue)) |->
                    [msg |-> queue[i], attempts |-> attempts[queue[i]]]]]
  /\ batches' = [batches EXCEPT ![r] = @ + 1]
  /\ UNCHANGED <<rows, aged, owner, cur, todo, running, failed, prune, ran, rounds, faults>>

\* findMany: the oldest due rows, at most BatchSize, at most MaxBatches times.
Fetch(r) ==
  /\ Goto(r, {"fetch"}, "next")
  /\ queue # <<>> /\ batches[r] < MaxBatches
  /\ batch' = [batch EXCEPT ![r] =
                 [i \in 1..Smaller(BatchSize, Len(queue)) |->
                    [msg |-> queue[i], attempts |-> attempts[queue[i]]]]]
  /\ batches' = [batches EXCEPT ![r] = @ + 1]
  /\ UNCHANGED <<rows, aged, owner, cur, todo, running, failed, prune, ran, rounds, faults>>

FetchNothing(r) ==
  /\ Goto(r, {"fetch"}, "release")
  /\ queue = <<>> \/ batches[r] = MaxBatches
  /\ Forget(r)
  /\ UNCHANGED <<rows, aged, owner, prune, ran, rounds, faults>>

\* Mutant of Begin: every handler, whatever receipts exist.
BeginAfresh(r) ==
  /\ Goto(r, {"next"}, "deliver")
  /\ LET row == Head(batch[r])
     IN  /\ cur' = [cur EXCEPT ![r] = row]
         /\ todo' = [todo EXCEPT ![r] = HandlersOf[row.msg]]
  /\ batch' = [batch EXCEPT ![r] = Tail(@)]
  /\ failed' = [failed EXCEPT ![r] = FALSE]
  /\ UNCHANGED <<rows, aged, owner, batches, running, prune, ran, rounds, faults>>

\* deliver(): the next row of the batch, and the receipts it has by now.
Begin(r) ==
  /\ Goto(r, {"next"}, "deliver")
  /\ LET row == Head(batch[r])
     IN  /\ cur' = [cur EXCEPT ![r] = row]
         /\ todo' = [todo EXCEPT ![r] = HandlersOf[row.msg] \ receipts[row.msg]]
  /\ batch' = [batch EXCEPT ![r] = Tail(@)]
  /\ failed' = [failed EXCEPT ![r] = FALSE]
  /\ UNCHANGED <<rows, aged, owner, batches, running, prune, ran, rounds, faults>>

\* run(): handler.handle() resolves; the receipt is not written yet.
HandlerDone(r, h) ==
  /\ Goto(r, {"deliver"}, "receipt")
  /\ h \in todo[r] /\ "done" \in Outcomes[cur[r].msg]
  /\ running' = [running EXCEPT ![r] = h]
  /\ todo' = [todo EXCEPT ![r] = @ \ {h}]
  /\ ran' = [ran EXCEPT ![cur[r].msg] = @ \cup {h}]
  /\ UNCHANGED <<rows, aged, owner, batch, batches, cur, failed, prune, rounds, faults>>

\* handler.handle() throws: noted, and the next handler is tried.
HandlerFails(r, h) ==
  /\ pc[r] = "deliver"
  /\ h \in todo[r] /\ "fails" \in Outcomes[cur[r].msg]
  /\ todo' = [todo EXCEPT ![r] = @ \ {h}]
  /\ failed' = [failed EXCEPT ![r] = TRUE]
  /\ UNCHANGED <<rows, aged, owner, pc, batch, batches, cur, running, prune, ran, rounds, faults>>

\* The receipt is upserted; its foreign key needs the message to exist.
WriteReceipt(r) ==
  /\ Goto(r, {"receipt"}, "deliver")
  /\ Exists(cur[r].msg)
  /\ receipts' = [receipts EXCEPT ![cur[r].msg] = @ \cup {running[r]}]
  /\ running' = [running EXCEPT ![r] = None]
  /\ UNCHANGED <<status, attempts, queue, aged, owner, batch, batches, cur, todo, failed,
                 prune, ran, rounds, faults>>

\* createMany rejects, in the same try as the handler: the handler "failed".
ReceiptFails(r) ==
  /\ Goto(r, {"receipt"}, "deliver")
  /\ IF Exists(cur[r].msg) THEN Fault ELSE UNCHANGED faults
  /\ running' = [running EXCEPT ![r] = None]
  /\ failed' = [failed EXCEPT ![r] = TRUE]
  /\ UNCHANGED <<rows, aged, owner, batch, batches, cur, todo, prune, ran, rounds>>

\* The loop over the batch goes on, or the next batch is read.
EndDelivery(r) ==
  /\ pc[r] = "deliver" /\ todo[r] = {}
  /\ pc' = [pc EXCEPT ![r] = IF batch[r] = <<>> THEN "fetch" ELSE "next"]
  /\ cur' = [cur EXCEPT ![r] = None]
  /\ UNCHANGED <<batch, batches, todo, running>>

\* Mutant of SettleDelivered: a delivery some handler failed settles too.
SettleAnyway(r) ==
  /\ EndDelivery(r)
  /\ LET m == cur[r].msg
     IN  IF status[m] = "pending"
           THEN status' = [status EXCEPT ![m] = "delivered"] /\ Dequeue({m})
           ELSE UNCHANGED <<status, queue>>
  /\ UNCHANGED <<attempts, receipts, aged, owner, failed, prune, ran, rounds, faults>>

\* No failures: updateMany where pending -> delivered.
SettleDelivered(r) ==
  /\ EndDelivery(r)
  /\ ~failed[r]
  /\ LET m == cur[r].msg
     IN  IF status[m] = "pending"
           THEN status' = [status EXCEPT ![m] = "delivered"] /\ Dequeue({m})
           ELSE UNCHANGED <<status, queue>>
  /\ UNCHANGED <<attempts, receipts, aged, owner, failed, prune, ran, rounds, faults>>

\* Mutant of RecordFailure: the update does not ask for a pending row.
RecordFailureAnyway(r) ==
  /\ EndDelivery(r)
  /\ failed[r]
  /\ failed' = [failed EXCEPT ![r] = FALSE]
  /\ LET m == cur[r].msg
         n == cur[r].attempts + 1
     IN  IF Exists(m)
           THEN /\ status' = [status EXCEPT ![m] = IF n >= MaxAttempts THEN "dead" ELSE "pending"]
                /\ attempts' = [attempts EXCEPT ![m] = n]
                /\ rounds' = [rounds EXCEPT ![m] = Smaller(@ + 1, MaxAttempts)]
                /\ Dequeue({m})
           ELSE UNCHANGED <<status, attempts, rounds, queue>>
  /\ UNCHANGED <<receipts, aged, owner, prune, ran, faults>>

\* Mutant of RecordFailure: the attempt is not counted.
RecordNoAttempt(r) ==
  /\ EndDelivery(r)
  /\ failed[r]
  /\ failed' = [failed EXCEPT ![r] = FALSE]
  /\ IF status[cur[r].msg] = "pending" THEN Dequeue({cur[r].msg}) ELSE UNCHANGED queue
  /\ UNCHANGED <<status, attempts, rounds, receipts, aged, owner, prune, ran, faults>>

\* recordFailure(): one attempt more than the row had when it was read, and
\* where pending: dead at the maximum, a later nextAttemptAt below it.
RecordFailure(r) ==
  /\ EndDelivery(r)
  /\ failed[r]
  /\ failed' = [failed EXCEPT ![r] = FALSE]
  /\ LET m == cur[r].msg
         n == cur[r].attempts + 1
     IN  IF status[m] = "pending"
           THEN /\ status' = IF n >= MaxAttempts THEN [status EXCEPT ![m] = "dead"] ELSE status
                /\ attempts' = [attempts EXCEPT ![m] = n]
                /\ rounds' = [rounds EXCEPT ![m] = Smaller(@ + 1, MaxAttempts)]
                /\ Dequeue({m})
           ELSE UNCHANGED <<status, attempts, rounds, queue>>
  /\ UNCHANGED <<receipts, aged, owner, prune, ran, faults>>

\* A query of drain() rejects: the exception leaves the loop for the finally.
DrainError(r) ==
  /\ Goto(r, {"fetch", "next", "deliver"}, "release")
  /\ Fault
  /\ pc[r] = "deliver" => todo[r] = {}
  /\ Forget(r)
  /\ UNCHANGED <<rows, aged, owner, prune, ran, rounds>>

\* Mutant of Release: the key is deleted, whoever's token it holds.
ReleaseAnyKey(r) ==
  /\ Goto(r, {"release"}, "idle")
  /\ owner' = None
  /\ UNCHANGED <<rows, aged, batch, batches, cur, todo, running, failed, prune, ran, rounds, faults>>

\* lock.release(): compare-and-delete.
Release(r) ==
  /\ Goto(r, {"release"}, "idle")
  /\ owner' = IF owner = r THEN None ELSE owner
  /\ UNCHANGED <<rows, aged, batch, batches, cur, todo, running, failed, prune, ran, rounds, faults>>

\* The process dies, or release() never reaches Redis: the lock is left to its TTL.
Crash(r) ==
  /\ Goto(r, Draining \cup {"release"}, "idle")
  /\ Fault
  /\ Forget(r)
  /\ UNCHANGED <<rows, aged, owner, prune, ran, rounds>>

\* A handler takes the process down with it, on every attempt.
HandlerKills(r) ==
  /\ Goto(r, {"deliver"}, "idle")
  /\ todo[r] # {} /\ "kills" \in Outcomes[cur[r].msg]
  /\ Forget(r)
  /\ UNCHANGED <<rows, aged, owner, prune, ran, rounds, faults>>

\* The TTL deletes the key: of a relay that no longer drains or, when Lossy,
\* of one that was not able to renew it.
Expire ==
  /\ owner # None
  /\ Lossy \/ pc[owner] \notin Draining
  /\ owner' = None
  /\ UNCHANGED <<rows, aged, relayVars, prune, ran, rounds, faults>>

\* Mutant of Requeue: the attempts are kept.
RequeueSpent(m) ==
  /\ m \in Operated /\ status[m] = "dead"
  /\ status' = [status EXCEPT ![m] = "pending"]
  /\ rounds' = [rounds EXCEPT ![m] = 0]
  /\ aged' = aged \ {m}
  /\ Enqueue(m)
  /\ UNCHANGED <<attempts, receipts, owner, relayVars, prune, ran, faults>>

\* requeue(): updateMany where dead; the receipts stay.
Requeue(m) ==
  /\ m \in Operated /\ status[m] = "dead"
  /\ status' = [status EXCEPT ![m] = "pending"]
  /\ attempts' = [attempts EXCEPT ![m] = 0]
  /\ rounds' = [rounds EXCEPT ![m] = 0]
  /\ aged' = aged \ {m}
  /\ Enqueue(m)
  /\ UNCHANGED <<receipts, owner, relayVars, prune, ran, faults>>

\* Retention passes: 7 days after deliveredAt, 30 after deadAt.
Age(m) ==
  /\ status[m] \in {"delivered", "dead"} /\ m \notin aged
  /\ aged' = aged \cup {m}
  /\ UNCHANGED <<rows, owner, relayVars, prune, ran, rounds, faults>>

\* prune(): three statements of one READ COMMITTED transaction.  The first
\* selects the ids, the second deletes the receipts they have by then, and the
\* third deletes the messages by id alone, or fails on the foreign key of a
\* receipt that was committed in between.
PruneSelect ==
  /\ prune.step = "idle" /\ aged # {}
  /\ prune' = [prune EXCEPT !.step = "selected", !.ids = aged]
  /\ UNCHANGED <<rows, aged, owner, relayVars, ran, rounds, faults>>

PruneReceipts ==
  /\ prune.step = "selected"
  /\ prune' = [prune EXCEPT !.step = "deleting",
                 !.seen = [m \in Message |-> IF m \in prune.ids THEN receipts[m] ELSE {}]]
  /\ UNCHANGED <<rows, aged, owner, relayVars, ran, rounds, faults>>

PruneMessages ==
  /\ prune.step = "deleting"
  /\ prune' = Idle
  /\ IF \A m \in prune.ids : receipts[m] \subseteq prune.seen[m]
       THEN /\ status' = [m \in Message |-> IF m \in prune.ids THEN "pruned" ELSE status[m]]
            /\ receipts' = [m \in Message |-> IF m \in prune.ids THEN {} ELSE receipts[m]]
            /\ aged' = aged \ prune.ids
            /\ Dequeue(prune.ids)
       ELSE UNCHANGED <<status, receipts, queue, aged>>
  /\ UNCHANGED <<attempts, owner, relayVars, ran, rounds, faults>>

-----------------------------------------------------------------------------
RelayStep(r) ==
  \/ Fetch(r) \/ FetchNothing(r) \/ Begin(r)
  \/ \E h \in Handler : HandlerDone(r, h) \/ HandlerFails(r, h)
  \/ WriteReceipt(r) \/ ReceiptFails(r)
  \/ SettleDelivered(r) \/ RecordFailure(r)
  \/ Release(r)

RelayFault(r) == DrainError(r) \/ Crash(r) \/ HandlerKills(r)

MessageStep(m) == Stage(m) \/ BackoffElapses(m) \/ Requeue(m) \/ Age(m)

Prune == PruneSelect \/ PruneReceipts \/ PruneMessages

Next ==
  \/ \E r \in Relay : Acquire(r) \/ RelayStep(r) \/ RelayFault(r)
  \/ \E m \in Message : MessageStep(m)
  \/ Prune
  \/ Expire

Spec == Init /\ [][Next]_vars

\* A handler's promise is awaited, without a timeout.
Handling(r) == pc[r] = "deliver" /\ todo[r] # {}

\* OutboxRunner repeats the drain job on its schedule, so some relay always
\* asks for the lock again; queries settle; clocks and TTLs run.  No handler is
\* assumed to settle, and nothing makes anyone stage, requeue or prune.
Fairness ==
  /\ WF_vars(\E r \in Relay : Acquire(r))
  /\ \A r \in Relay : WF_vars(~Handling(r) /\ RelayStep(r))
  /\ WF_vars(Expire)
  /\ \A m \in Message : WF_vars(BackoffElapses(m))

FairSpec == Spec /\ Fairness

-----------------------------------------------------------------------------
\* A message is marked delivered only when every handler registered for it has
\* completed on it at least once: whatever relays overlap, crash, lose receipts
\* or lose the lock (outbox.relay.ts:106-131; guide outbox.md:69-78).
DeliveredHandled ==
  \A m \in Message :
    status[m] = "delivered" => HandlersOf[m] \subseteq ran[m] \cap receipts[m]

\* A settled message stays settled: delivered rows only leave by prune, dead
\* ones by prune or by requeue with a fresh count, whatever a relay with an
\* older copy of the row writes later (the "status: pending" guards).
SettledIsFinal ==
  [][\A m \in Message :
       /\ status[m] = "delivered" => status'[m] \in {"delivered", "pruned"}
       /\ status[m] = "dead" =>
            \/ status'[m] = "dead" /\ attempts'[m] = attempts[m]
            \/ status'[m] = "pending" /\ attempts'[m] = 0
            \/ status'[m] = "pruned"]_vars

\* A retry runs only the handlers without a receipt (guide outbox.md:76): no
\* relay has a handler before it that already has its receipt and, while nothing
\* crashed or failed between a handler and its receipt, none that ever completed
\* on the message.  It needs the lock to outlast the drain.
OnlyUnfinishedRun ==
  \A r \in Relay : pc[r] \in {"deliver", "receipt"} =>
    /\ todo[r] \cap receipts[cur[r].msg] = {}
    /\ pc[r] = "receipt" => running[r] \notin receipts[cur[r].msg]
    /\ faults = 0 /\ status[cur[r].msg] # "pruned" => todo[r] \cap ran[cur[r].msg] = {}

\* attempts counts the failed deliveries since the message was staged or
\* requeued, no more and no fewer, and a message is dead exactly when they are
\* MaxAttempts (guide outbox.md:84-91).  It needs the lock to outlast the drain.
AttemptsCount ==
  \A m \in Message :
    /\ status[m] \in {"pending", "dead"} => attempts[m] = rounds[m]
    /\ status[m] = "dead" <=> status[m] # "pruned" /\ rounds[m] = MaxAttempts

\* Unless some handler hangs for ever, every pending message is eventually
\* delivered or dead (or lost to prune's race), whatever its handlers answer,
\* however often an operator requeues messages, and however relays crash (guide
\* outbox.md:69-84).  A handler that hangs holds up every relay and every
\* message: nothing bounds handle(), and the heartbeat keeps the lock.  Nor may
\* a handler take the process down for ever.
EventuallySettled ==
  (\A r \in Relay : []<>~Handling(r))
    => \A m \in Message : status[m] = "pending" ~> status[m] # "pending"

\* guide outbox.md:97: "Pending messages are never pruned."
PendingNeverPruned ==
  [][\A m \in Message : status[m] = "pending" => status'[m] # "pruned"]_vars

\* The relays use the lock as Lease promises it, and no other way.
TheLease == INSTANCE Lease
  WITH Client <- Relay, believers <- {r \in Relay : pc[r] \in Draining}
UsesLease == TheLease!Spec

\* The outbox implements Delivery, its promise.
Promise == INSTANCE Delivery WITH Revivable <- Operated
ImplementsDelivery == Promise!Spec
=============================================================================
