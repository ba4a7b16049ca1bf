-------------------------- MODULE OutboundWebhooks --------------------------
(***************************************************************************)
(* Outbound webhooks (packages/webhooks): OutboundWebhookFanout, the       *)
(* outbox handler that turns a message into one WebhookDelivery row and    *)
(* one BullMQ job per subscription; OutboundWebhookProcessor, which runs   *)
(* the attempts; WebhookDeliveryService.redeliver and prune; and the       *)
(* subscription updates that a delivery in flight may meet.                *)
(*                                                                         *)
(* Two stores that no transaction spans say how far a delivery is: the row *)
(* in PostgreSQL and the job in Redis.  Every action below is what runs    *)
(* between two awaits, so it touches one of them.  The queue itself is     *)
(* BullMQ's: a job id it still holds is not added twice, a job whose       *)
(* worker lost its lock goes back to waiting (at most MaxStalls times,     *)
(* then it fails without being run), and finished jobs are trimmed.        *)
(* The row's attempts, lastStatusCode and lastError are only reported:     *)
(* nothing reads them back but the next attempt's header.                  *)
(***************************************************************************)
EXTENDS Integers

CONSTANTS Sub, Msg, Worker, Admin,
          None,
          Wants,      \* pairs <<s, m>> whose event pattern matches
          Attempts,   \* OUTBOUND_WEBHOOK_POLICY.attempts
          MaxStalls,  \* BullMQ's maxStalledCount
          MaxRound,   \* bound: redeliveries of one delivery
          MaxFaults   \* bound: crashes, lost locks and database or Redis errors

Delivery == Sub \X Msg
JobId == Delivery \X (0..MaxRound)   \* `${delivery.id}-${delivery.round}`

ASSUME WebhookAssumption ==
  /\ Wants \subseteq Delivery
  /\ None \notin Sub \cup Worker \cup Delivery \cup JobId
  /\ Attempts \in Nat \ {0}
  /\ MaxStalls \in Nat /\ MaxRound \in Nat /\ MaxFaults \in Nat

VARIABLES
  sub,        \* WebhookSubscription: not created, active or not, removed
  status,     \* WebhookDelivery.status; "none" before the row, "deleted" after
  round,      \* WebhookDelivery.round
  fan,        \* how far the outbox is with each message
  todo,       \* subscriptions the fan-out read and has not come to
  next,       \* the job id the fan-out is about to enqueue
  job,        \* state of each job id in the queue
  made,       \* job.attemptsMade
  stalls,     \* BullMQ's stalled counter of the job
  holder,     \* the worker whose lock on the job is valid
  pc,         \* where each worker is in process()
  task,       \* the job each worker runs
  tried,      \* job.attemptsMade as the worker read it
  admin,      \* redeliver(): the delivery claimed and the job id to enqueue
  spent,      \* history: tries of the delivery's current round
  off,        \* history: rows whose last write was "the subscription is disabled"
  crossed,    \* history: two runs of the delivery were under way at once
  stranded,   \* history: the run of the row was given up where it is pending
  faults      \* bound counter

rows == <<status, round>>
fanout == <<fan, todo, next>>
queue == <<job, made, stalls, holder>>
workers == <<pc, task, tried>>
history == <<spent, off, crossed, stranded>>
vars == <<sub, rows, fanout, queue, workers, admin, history, faults>>

Statuses == {"none", "pending", "delivered", "dead", "deleted"}
Exists(d) == status[d] \in {"pending", "delivered", "dead"}
Held(k) == job[k] # "none"
Idle == [d |-> None, id |-> None]

TypeOK ==
  /\ sub \in [Sub -> {"none", "on", "off", "gone"}]
  /\ status \in [Delivery -> Statuses]
  /\ round \in [Delivery -> 0..MaxRound]
  /\ fan \in [Msg -> {"due", "running", "returned", "settled"}]
  /\ todo \in [Msg -> SUBSET Sub]
  /\ next \in [Msg -> JobId \cup {None}]
  /\ job \in [JobId -> {"none", "waiting", "active", "completed", "failed"}]
  /\ made \in [JobId -> 0..Attempts]
  /\ stalls \in [JobId -> 0..MaxStalls + 1]
  /\ holder \in [JobId -> Worker \cup {None}]
  /\ pc \in [Worker -> {"idle", "read", "disable", "send", "landed", "refused",
                        "complete", "fail"}]
  /\ task \in [Worker -> JobId \cup {None}]
  /\ tried \in [Worker -> 0..Attempts]
  /\ admin \in [Admin -> [d : Delivery \cup {None}, id : JobId \cup {None}]]
  /\ spent \in [Delivery -> Nat]
  /\ off \subseteq Delivery /\ crossed \subseteq Delivery /\ stranded \subseteq Delivery
  /\ faults \in 0..MaxFaults

Init ==
  /\ sub = [s \in Sub |-> "none"]
  /\ status = [d \in Delivery |-> "none"]
  /\ round = [d \in Delivery |-> 0]
  /\ fan = [m \in Msg |-> "due"]
  /\ todo = [m \in Msg |-> {}]
  /\ next = [m \in Msg |-> None]
  /\ job = [k \in JobId |-> "none"]
  /\ made = [k \in JobId |-> 0]
  /\ stalls = [k \in JobId |-> 0]
  /\ holder = [k \in JobId |-> None]
  /\ pc = [w \in Worker |-> "idle"]
  /\ task = [w \in Worker |-> None]
  /\ tried = [w \in Worker |-> 0]
  /\ admin = [a \in Admin |-> Idle]
  /\ spent = [d \in Delivery |-> 0]
  /\ off = {} /\ crossed = {} /\ stranded = {}
  /\ faults = 0

Fault ==
  /\ faults < MaxFaults
  /\ faults' = faults + 1

-----------------------------------------------------------------------------
(* The queue. *)

\* queue.add with a job id: nothing happens while the queue holds that id.
Add(k) ==
  /\ job' = IF Held(k) THEN job ELSE [job EXCEPT ![k] = "waiting"]
  /\ UNCHANGED <<made, stalls, holder>>

\* A finished job is trimmed (keepCompleted, keepFailed), its id free again.
Trim(k) ==
  /\ job[k] \in {"completed", "failed"}
  /\ job' = [job EXCEPT ![k] = "none"]
  /\ made' = [made EXCEPT ![k] = 0]
  /\ stalls' = [stalls EXCEPT ![k] = 0]
  /\ UNCHANGED <<sub, rows, fanout, holder, workers, admin, history, faults>>

\* A worker's lock on its job expires while it still runs (a blocked event
\* loop, a lost Redis connection).
LoseLock(k) ==
  /\ Fault
  /\ job[k] = "active" /\ holder[k] # None
  /\ holder' = [holder EXCEPT ![k] = None]
  /\ UNCHANGED <<sub, rows, fanout, job, made, stalls, workers, admin, history>>

\* The stalled check puts an active job without a lock back, or fails it.
Stalled(k) ==
  /\ job[k] = "active" /\ holder[k] = None
  /\ stalls' = [stalls EXCEPT ![k] = @ + 1]
  /\ IF stalls[k] < MaxStalls
       THEN /\ job' = [job EXCEPT ![k] = "waiting"]
            /\ UNCHANGED stranded
       ELSE /\ job' = [job EXCEPT ![k] = "failed"]
            /\ stranded' = stranded \cup {k[1]}
  /\ UNCHANGED <<sub, rows, fanout, made, holder, workers, admin,
                 spent, off, crossed, faults>>

-----------------------------------------------------------------------------
(* OutboundWebhookFanout.handle, called by the outbox until it returns. *)

\* An admin has claimed d, and is to enqueue its current round.
Claimed(d) == \E a \in Admin : admin[a].d = d /\ admin[a].id \in {None, <<d, round[d]>>}

\* A row that an earlier call wrote and did not enqueue is passed over when its
\* subscription has been disabled since.
FanRead(m) ==
  LET due == {s \in Sub : sub[s] = "on" /\ <<s, m>> \in Wants} IN
  /\ fan[m] = "due"
  /\ fan' = [fan EXCEPT ![m] = "running"]
  /\ todo' = [todo EXCEPT ![m] = due]
  /\ stranded' = stranded \cup {d \in (Sub \ due) \X {m} :
                                  /\ status[d] = "pending"
                                  /\ ~Held(<<d, round[d]>>) /\ ~Claimed(d)}
  /\ UNCHANGED <<sub, rows, next, queue, workers, admin, spent, off, crossed, faults>>

\* handle() rejects: the outbox keeps the message and hands it over again.  That
\* is exact while the message has attempts left, below OUTBOX_MAX_ATTEMPTS (8)
\* errors of its handlers; the outbox's giving up after them is left out.
Rehand(m) ==
  /\ fan' = [fan EXCEPT ![m] = "due"]
  /\ todo' = [todo EXCEPT ![m] = {}]
  /\ next' = [next EXCEPT ![m] = None]

\* Mutant of FanUpsert: only a row this call created is enqueued.
FanUpsertNew(m, s) ==
  LET d == <<s, m>> IN
  /\ fan[m] = "running" /\ next[m] = None /\ s \in todo[m]
  /\ sub[s] # "gone"
  /\ status' = IF Exists(d) THEN status ELSE [status EXCEPT ![d] = "pending"]
  /\ todo' = [todo EXCEPT ![m] = @ \ {s}]
  /\ next' = [next EXCEPT ![m] = IF Exists(d) THEN None ELSE <<d, round[d]>>]
  /\ UNCHANGED <<sub, round, fan, queue, workers, admin, history, faults>>

FanUpsert(m, s) ==
  LET d == <<s, m>> IN
  /\ fan[m] = "running" /\ next[m] = None /\ s \in todo[m]
  /\ sub[s] # "gone"
  /\ status' = IF Exists(d) THEN status ELSE [status EXCEPT ![d] = "pending"]
  /\ todo' = [todo EXCEPT ![m] = @ \ {s}]
  /\ next' = [next EXCEPT ![m] = IF status'[d] = "pending" THEN <<d, round[d]>>
                                                           ELSE None]
  /\ UNCHANGED <<sub, round, fan, queue, workers, admin, history, faults>>

\* The subscription was removed since it was read: its foreign key is refused.
FanRefused(m, s) ==
  /\ fan[m] = "running" /\ next[m] = None /\ s \in todo[m]
  /\ sub[s] = "gone"
  /\ Rehand(m)
  /\ UNCHANGED <<sub, rows, queue, workers, admin, history, faults>>

FanEnqueue(m) ==
  /\ fan[m] = "running" /\ next[m] # None
  /\ Add(next[m])
  /\ next' = [next EXCEPT ![m] = None]
  /\ UNCHANGED <<sub, rows, fan, todo, workers, admin, history, faults>>

\* Mutant of FanReturn: returns at the first subscription it should skip.
FanReturnEarly(m) ==
  /\ fan[m] = "running" /\ next[m] = None
  /\ fan' = [fan EXCEPT ![m] = "returned"]
  /\ UNCHANGED <<sub, rows, todo, next, queue, workers, admin, history, faults>>

FanReturn(m) ==
  /\ fan[m] = "running" /\ next[m] = None /\ todo[m] = {}
  /\ fan' = [fan EXCEPT ![m] = "returned"]
  /\ UNCHANGED <<sub, rows, todo, next, queue, workers, admin, history, faults>>

\* The outbox records the receipt: the message is not handed over again.
FanSettle(m) ==
  /\ fan[m] = "returned"
  /\ fan' = [fan EXCEPT ![m] = "settled"]
  /\ UNCHANGED <<sub, rows, todo, next, queue, workers, admin, history, faults>>

\* A crash or an error anywhere before the receipt.
FanFails(m) ==
  /\ Fault
  /\ fan[m] \in {"running", "returned"}
  /\ Rehand(m)
  /\ UNCHANGED <<sub, rows, queue, workers, admin, history>>

-----------------------------------------------------------------------------
(* OutboundWebhookProcessor.process, one attempt of one delivery. *)

Of(w) == task[w][1]                  \* deliveryId: all the job carries
Goto(w, from, to) == pc[w] = from /\ pc' = [pc EXCEPT ![w] = to]

Pick(w, k) ==
  /\ Goto(w, "idle", "read")
  /\ job[k] = "waiting"
  /\ job' = [job EXCEPT ![k] = "active"]
  /\ holder' = [holder EXCEPT ![k] = w]
  /\ task' = [task EXCEPT ![w] = k]
  /\ tried' = [tried EXCEPT ![w] = made[k]]
  /\ crossed' = IF \E v \in Worker : pc[v] # "idle" /\ Of(v) = k[1]
                  THEN crossed \cup {k[1]} ELSE crossed
  /\ UNCHANGED <<sub, rows, fanout, made, stalls, admin, spent, off, stranded, faults>>

\* The row is missing or settled: the job is done.
ReadSettled(w) ==
  /\ Goto(w, "read", "complete")
  /\ status[Of(w)] # "pending"
  /\ UNCHANGED <<sub, rows, fanout, queue, task, tried, admin, history, faults>>

\* A try of the delivery begins; it counts against the row's current round,
\* whichever round the job was queued for.
Try(w) ==
  /\ spent' = [spent EXCEPT ![Of(w)] = @ + 1]
  /\ crossed' = IF round[Of(w)] # task[w][2] THEN crossed \cup {Of(w)} ELSE crossed

ReadDisabled(w) ==
  /\ Goto(w, "read", "disable")
  /\ status[Of(w)] = "pending" /\ sub[Of(w)[1]] # "on"
  /\ Try(w)
  /\ UNCHANGED <<sub, rows, fanout, queue, task, tried, admin, off, stranded, faults>>

\* Mutant of ReadPending: the status is not looked at.
ReadUnchecked(w) ==
  /\ Goto(w, "read", "send")
  /\ sub[Of(w)[1]] = "on"
  /\ Try(w)
  /\ UNCHANGED <<sub, rows, fanout, queue, task, tried, admin, off, stranded, faults>>

ReadPending(w) ==
  /\ Goto(w, "read", "send")
  /\ status[Of(w)] = "pending" /\ sub[Of(w)[1]] = "on"
  /\ Try(w)
  /\ UNCHANGED <<sub, rows, fanout, queue, task, tried, admin, off, stranded, faults>>

\* sender.send: an answer in 200..299, or anything else within the timeout.
Send(w) ==
  /\ \E result \in {"landed", "refused"} : Goto(w, "send", result)
  /\ UNCHANGED <<sub, rows, fanout, queue, task, tried, admin, history, faults>>

\* Mutant of IsLastAttempt: one attempt too early.
IsLastAttemptEarly(w) == tried[w] + 2 >= Attempts

IsLastAttempt(w) == tried[w] + 1 >= Attempts

\* The updates of the row are keyed on its id alone.
WriteDelivered(w) ==
  /\ Goto(w, "landed", "complete")
  /\ Exists(Of(w))
  /\ status' = [status EXCEPT ![Of(w)] = "delivered"]
  /\ UNCHANGED <<sub, round, fanout, queue, task, tried, admin, history, faults>>

MarkDead(w) == status' = [status EXCEPT ![Of(w)] = "dead"]

WriteRefused(w) ==
  /\ Goto(w, "refused", "fail")
  /\ Exists(Of(w))
  /\ IF IsLastAttempt(w) THEN MarkDead(w) ELSE UNCHANGED status
  /\ off' = off \ {Of(w)}
  /\ UNCHANGED <<sub, round, fanout, queue, task, tried, admin,
                 spent, crossed, stranded, faults>>

WriteDisabled(w) ==
  /\ Goto(w, "disable", "complete")
  /\ Exists(Of(w))
  /\ MarkDead(w)
  /\ off' = off \cup {Of(w)}
  /\ UNCHANGED <<sub, round, fanout, queue, task, tried, admin,
                 spent, crossed, stranded, faults>>

\* The row was deleted since it was read: the update rejects.
WriteMissing(w) ==
  /\ pc[w] \in {"disable", "landed", "refused"}
  /\ ~Exists(Of(w))
  /\ pc' = [pc EXCEPT ![w] = "fail"]
  /\ UNCHANGED <<sub, rows, fanout, queue, task, tried, admin, history, faults>>

\* The database refuses the read or a write: process() rejects.  On the last
\* attempt no one will write the row any more.
DatabaseFails(w) ==
  /\ Fault
  /\ pc[w] \in {"read", "disable", "landed", "refused"}
  /\ pc' = [pc EXCEPT ![w] = "fail"]
  /\ IF pc[w] = "read" THEN Try(w) ELSE UNCHANGED <<spent, crossed>>
  /\ stranded' = IF IsLastAttempt(w) THEN stranded \cup {Of(w)} ELSE stranded
  /\ UNCHANGED <<sub, rows, fanout, queue, task, tried, admin, off>>

\* The run ends and takes what it read with it.
Leave(w) ==
  /\ pc' = [pc EXCEPT ![w] = "idle"]
  /\ task' = [task EXCEPT ![w] = None]
  /\ tried' = [tried EXCEPT ![w] = 0]

\* Mutant of Finish: a job that failed is always retried.
FinishUncounted(w) ==
  LET k == task[w] IN
  /\ pc[w] \in {"complete", "fail"}
  /\ Leave(w)
  /\ holder' = [holder EXCEPT ![k] = None]
  /\ made' = IF pc[w] = "fail" THEN [made EXCEPT ![k] = @ + 1] ELSE made
  /\ job' = [job EXCEPT ![k] = IF pc[w] = "fail" THEN "waiting" ELSE "completed"]
  /\ UNCHANGED <<sub, rows, fanout, stalls, admin, history, faults>>

\* BullMQ moves the job on, unless the worker's lock on it is gone.
Finish(w) ==
  LET k == task[w] IN
  /\ pc[w] \in {"complete", "fail"}
  /\ Leave(w)
  /\ IF holder[k] # w
       THEN UNCHANGED <<job, made, holder>>
       ELSE /\ holder' = [holder EXCEPT ![k] = None]
            /\ IF pc[w] = "complete"
                 THEN job' = [job EXCEPT ![k] = "completed"] /\ UNCHANGED made
                 ELSE /\ made' = [made EXCEPT ![k] = @ + 1]
                      /\ job' = [job EXCEPT ![k] = IF made[k] + 1 < Attempts
                                                     THEN "waiting" ELSE "failed"]
  /\ UNCHANGED <<sub, rows, fanout, stalls, admin, history, faults>>

\* The worker's process dies: its lock is no longer renewed.
WorkerDies(w) ==
  LET k == task[w] IN
  /\ Fault
  /\ pc[w] # "idle"
  /\ Leave(w)
  /\ holder' = IF holder[k] = w THEN [holder EXCEPT ![k] = None] ELSE holder
  /\ UNCHANGED <<sub, rows, fanout, job, made, stalls, admin, history>>

-----------------------------------------------------------------------------
(* What administrators and the nightly prune do meanwhile. *)

\* Mutant of Redeliver: the round is not raised.
RedeliverSameRound(a, d) ==
  /\ admin[a] = Idle
  /\ status[d] = "dead" /\ round[d] < MaxRound
  /\ status' = [status EXCEPT ![d] = "pending"]
  /\ admin' = [admin EXCEPT ![a].d = d]
  /\ spent' = [spent EXCEPT ![d] = 0]
  /\ UNCHANGED <<sub, round, fanout, queue, workers, off, crossed, stranded, faults>>

\* WebhookDeliveryService.redeliver: the conditional update is the claim.
Redeliver(a, d) ==
  /\ admin[a] = Idle
  /\ status[d] = "dead" /\ round[d] < MaxRound
  /\ status' = [status EXCEPT ![d] = "pending"]
  /\ round' = [round EXCEPT ![d] = @ + 1]
  /\ admin' = [admin EXCEPT ![a].d = d]
  /\ spent' = [spent EXCEPT ![d] = 0]
  /\ UNCHANGED <<sub, fanout, queue, workers, off, crossed, stranded, faults>>

RedeliverGet(a) ==
  LET d == admin[a].d IN
  /\ d # None /\ admin[a].id = None
  /\ admin' = [admin EXCEPT ![a] = IF Exists(d) THEN [d |-> d, id |-> <<d, round[d]>>]
                                                ELSE Idle]
  /\ UNCHANGED <<sub, rows, fanout, queue, workers, history, faults>>

RedeliverEnqueue(a) ==
  /\ admin[a].id # None
  /\ Add(admin[a].id)
  /\ admin' = [admin EXCEPT ![a] = Idle]
  /\ UNCHANGED <<sub, rows, fanout, workers, history, faults>>

\* A crash or an error between the claim and the job: nothing takes it up again.
RedeliverFails(a) ==
  /\ Fault
  /\ admin[a] # Idle
  /\ stranded' = stranded \cup {admin[a].d}
  /\ admin' = [admin EXCEPT ![a] = Idle]
  /\ UNCHANGED <<sub, rows, fanout, queue, workers, spent, off, crossed>>

\* WebhookSubscriptionService.create.
Create(s) ==
  /\ sub[s] = "none"
  /\ sub' = [sub EXCEPT ![s] = "on"]
  /\ UNCHANGED <<rows, fanout, queue, workers, admin, history, faults>>

\* WebhookSubscriptionService.update with `active`.
SetActive(s) ==
  /\ sub[s] \in {"on", "off"}
  /\ sub' = [sub EXCEPT ![s] = IF @ = "on" THEN "off" ELSE "on"]
  /\ UNCHANGED <<rows, fanout, queue, workers, admin, history, faults>>

\* WebhookSubscriptionService.remove: the deliveries go with the subscription.
Remove(s) ==
  /\ sub[s] \in {"on", "off"}
  /\ sub' = [sub EXCEPT ![s] = "gone"]
  /\ status' = [d \in Delivery |-> IF d[1] = s /\ Exists(d) THEN "deleted" ELSE status[d]]
  /\ UNCHANGED <<round, fanout, queue, workers, admin, history, faults>>

\* WebhookDeliveryService.prune: the settled rows past their retention, which
\* is days longer than the outbox goes on handing their message over.
Prune(D) ==
  /\ D # {}
  /\ \A d \in D : status[d] \in {"delivered", "dead"} /\ fan[d[2]] = "settled"
  /\ status' = [d \in Delivery |-> IF d \in D THEN "deleted" ELSE status[d]]
  /\ UNCHANGED <<sub, round, fanout, queue, workers, admin, history, faults>>

-----------------------------------------------------------------------------
Fanout(m) ==
  \/ FanRead(m) \/ FanEnqueue(m) \/ FanReturn(m) \/ FanSettle(m)
  \/ \E s \in Sub : FanUpsert(m, s) \/ FanRefused(m, s)

Process(w) ==
  \/ ReadSettled(w) \/ ReadDisabled(w) \/ ReadPending(w) \/ Send(w)
  \/ WriteDelivered(w) \/ WriteRefused(w) \/ WriteDisabled(w) \/ WriteMissing(w)
  \/ Finish(w)

Next ==
  \/ \E m \in Msg : Fanout(m) \/ FanFails(m)
  \/ \E w \in Worker : Process(w) \/ DatabaseFails(w) \/ WorkerDies(w)
                       \/ \E k \in JobId : Pick(w, k)
  \/ \E k \in JobId : Trim(k) \/ LoseLock(k) \/ Stalled(k)
  \/ \E a \in Admin : RedeliverGet(a) \/ RedeliverEnqueue(a) \/ RedeliverFails(a)
                      \/ \E d \in Delivery : Redeliver(a, d)
  \/ \E s \in Sub : Create(s) \/ SetActive(s) \/ Remove(s)
  \/ \E D \in SUBSET Delivery : Prune(D)

Spec == Init /\ [][Next]_vars

\* The outbox hands a message over until the fan-out returns (see Rehand), a
\* worker and an admin's request run on while their process lives, the stalled
\* check recurs, and the queue serves its jobs in turn: a waiting job is not
\* passed over for ever.
Fairness ==
  /\ \A m \in Msg : WF_vars(Fanout(m))
  /\ \A w \in Worker : WF_vars(Process(w))
  /\ \A k \in JobId : WF_vars(Stalled(k)) /\ SF_vars(\E w \in Worker : Pick(w, k))
  /\ \A a \in Admin : WF_vars(RedeliverGet(a) \/ RedeliverEnqueue(a))

FairSpec == Spec /\ Fairness

-----------------------------------------------------------------------------
\* Some party will still bring the row of d on: a job of its current round, a
\* fan-out that comes to it or will be handed the message again, or an admin
\* who claimed it and has not enqueued it yet.
Carried(d) ==
  \/ job[<<d, round[d]>>] \in {"waiting", "active"}
  \/ fan[d[2]] = "due" \/ d[1] \in todo[d[2]] \/ next[d[2]] = <<d, round[d]>>
  \/ Claimed(d)

\* A pending delivery never loses its job: between two stores that no
\* transaction spans, a row stays pending with nobody to bring it on only where
\* a redelivery died before it enqueued, a job stalled once too often, the
\* database failed on the last attempt, or a fan-out that was cut short finds
\* the subscription disabled; and never while nothing has failed, whatever is
\* disabled, removed, redelivered or trimmed meanwhile.  A message the outbox
\* gave up after OUTBOX_MAX_ATTEMPTS errors would be one case more (see Rehand).
PendingIsCarried ==
  \A d \in Delivery : status[d] = "pending" =>
    Carried(d) \/ (d \in stranded /\ faults > 0)

\* A dead letter has had its whole budget: a row is not declared dead for its
\* endpoint's refusals before Attempts tries of its current round, unless two
\* runs of the delivery crossed.
DeadIsSpent ==
  \A d \in Delivery :
    status[d] = "dead" /\ d \notin off \cup crossed => spent[d] >= Attempts

\* What the delivery log says is final: a delivered row only disappears and a
\* dead one is only redelivered or disappears, unless two runs of it crossed.
SettledStands ==
  [][\A d \in Delivery :
       /\ status[d] = "delivered" => status'[d] \in {"delivered", "deleted"} \/ d \in crossed'
       /\ status[d] = "dead" =>
            \/ status'[d] \in {"dead", "deleted"}
            \/ status'[d] = "pending" /\ round'[d] = round[d] + 1
            \/ d \in crossed']_vars

\* Every pending delivery is settled in the end, or is one of the stranded, while
\* the outbox has not given its message up (see Rehand).
EventuallySettled ==
  \A d \in Delivery : status[d] = "pending" ~> status[d] # "pending" \/ d \in stranded

\* A committed message reaches every subscription that wants it and is neither
\* disabled nor removed meanwhile, however often the fan-out is cut short, as long
\* as the outbox has attempts left: below OUTBOX_MAX_ATTEMPTS (8) errors of its
\* handlers, and while none of them hangs (outbox.relay.ts:150, 173).
EverySubscriberTold ==
  \A d \in Wants :
    (fan[d[2]] = "due") ~> (status[d] # "none" \/ sub[d[1]] # "on")
=============================================================================
