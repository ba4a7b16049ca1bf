----------------------------- MODULE AuditTrail -----------------------------
(***************************************************************************)
(* One tenant's audit trail: writeAuditLogInTransaction (audit-log.ts),    *)
(* called inside the transactions of several writers; AuditService.verify, *)
(* which walks the chain; AuditSinkService, which creates, switches and    *)
(* removes sinks; AuditStreamService, which stages a sink's next batch in  *)
(* the outbox; and AuditSinkHandler, the outbox handler that delivers it.  *)
(*                                                                         *)
(* An entry is its sequence, which PostgreSQL hands out before the commit  *)
(* and never twice: a rolled back entry, or another tenant's, leaves a     *)
(* gap.  Its hash stands for itself, so previousHash is the sequence of    *)
(* the entry it was computed from.  Transactions are READ COMMITTED: a     *)
(* statement sees what is committed when it runs, and the writer's own.    *)
(* A sink's lastError and lastDelivered columns are only displayed.        *)
(***************************************************************************)
EXTENDS Integers, FiniteSets

CONSTANTS Writer, Streamer, Sink,
          None,
          BatchSize,    \* AUDIT_STREAM_BATCH_SIZE
          VerifySize,   \* VERIFY_BATCH_SIZE
          MaxAttempts,  \* OUTBOX_MAX_ATTEMPTS
          MaxSequence,  \* bound: sequences handed out
          MaxFaults     \* bound: crashes and errors of streamers, relays and handlers

ASSUME AuditAssumption ==
  /\ None \notin Sink
  /\ BatchSize \in Nat \ {0} /\ VerifySize \in Nat \ {0}
  /\ MaxAttempts \in Nat \ {0}
  /\ MaxSequence \in Nat /\ MaxFaults \in Nat

VARIABLES
  serial,     \* the last sequence handed out
  previous,   \* AuditLog.previousHash, by sequence
  log,        \* AuditLog: the committed sequences
  open,       \* writers in a transaction that took the advisory lock
  tail,       \* the tail of the chain as an open writer read it
  own,        \* entries an open writer created and has not committed
  walk,       \* AuditService.verify: last sequence seen, verdict so far
  sink,       \* AuditSink.active; "creating" between the tail and the row
  cursor,     \* AuditSink.cursor; while creating, the tail read
  step,       \* where each streamer is in stageNextBatch()
  read,       \* the sink, cursor and entries a streamer read
  staged,     \* outbox messages: the ranges staged for each sink
  done,       \* those whose handler returned
  attempts,   \* OutboxMessage.attempts: how often the handler threw
  handling,   \* the message being handled and the entries read for it
  start,      \* history: the cursor a sink was created with
  before,     \* history: the entries committed when its row was
  received,   \* history: the entries that reached a sink under each key
  faults      \* bound counter

chain == <<serial, previous, log, open, tail, own>>
sinks == <<sink, cursor, start, before>>
streamers == <<step, read>>
outbox == <<staged, done, attempts, handling, received>>
vars == <<chain, walk, sinks, streamers, outbox, faults>>

Sequence == 1..MaxSequence
Message == [sink : Sink, from : Sequence, to : Sequence]
Nothing == [sink |-> None, cursor |-> 0, entries |-> {}]
NoMessage == [message |-> None, entries |-> {}]

TypeOK ==
  /\ serial \in 0..MaxSequence
  /\ previous \in [Sequence -> 0..MaxSequence]
  /\ log \subseteq Sequence
  /\ open \subseteq Writer
  /\ tail \in [Writer -> 0..MaxSequence \cup {-1}]
  /\ own \in [Writer -> SUBSET Sequence]
  /\ walk \in [after : 0..MaxSequence, intact : BOOLEAN]
  /\ sink \in [Sink -> {"absent", "creating", "on", "off", "gone"}]
  /\ cursor \in [Sink -> 0..MaxSequence]
  /\ step \in [Streamer -> {"idle", "entries", "stage"}]
  /\ read \in [Streamer -> [sink : Sink \cup {None}, cursor : 0..MaxSequence,
                            entries : SUBSET Sequence]]
  /\ staged \subseteq Message /\ done \subseteq staged
  /\ attempts \in [Message -> 0..MaxAttempts]
  /\ handling \in [message : Message \cup {None}, entries : SUBSET Sequence]
  /\ start \in [Sink -> 0..MaxSequence]
  /\ before \in [Sink -> SUBSET Sequence]
  /\ received \subseteq [message : Message, entries : SUBSET Sequence]
  /\ faults \in 0..MaxFaults

Init ==
  /\ serial = 0 /\ log = {} /\ open = {}
  /\ previous = [e \in Sequence |-> 0]
  /\ tail = [w \in Writer |-> -1]
  /\ own = [w \in Writer |-> {}]
  /\ walk = [after |-> 0, intact |-> TRUE]
  /\ sink = [k \in Sink |-> "absent"]
  /\ cursor = [k \in Sink |-> 0]
  /\ step = [p \in Streamer |-> "idle"]
  /\ read = [p \in Streamer |-> Nothing]
  /\ staged = {} /\ done = {} /\ handling = NoMessage /\ received = {}
  /\ attempts = [b \in Message |-> 0]
  /\ start = [k \in Sink |-> 0]
  /\ before = [k \in Sink |-> {}]
  /\ faults = 0

Fault ==
  /\ faults < MaxFaults
  /\ faults' = faults + 1

-----------------------------------------------------------------------------
\* The highest sequence of S, 0 when it is empty (the genesis entry follows "").
IsLast(n, S) == IF S = {} THEN n = 0 ELSE n \in S /\ \A x \in S : x <= n

\* orderBy sequence asc, take n: the first entries of S.
IsPage(E, S, n) ==
  /\ E \subseteq S /\ Cardinality(E) <= n
  /\ \A x \in E, y \in S \ E : x < y
  /\ Cardinality(E) < n => E = S

-----------------------------------------------------------------------------
(* writeAuditLogInTransaction, once or more in a writer's transaction. *)

\* Mutant of Lock: no advisory lock is taken.
NoLock(w) ==
  /\ w \notin open
  /\ open' = open \cup {w}
  /\ UNCHANGED <<serial, previous, log, tail, own, walk, sinks, streamers, outbox, faults>>

\* pg_advisory_xact_lock: held until the transaction ends.
Lock(w) ==
  /\ open = {}
  /\ open' = {w}
  /\ UNCHANGED <<serial, previous, log, tail, own, walk, sinks, streamers, outbox, faults>>

ReadTail(w) ==
  /\ w \in open /\ tail[w] = -1
  /\ \E n \in 0..MaxSequence : IsLast(n, log \cup own[w]) /\ tail' = [tail EXCEPT ![w] = n]
  /\ UNCHANGED <<serial, previous, log, open, own, walk, sinks, streamers, outbox, faults>>

Create(w) ==
  /\ w \in open /\ tail[w] # -1 /\ serial < MaxSequence
  /\ serial' = serial + 1
  /\ previous' = [previous EXCEPT ![serial + 1] = tail[w]]
  /\ own' = [own EXCEPT ![w] = @ \cup {serial + 1}]
  /\ tail' = [tail EXCEPT ![w] = -1]
  /\ UNCHANGED <<log, open, walk, sinks, streamers, outbox, faults>>

Leave(w) ==
  /\ open' = open \ {w}
  /\ own' = [own EXCEPT ![w] = {}]
  /\ tail' = [tail EXCEPT ![w] = -1]

Commit(w) ==
  /\ w \in open /\ own[w] # {} /\ tail[w] = -1
  /\ log' = log \cup own[w]
  /\ Leave(w)
  /\ UNCHANGED <<serial, previous, walk, sinks, streamers, outbox, faults>>

\* The sequences it took stay gaps.
Rollback(w) ==
  /\ w \in open
  /\ previous' = [e \in Sequence |-> IF e \in own[w] THEN 0 ELSE previous[e]]
  /\ Leave(w)
  /\ UNCHANGED <<serial, log, walk, sinks, streamers, outbox, faults>>

-----------------------------------------------------------------------------
(* AuditService.verify, a page of the chain at a time. *)

\* Every entry names the one before it, the page's first the last of the page
\* before.
Links(E) ==
  \A e \in E : \E n \in {walk.after} \cup E :
    IsLast(n, {walk.after} \cup {x \in E : x < e}) /\ previous[e] = n

VerifyPage ==
  \E E \in SUBSET {e \in log : e > walk.after} :
    /\ IsPage(E, {e \in log : e > walk.after}, VerifySize)
    /\ IF E = {} THEN walk' = [walk EXCEPT !.after = 0]
       ELSE \E n \in E :
              /\ IsLast(n, E)
              /\ walk' = [after |-> n, intact |-> walk.intact /\ Links(E)]
    /\ UNCHANGED <<chain, sinks, streamers, outbox, faults>>

-----------------------------------------------------------------------------
(* AuditSinkService. *)

\* create: the tail is read, 0 with backfill, before the row is inserted.
CreateRead(k) ==
  /\ sink[k] = "absent"
  /\ sink' = [sink EXCEPT ![k] = "creating"]
  /\ \E n \in {0} \cup log :
       (n = 0 \/ IsLast(n, log)) /\ cursor' = [cursor EXCEPT ![k] = n]
  /\ UNCHANGED <<chain, walk, start, before, streamers, outbox, faults>>

CreateRow(k) ==
  /\ sink[k] = "creating"
  /\ \E active \in {"on", "off"} : sink' = [sink EXCEPT ![k] = active]
  /\ start' = [start EXCEPT ![k] = cursor[k]]
  /\ before' = [before EXCEPT ![k] = log]
  /\ UNCHANGED <<chain, walk, cursor, streamers, outbox, faults>>

SetActive(k) ==
  /\ sink[k] \in {"on", "off"}
  /\ sink' = [sink EXCEPT ![k] = IF @ = "on" THEN "off" ELSE "on"]
  /\ UNCHANGED <<chain, walk, cursor, start, before, streamers, outbox, faults>>

Remove(k) ==
  /\ sink[k] \in {"on", "off"}
  /\ sink' = [sink EXCEPT ![k] = "gone"]
  /\ UNCHANGED <<chain, walk, cursor, start, before, streamers, outbox, faults>>

-----------------------------------------------------------------------------
(* AuditStreamService.stageNextBatch, run by the scheduled task and by an   *)
(* administrator's flush at once.  A run of several batches is several of   *)
(* them in a row.                                                           *)

StreamRead(p, k) ==
  /\ step[p] = "idle" /\ sink[k] = "on"
  /\ step' = [step EXCEPT ![p] = "entries"]
  /\ read' = [read EXCEPT ![p] = [sink |-> k, cursor |-> cursor[k], entries |-> {}]]
  /\ UNCHANGED <<chain, walk, sinks, outbox, faults>>

StreamIdle(p) ==
  /\ step' = [step EXCEPT ![p] = "idle"]
  /\ read' = [read EXCEPT ![p] = Nothing]

After(p) == {e \in log : e > read[p].cursor}

\* Mutant of StreamEntries: the newest entry first.
StreamNewest(p) ==
  /\ step[p] = "entries"
  /\ \E E \in SUBSET After(p) :
       /\ Cardinality(E) <= 1 /\ (E = {} => After(p) = {})
       /\ \A x \in E, y \in After(p) \ E : y < x
       /\ IF E = {} THEN StreamIdle(p)
          ELSE /\ step' = [step EXCEPT ![p] = "stage"]
               /\ read' = [read EXCEPT ![p].entries = E]
  /\ UNCHANGED <<chain, walk, sinks, outbox, faults>>

StreamEntries(p) ==
  /\ step[p] = "entries"
  /\ \E E \in SUBSET After(p) :
       /\ IsPage(E, After(p), BatchSize)
       /\ IF E = {} THEN StreamIdle(p)
          ELSE /\ step' = [step EXCEPT ![p] = "stage"]
               /\ read' = [read EXCEPT ![p].entries = E]
  /\ UNCHANGED <<chain, walk, sinks, outbox, faults>>

\* Mutant of StreamStage: the update does not ask for the cursor it read.
StageUnconditionally(p) ==
  LET r == read[p] IN
  /\ step[p] = "stage"
  /\ \E first, last \in r.entries :
       /\ \A e \in r.entries : first <= e /\ e <= last
       /\ cursor' = [cursor EXCEPT ![r.sink] = last]
       /\ staged' = staged \cup {[sink |-> r.sink, from |-> first, to |-> last]}
  /\ StreamIdle(p)
  /\ UNCHANGED <<chain, walk, sink, start, before, done, attempts, handling, received, faults>>

\* Mutant of StreamStage: the cursor is moved one further.
StageBeyond(p) ==
  LET r == read[p] IN
  /\ step[p] = "stage"
  /\ \E last \in r.entries :
       /\ \A e \in r.entries : e <= last
       /\ cursor' = [cursor EXCEPT ![r.sink] = last + 1]
  /\ StreamIdle(p)
  /\ UNCHANGED <<chain, walk, sink, start, before, staged, done, attempts, handling, received, faults>>

\* The conditional update holds the sink's row until the commit, so it takes
\* effect together with the message it stages.
StreamStage(p) ==
  LET r == read[p] IN
  /\ step[p] = "stage"
  /\ IF sink[r.sink] \in {"on", "off"} /\ cursor[r.sink] = r.cursor
       THEN \E first, last \in r.entries :
              /\ \A e \in r.entries : first <= e /\ e <= last
              /\ cursor' = [cursor EXCEPT ![r.sink] = last]
              /\ staged' = staged \cup {[sink |-> r.sink, from |-> first, to |-> last]}
       ELSE UNCHANGED <<cursor, staged>>
  /\ StreamIdle(p)
  /\ UNCHANGED <<chain, walk, sink, start, before, done, attempts, handling, received, faults>>

\* Mutant of StreamFails: the cursor was moved by a transaction of its own.
StreamHalfFails(p) ==
  /\ Fault
  /\ step[p] = "stage"
  /\ \E last \in read[p].entries :
       /\ \A e \in read[p].entries : e <= last
       /\ cursor' = [cursor EXCEPT ![read[p].sink] = last]
  /\ StreamIdle(p)
  /\ UNCHANGED <<chain, walk, sink, start, before, outbox>>

\* The process dies or the transaction is rolled back.
StreamFails(p) ==
  /\ Fault
  /\ step[p] # "idle"
  /\ StreamIdle(p)
  /\ UNCHANGED <<chain, walk, sinks, outbox>>

-----------------------------------------------------------------------------
(* AuditSinkHandler.handle, which the outbox calls until it returns, and not *)
(* more than MaxAttempts times: then the message is dead.                    *)

InRange(b) == {e \in log : b.from <= e /\ e <= b.to}

\* recordFailure: dead at the last attempt.
Dead(b) == attempts[b] = MaxAttempts

HandOver(b) == handling = NoMessage /\ b \in staged \ done /\ ~Dead(b)

\* The sink was removed: there is nobody to deliver to.
HandleGone(b) ==
  /\ HandOver(b)
  /\ sink[b.sink] = "gone"
  /\ done' = done \cup {b}
  /\ UNCHANGED <<chain, walk, sinks, streamers, staged, attempts, handling, received, faults>>

HandleRead(b) ==
  /\ HandOver(b)
  /\ sink[b.sink] # "gone"
  /\ handling' = [message |-> b, entries |-> InRange(b)]
  /\ UNCHANGED <<chain, walk, sinks, streamers, staged, done, attempts, received, faults>>

\* The batch is accepted and the handler returns.
HandleSent ==
  /\ handling # NoMessage
  /\ received' = received \cup {handling}
  /\ done' = done \cup {handling.message}
  /\ handling' = NoMessage
  /\ UNCHANGED <<chain, walk, sinks, streamers, staged, attempts, faults>>

\* The handler's call ends without a result; the sink may have the batch.
CutShort ==
  /\ Fault
  /\ handling # NoMessage
  /\ \E isAccepted \in BOOLEAN :
       received' = IF isAccepted THEN received \cup {handling} ELSE received
  /\ handling' = NoMessage
  /\ UNCHANGED <<chain, walk, sinks, streamers, staged, done>>

\* The sink refuses it, or accepts it and the answer, the sink's row or the
\* receipt is lost: the handler throws, and the outbox counts an attempt.
HandleFails ==
  /\ CutShort
  /\ attempts' = [attempts EXCEPT ![handling.message] = @ + 1]

\* The relay dies: the message is handed over again, and nothing is counted.
RelayDies == CutShort /\ UNCHANGED attempts

\* OutboxService.requeue, by an operator.
Requeue(b) ==
  /\ b \in staged /\ Dead(b)
  /\ attempts' = [attempts EXCEPT ![b] = 0]
  /\ UNCHANGED <<chain, walk, sinks, streamers, staged, done, handling, received, faults>>

-----------------------------------------------------------------------------
Write(w) == Lock(w) \/ ReadTail(w) \/ Create(w) \/ Commit(w) \/ Rollback(w)
Administer(k) == CreateRead(k) \/ CreateRow(k) \/ SetActive(k) \/ Remove(k)
Stream(p) == StreamEntries(p) \/ StreamStage(p)
Settle == HandleSent \/ HandleFails
Handle == Settle \/ RelayDies \/ \E b \in staged : HandleGone(b) \/ HandleRead(b) \/ Requeue(b)

Next ==
  \/ \E w \in Writer : Write(w)
  \/ \E k \in Sink : Administer(k)
  \/ \E p \in Streamer : Stream(p) \/ StreamFails(p) \/ \E k \in Sink : StreamRead(p, k)
  \/ Handle
  \/ VerifyPage

Spec == Init /\ [][Next]_vars

\* The scheduled task comes back to every active sink and a streamer runs on
\* while its process lives.  The relay goes on with what is due, which needs that
\* no other handler hangs for ever (see Outbox), and a call of this
\* one ends: with the sink's answer, its 10-second timeout or an error, of which
\* any may come.  Nothing makes an operator requeue.
Fairness ==
  /\ \A p \in Streamer : WF_vars(Stream(p))
  /\ \A k \in Sink : SF_vars(\E p \in Streamer : StreamRead(p, k))
  /\ WF_vars(\E b \in staged : HandleGone(b) \/ HandleRead(b))
  /\ WF_vars(Settle)

FairSpec == Spec /\ Fairness

-----------------------------------------------------------------------------
\* The chain of a tenant whose entries nobody altered verifies as intact,
\* however writers, rollbacks and the verifier's pages overlap
\* (security.md:83, audit-log.ts:73-80).
IntactChainVerifies == walk.intact

\* An entry is staged exactly once per sink (audit-stream.service.ts:20), once
\* the cursor has passed it, and its batch is with the outbox until the sink has
\* it; and no entry committed after the sink was created is taken for one from
\* before it (security.md:84, "streams from now on").
StagedExactlyOnce ==
  \A k \in Sink : sink[k] \in {"on", "off"} => \A e \in log :
    /\ e \notin before[k] => e > start[k]
    /\ start[k] < e /\ e <= cursor[k] =>
         \E b \in staged : /\ b.sink = k /\ e \in InRange(b)
                          /\ b \in done => \E r \in received : r.message = b
                          /\ \A c \in staged : c.sink = k /\ e \in InRange(c) => c = b

\* Delivery is idempotent (security.md:84): whatever reached a sink under the
\* key of a range is the whole range, then as now: a retry sends no more and no
\* less, since no entry is ever committed into a range already staged.  And no
\* entry reaches a sink under two keys, so a sink that knows a key again has
\* every entry once.
BatchIsWhole ==
  \A r \in received :
    /\ r.entries = InRange(r.message)
    /\ \A q \in received :
         q.message.sink = r.message.sink /\ q.entries \cap r.entries # {} => q = r

\* Every committed entry that a sink should see reaches it, while it is active,
\* or is in a batch the outbox has given up (security.md:84, "dead-lettered").
\* The cursor is past that one, so nothing but an operator's requeue sends it.
EveryEntryStreamed ==
  \A k \in Sink, e \in Sequence :
    (e \in log /\ e > start[k] /\ sink[k] = "on")
      ~> \/ sink[k] # "on"
         \/ \E r \in received : r.message.sink = k /\ e \in r.entries
         \/ \E b \in staged : b.sink = k /\ e \in InRange(b) /\ Dead(b)

\* The trail and its sinks implement AuditFeed: what a sink has been handed is
\* what its batches cover, after the entries it was created behind.
Feed == INSTANCE AuditFeed
  WITH seen <- [k \in Sink |->
                  IF sink[k] \in {"absent", "creating"} THEN {}
                  ELSE {e \in log : e <= start[k]
                                     \/ \E b \in staged : b.sink = k /\ e \in InRange(b)}]
ImplementsAuditFeed == Feed!Spec
=============================================================================
