----------------------------- MODULE Idempotency -----------------------------
(***************************************************************************)
(* Requests carrying one Idempotency-Key of one tenant: the loop of        *)
(* IdempotencyInterceptor (idempotency.interceptor.ts), the row it keeps   *)
(* through IdempotencyKeyStore (idempotency-key.store.ts), and the lock    *)
(* "idempotency:<tenant>:<key>".                                           *)
(*                                                                         *)
(* A client's retry is one more request with the same print (route and     *)
(* body hash).  A request is split wherever it awaits.  A handler either   *)
(* throws without an effect or has its effect, once, and returns; its      *)
(* response is named after the request it ran for.                         *)
(***************************************************************************)
EXTENDS Integers, FiniteSets

CONSTANTS Request,
          PrintOf,    \* the route and body hash of each request
          None,
          Lossy,      \* may the lock expire under a request that runs?
          MaxFaults   \* bound: crashes and failing writes

\* What a client is answered when it gets no response: a 409 or an error.
Refusals == {"mismatch", "timeout", "error"}

\* A row of IdempotencyKey.
Record == [status : {"pending", "completed"}, print : {PrintOf[r] : r \in Request},
           response : Request \cup {None}, expired : BOOLEAN]

ASSUME IdempotencyAssumption ==
  /\ ({None} \cup Refusals) \cap Request = {}
  /\ None \notin Refusals \cup Record
  /\ IsFiniteSet(Request)
  /\ DOMAIN PrintOf = Request
  /\ Lossy \in BOOLEAN
  /\ MaxFaults \in Nat

VARIABLES
  owner,    \* the request whose token holds the lock
  pc,       \* where each request is
  late,     \* the requests whose ten seconds are over
  record,   \* the IdempotencyKey row, or None
  answer,   \* what each client got: None until it is answered
  effects,  \* history: the requests whose handler took effect while this
            \* record, or none, was live
  faults    \* bound counter

vars == <<owner, pc, late, record, answer, effects, faults>>

Inside == {"locked", "discard", "create", "handle", "complete", "undo"}
PCs == Inside \cup {"asking", "peek", "release", "done", "crashed"}
Answers == Refusals \cup Request

TypeOK ==
  /\ owner \in Request \cup {None}
  /\ pc \in [Request -> PCs]
  /\ late \subseteq Request
  /\ record \in Record \cup {None}
  /\ answer \in [Request -> Answers \cup {None}]
  /\ effects \subseteq Request
  /\ faults \in 0..MaxFaults

Init ==
  /\ owner = None
  /\ pc = [r \in Request |-> "asking"]
  /\ late = {}
  /\ record = None
  /\ answer = [r \in Request |-> None]
  /\ effects = {}
  /\ faults = 0

-----------------------------------------------------------------------------
Goto(r, from, to) ==
  /\ pc[r] = from
  /\ pc' = [pc EXCEPT ![r] = to]

Answer(r, what) == answer' = [answer EXCEPT ![r] = what]

Fault ==
  /\ faults < MaxFaults
  /\ faults' = faults + 1

\* liveRecord(): an expired row counts as none.
Live == record # None /\ ~record.expired

Mismatch(r) == Live /\ record.print # PrintOf[r]
Replayable(r) == Live /\ record.print = PrintOf[r] /\ record.status = "completed"

\* The first 'acquire' and every later one of the loop.
Acquire(r) ==
  /\ owner = None
  /\ Goto(r, "asking", "locked")
  /\ owner' = r
  /\ UNCHANGED <<late, record, answer, effects, faults>>

Busy(r) ==
  /\ owner # None
  /\ Goto(r, "asking", "peek")
  /\ UNCHANGED <<owner, late, record, answer, effects, faults>>

\* The deadline passes.
TimePasses(r) ==
  /\ pc[r] \in {"asking", "peek"} /\ r \notin late
  /\ late' = late \cup {r}
  /\ UNCHANGED <<owner, pc, record, answer, effects, faults>>

\* Mutant of Peek: only the end of the wait is missing from the loop.
PeekForever(r) ==
  /\ \/ Mismatch(r) /\ Goto(r, "peek", "done") /\ Answer(r, "mismatch")
     \/ Replayable(r) /\ Goto(r, "peek", "done") /\ Answer(r, record.response)
     \/ /\ ~Mismatch(r) /\ ~Replayable(r)
        /\ Goto(r, "peek", "asking") /\ UNCHANGED answer
  /\ UNCHANGED <<owner, late, record, effects, faults>>

\* Mutant of ReadLocked: a completed row is replayed before it is compared.
ReplayFirst(r) ==
  /\ \/ /\ Live /\ record.status = "completed"
        /\ Goto(r, "locked", "release") /\ Answer(r, record.response)
     \/ /\ Live /\ record.status = "pending" /\ Mismatch(r)
        /\ Goto(r, "locked", "release") /\ Answer(r, "mismatch")
     \/ /\ ~Mismatch(r) /\ ~Replayable(r)
        /\ Goto(r, "locked", IF Live THEN "handle" ELSE "discard")
        /\ UNCHANGED answer
  /\ UNCHANGED <<owner, late, record, effects, faults>>

\* The lock is another's: the row may answer already, or the wait is over, or
\* the loop sleeps and asks again.
Peek(r) ==
  /\ \/ Mismatch(r) /\ Goto(r, "peek", "done") /\ Answer(r, "mismatch")
     \/ Replayable(r) /\ Goto(r, "peek", "done") /\ Answer(r, record.response)
     \/ /\ ~Mismatch(r) /\ ~Replayable(r)
        /\ IF r \in late
             THEN Goto(r, "peek", "done") /\ Answer(r, "timeout")
             ELSE Goto(r, "peek", "asking") /\ UNCHANGED answer
  /\ UNCHANGED <<owner, late, record, effects, faults>>

\* runUnderLock(): the row as the new holder finds it.  A pending row of the
\* same request is taken over.
ReadLocked(r) ==
  /\ \/ Mismatch(r) /\ Goto(r, "locked", "release") /\ Answer(r, "mismatch")
     \/ Replayable(r) /\ Goto(r, "locked", "release") /\ Answer(r, record.response)
     \/ /\ ~Mismatch(r) /\ ~Replayable(r)
        /\ Goto(r, "locked", IF Live THEN "handle" ELSE "discard")
        /\ UNCHANGED answer
  /\ UNCHANGED <<owner, late, record, effects, faults>>

Discard(r) ==
  /\ Goto(r, "discard", "create")
  /\ record' = None
  /\ UNCHANGED <<owner, late, answer, effects, faults>>

\* createPending(): a unique violation is swallowed, and the row that caused it
\* is left as it is.
Create(r) ==
  /\ Goto(r, "create", "handle")
  /\ record' = IF record = None
                 THEN [status |-> "pending", print |-> PrintOf[r],
                       response |-> None, expired |-> FALSE]
                 ELSE record
  /\ UNCHANGED <<owner, late, answer, effects, faults>>

HandlerReturns(r) ==
  /\ Goto(r, "handle", "complete")
  /\ effects' = effects \cup {r}
  /\ UNCHANGED <<owner, late, record, answer, faults>>

HandlerThrows(r) ==
  /\ Goto(r, "handle", "undo")
  /\ UNCHANGED <<owner, late, record, answer, effects, faults>>

\* Mutant of Complete: the response is stored without its request.
CompleteTyped(r) ==
  /\ record # None
  /\ Goto(r, "complete", "release")
  /\ record' = [record EXCEPT !.status = "done", !.response = r]
  /\ Answer(r, r)
  /\ UNCHANGED <<owner, late, effects, faults>>

\* complete(): an update by tenant and key, of whatever row is there.
Complete(r) ==
  /\ record # None
  /\ Goto(r, "complete", "release")
  /\ record' = [record EXCEPT !.status = "completed", !.response = r]
  /\ Answer(r, r)
  /\ UNCHANGED <<owner, late, effects, faults>>

\* Mutant of CompleteFails: the response is given though it was not stored.
CompleteFailsQuietly(r) ==
  /\ Goto(r, "complete", "release")
  /\ IF record = None THEN UNCHANGED faults ELSE Fault
  /\ Answer(r, r)
  /\ UNCHANGED <<owner, late, record, effects>>

\* The update rejects, for want of a row or of a database.
CompleteFails(r) ==
  /\ Goto(r, "complete", "undo")
  /\ IF record = None THEN UNCHANGED faults ELSE Fault
  /\ UNCHANGED <<owner, late, record, answer, effects>>

\* Mutant of Undo: the error is rethrown and the pending row stays.
UndoNothing(r) ==
  /\ Goto(r, "undo", "release")
  /\ Answer(r, "error")
  /\ UNCHANGED <<owner, late, record, effects, faults>>

\* The catch: delete the row, whoever's it is, and rethrow.
Undo(r) ==
  /\ Goto(r, "undo", "release")
  /\ record' = None
  /\ Answer(r, "error")
  /\ UNCHANGED <<owner, late, effects, faults>>

\* A command of the loop, or a query other than complete(), rejects; in the catch,
\* its row stays.
QueryFails(r) ==
  /\ pc[r] \in {"asking", "peek", "locked", "discard", "create", "undo"}
  /\ Goto(r, pc[r], IF pc[r] \in Inside THEN "release" ELSE "done")
  /\ Fault
  /\ Answer(r, "error")
  /\ UNCHANGED <<owner, late, record, effects>>

\* Mutant of Release: the key is deleted, whoever's token it holds.
ReleaseAnyKey(r) ==
  /\ Goto(r, "release", "done")
  /\ owner' = None
  /\ UNCHANGED <<late, record, answer, effects, faults>>

\* The finally: compare-and-delete.
Release(r) ==
  /\ Goto(r, "release", "done")
  /\ owner' = IF owner = r THEN None ELSE owner
  /\ UNCHANGED <<late, record, answer, effects, faults>>

\* The process dies, or release() never reaches Redis.
Crash(r) ==
  /\ pc[r] \in Inside \cup {"release"}
  /\ Goto(r, pc[r], "crashed")
  /\ Fault
  /\ UNCHANGED <<owner, late, record, answer, effects>>

-----------------------------------------------------------------------------
\* The lock's TTL.
LockExpires ==
  /\ owner # None
  /\ Lossy \/ pc[owner] \notin Inside
  /\ owner' = None
  /\ UNCHANGED <<pc, late, record, answer, effects, faults>>

\* 24 hours pass; no request takes that long.
RecordExpires ==
  /\ Live
  /\ \A r \in Request : pc[r] \notin Inside
  /\ record' = [record EXCEPT !.expired = TRUE]
  /\ effects' = {}
  /\ UNCHANGED <<owner, pc, late, answer, faults>>

\* The prune sweep deletes the expired row.
Sweep ==
  /\ record # None /\ record.expired
  /\ record' = None
  /\ UNCHANGED <<owner, pc, late, answer, effects, faults>>

RequestStep(r) ==
  \/ Acquire(r)        \/ Busy(r)          \/ Peek(r)      \/ ReadLocked(r)
  \/ Discard(r)        \/ Create(r)        \/ Complete(r)  \/ CompleteFails(r)
  \/ HandlerReturns(r) \/ HandlerThrows(r) \/ Undo(r)      \/ Release(r)

RequestFault(r) == QueryFails(r) \/ Crash(r)

Next ==
  \/ \E r \in Request : RequestStep(r) \/ RequestFault(r) \/ TimePasses(r)
  \/ LockExpires \/ RecordExpires \/ Sweep

Spec == Init /\ [][Next]_vars

\* Queries settle, clocks and TTLs run.  A handler may hang: nothing in the
\* interceptor bounds it, and its heartbeat keeps the lock meanwhile.
Fairness ==
  /\ \A r \in Request : WF_vars(pc[r] # "handle" /\ RequestStep(r)) /\ WF_vars(TimePasses(r))
  /\ WF_vars(LockExpires)

FairSpec == Spec /\ Fairness

-----------------------------------------------------------------------------
\* One key has one effect while its record lives, plus at most one for each
\* crash or failed write: nothing else makes a retry run the handler again
\* (guide idempotency.md:24-34).  It needs the lock to outlast the handler.
EffectsBounded == Cardinality(effects) <= 1 + faults

\* A client is never answered with the response of a different request (guide
\* idempotency.md:26): the response it got is of a request with its own print,
\* and is the one that request was answered with.
ReplayFaithful ==
  \A r \in Request : answer[r] \in Request =>
    PrintOf[answer[r]] = PrintOf[r] /\ answer[answer[r]] = answer[r]

\* Once the response is stored, the handler does not run again for as long as
\* the record lives (guide idempotency.md:25).
NoRunAfterAnswer ==
  [][Live /\ record.status = "completed" => effects' \subseteq effects]_vars

\* guide idempotency.md:28, "Handler failed: nothing is stored": whenever no
\* request is inside, the live row is a completed one, of a request that was
\* answered with it.  It needs every query to succeed.
NothingLeftBehind ==
  faults = 0 /\ Live /\ (\A r \in Request : pc[r] \notin Inside) =>
    record.status = "completed" /\ answer[record.response] = record.response

\* Nobody waits for ever, though another request's handler hang: a request is
\* answered, in the end with the 409 (guide idempotency.md:27), unless it runs
\* the handler itself or its process dies.
EveryoneAnswered ==
  \A r \in Request :
    pc[r] = "asking" ~> (answer[r] # None \/ pc[r] \in {"handle", "crashed"})

\* The requests use the lock as Lease promises it, and no other way.
TheLease == INSTANCE Lease
  WITH Client <- Request, believers <- {r \in Request : pc[r] \in Inside}
UsesLease == TheLease!Spec

\* The row, the lock and the loop keep the promise of the key: what is kept is
\* the live row's response.
Promise == INSTANCE OncePerKey
  WITH ran <- effects, lapses <- faults,
       kept <- IF Live /\ record.status = "completed" THEN record.response ELSE None
ImplementsOncePerKey == Promise!Spec
=============================================================================
