-------------------------- MODULE AuditTrailProofs --------------------------
(***************************************************************************)
(* A tenant's audit trail, for any number of writers, streamers, sinks and *)
(* entries and any batch size: the chain verifies, every entry is staged   *)
(* once per sink, what was staged never changes, and the trail with its    *)
(* sinks implements AuditFeed.                                             *)
(***************************************************************************)
EXTENDS AuditTrail, TLAPS

\* One writer at a time has the lock, and what it adds is beyond what is there.
OrderInv ==
  /\ \A v, w \in open : v = w
  /\ \A w \in Writer \ open : own[w] = {} /\ tail[w] = -1
  /\ \A e \in log : e <= serial
  /\ \A w \in Writer : \A e \in own[w] : e <= serial /\ \A x \in log : x < e

\* The entry e of the trail L names the one before it.
Follows(e, L) == IsLast(previous[e], {x \in L : x < e})

ChainInv ==
  /\ \A w \in open : tail[w] # -1 => IsLast(tail[w], log \cup own[w])
  /\ \A e \in log : Follows(e, log)
  /\ \A w \in open : \A e \in own[w] : Follows(e, log \cup own[w])

WalkInv == walk.intact /\ walk.after \in {0} \cup log

HasRow(k) == sink[k] \in {"on", "off", "gone"}

\* A cursor is at an entry; nothing committed after a sink's row is behind it.
CursorInv ==
  \A k \in Sink :
    /\ cursor[k] \in {0} \cup log
    /\ HasRow(k) => /\ start[k] \in {0} \cup log /\ start[k] <= cursor[k]
                    /\ \A e \in log \ before[k] : e > start[k]

\* What a streamer read is still what follows the cursor it read.
ReadInv ==
  \A p \in Streamer :
    /\ step[p] # "idle" => read[p].sink \in Sink /\ HasRow(read[p].sink)
    /\ step[p] = "stage" =>
         /\ read[p].entries \subseteq After(p)
         /\ \A x \in read[p].entries, y \in After(p) \ read[p].entries : x < y

\* A sink's batches lie between its start and its cursor, apart from each other.
Within(b) == /\ HasRow(b.sink) /\ b.from \in log /\ b.to \in log
             /\ start[b.sink] < b.from /\ b.from <= b.to /\ b.to <= cursor[b.sink]

StagedInv ==
  /\ \A b \in staged : Within(b)
  /\ \A b, c \in staged : b.sink = c.sink /\ b # c => b.to < c.from \/ c.to < b.from

Covers(b, k, e) == b.sink = k /\ b.from <= e /\ e <= b.to

CoverInv ==
  \A k \in Sink : HasRow(k) =>
    \A e \in log : start[k] < e /\ e <= cursor[k] => \E b \in staged : Covers(b, k, e)

\* What was read for a batch that has attempts left, and what reached the sink
\* under its key.
HandledInv ==
  /\ handling # NoMessage => handling.message \in staged /\ ~Dead(handling.message)
                             /\ handling.entries = InRange(handling.message)
  /\ \A r \in received : r.message \in staged /\ r.entries = InRange(r.message)

\* A batch the outbox is done with reached its sink, unless the sink is gone.
DoneInv ==
  \A b \in done : sink[b.sink] = "gone" \/ \E r \in received : r.message = b

IInv == /\ TypeOK /\ OrderInv /\ ChainInv /\ WalkInv /\ CursorInv /\ ReadInv
        /\ StagedInv /\ CoverInv /\ HandledInv /\ DoneInv

-----------------------------------------------------------------------------
LEMMA InitInv == Init => IInv
<1> SUFFICES ASSUME Init PROVE IInv
  OBVIOUS
<1> USE AuditAssumption DEF Init
<1>1. TypeOK
  <2>1. 0 \in 0..MaxSequence /\ 0 \in 0..MaxFaults /\ -1 \in 0..MaxSequence \cup {-1}
    OBVIOUS
  <2>2. /\ serial \in 0..MaxSequence /\ faults \in 0..MaxFaults
        /\ previous \in [Sequence -> 0..MaxSequence]
        /\ tail \in [Writer -> 0..MaxSequence \cup {-1}]
        /\ cursor \in [Sink -> 0..MaxSequence] /\ start \in [Sink -> 0..MaxSequence]
        /\ attempts \in [Message -> 0..MaxAttempts]
    BY <2>1
  <2>3. walk \in [after : 0..MaxSequence, intact : BOOLEAN]
    BY <2>1
  <2>4. read \in [Streamer -> [sink : Sink \cup {None}, cursor : 0..MaxSequence,
                               entries : SUBSET Sequence]]
    BY <2>1 DEF Nothing
  <2>5. handling \in [message : Message \cup {None}, entries : SUBSET Sequence]
    BY DEF NoMessage
  <2> QED
    BY <2>2, <2>3, <2>4, <2>5 DEF TypeOK
<1>2. OrderInv /\ ChainInv /\ WalkInv
  BY DEF OrderInv, ChainInv, WalkInv
<1>3. CursorInv /\ ReadInv
  BY DEF CursorInv, HasRow, ReadInv
<1>4. StagedInv /\ CoverInv /\ HandledInv /\ DoneInv
  BY DEF StagedInv, CoverInv, HasRow, HandledInv, DoneInv
<1> QED
  BY <1>1, <1>2, <1>3, <1>4 DEF IInv

-----------------------------------------------------------------------------
\* The outbox and its handler touch neither the trail nor the sinks, and stage
\* nothing.
LEMMA HandleEffect == ASSUME Handle PROVE UNCHANGED <<chain, walk, sinks, streamers, staged>>
BY DEF Handle, Settle, HandleGone, HandleRead, HandleSent, HandleFails, RelayDies, CutShort,
  Requeue

-----------------------------------------------------------------------------
(* The type invariant. *)

LEMMA WriteType ==
  ASSUME TypeOK, NEW w \in Writer, Write(w)
  PROVE  TypeOK'
<1> USE AuditAssumption DEF TypeOK, sinks, streamers, outbox, Sequence
<1>1. CASE Lock(w)
  BY <1>1 DEF Lock
<1>2. CASE ReadTail(w)
  BY <1>2 DEF ReadTail
<1>3. CASE Create(w)
  <2>1. serial + 1 \in 1..MaxSequence /\ tail[w] \in 0..MaxSequence
    BY <1>3 DEF Create
  <2>2. /\ previous' \in [1..MaxSequence -> 0..MaxSequence]
        /\ own' \in [Writer -> SUBSET (1..MaxSequence)]
        /\ tail' \in [Writer -> 0..MaxSequence \cup {-1}]
    BY <1>3, <2>1 DEF Create
  <2>3. serial' \in 0..MaxSequence
    BY <1>3, <2>1 DEF Create
  <2>4. UNCHANGED <<log, open, walk, sinks, streamers, outbox, faults>>
    BY <1>3 DEF Create
  <2> QED
    BY <2>2, <2>3, <2>4
<1>4. CASE Commit(w)
  BY <1>4 DEF Commit, Leave
<1>5. CASE Rollback(w)
  <2>1. previous' \in [1..MaxSequence -> 0..MaxSequence]
    BY <1>5 DEF Rollback
  <2> QED
    BY <1>5, <2>1 DEF Rollback, Leave
<1> QED
  BY <1>1, <1>2, <1>3, <1>4, <1>5 DEF Write

LEMMA AdministerType ==
  ASSUME TypeOK, NEW k \in Sink, Administer(k)
  PROVE  TypeOK'
<1> USE AuditAssumption DEF TypeOK, chain, streamers, outbox, Sequence
<1>1. CASE CreateRead(k)
  BY <1>1 DEF CreateRead
<1>2. CASE CreateRow(k)
  BY <1>2 DEF CreateRow
<1>3. CASE SetActive(k) \/ Remove(k)
  <2>1. PICK v \in {"on", "off", "gone"} : sink' = [sink EXCEPT ![k] = v]
    BY <1>3 DEF SetActive, Remove
  <2>2. UNCHANGED <<chain, walk, cursor, start, before, streamers, outbox, faults>>
    BY <1>3 DEF SetActive, Remove
  <2> QED
    BY <2>1, <2>2
<1> QED
  BY <1>1, <1>2, <1>3 DEF Administer

LEMMA StreamType ==
  ASSUME TypeOK, ReadInv, NEW p \in Streamer,
         Stream(p) \/ StreamFails(p) \/ \E k \in Sink : StreamRead(p, k)
  PROVE  TypeOK'
<1> USE DEF chain, sinks, outbox
<1>0. /\ read \in [Streamer -> [sink : Sink \cup {None}, cursor : 0..MaxSequence,
                               entries : SUBSET Sequence]]
      /\ step \in [Streamer -> {"idle", "entries", "stage"}]
  BY DEF TypeOK
<1>1. Nothing \in [sink : Sink \cup {None}, cursor : 0..MaxSequence, entries : SUBSET Sequence]
  BY AuditAssumption DEF Nothing
<1>2. ASSUME NEW k \in Sink, StreamRead(p, k)
      PROVE  TypeOK'
  BY <1>2 DEF StreamRead, TypeOK
<1>3. CASE StreamEntries(p)
  <2>1. PICK E \in SUBSET After(p) :
          IF E = {} THEN StreamIdle(p)
          ELSE /\ step' = [step EXCEPT ![p] = "stage"]
               /\ read' = [read EXCEPT ![p].entries = E]
    BY <1>3 DEF StreamEntries
  <2>2. E \in SUBSET Sequence
    BY DEF After, TypeOK
  <2>3. [read[p] EXCEPT !.entries = E]
          \in [sink : Sink \cup {None}, cursor : 0..MaxSequence, entries : SUBSET Sequence]
    BY <1>0, <2>2
  <2>4. /\ read' \in [Streamer -> [sink : Sink \cup {None}, cursor : 0..MaxSequence,
                                   entries : SUBSET Sequence]]
        /\ step' \in [Streamer -> {"idle", "entries", "stage"}]
    BY <1>0, <1>1, <2>1, <2>3 DEF StreamIdle
  <2> QED
    BY <1>3, <2>4 DEF StreamEntries, TypeOK
<1>4. CASE StreamStage(p)
  <2>1. read[p].sink \in Sink
    BY <1>4 DEF StreamStage, ReadInv
  <2>2. cursor' \in [Sink -> 0..MaxSequence] /\ staged' \subseteq Message /\ done \subseteq staged'
    <3>1. CASE UNCHANGED <<cursor, staged>>
      BY <3>1 DEF TypeOK
    <3>2. ASSUME NEW first \in read[p].entries, NEW last \in read[p].entries,
                 cursor' = [cursor EXCEPT ![read[p].sink] = last],
                 staged' = staged \cup {[sink |-> read[p].sink, from |-> first, to |-> last]}
          PROVE  /\ cursor' \in [Sink -> 0..MaxSequence] /\ staged' \subseteq Message
                 /\ done \subseteq staged'
      <4>1. first \in Sequence /\ last \in Sequence
        BY <1>0
      <4> QED
        BY <2>1, <3>2, <4>1 DEF Message, Sequence, TypeOK
    <3> QED
      BY <1>4, <3>1, <3>2 DEF StreamStage
  <2> QED
    BY <1>1, <1>4, <2>2 DEF StreamStage, StreamIdle, TypeOK
<1>5. CASE StreamFails(p)
  BY <1>1, <1>5, AuditAssumption DEF StreamFails, StreamIdle, Fault, TypeOK
<1> QED
  BY <1>2, <1>3, <1>4, <1>5 DEF Stream

LEMMA HandleType ==
  ASSUME TypeOK, HandledInv, Handle
  PROVE  TypeOK'
<1> USE AuditAssumption DEF TypeOK, chain, sinks, streamers
<1>1. NoMessage \in [message : Message \cup {None}, entries : SUBSET Sequence]
  BY DEF NoMessage
<1>2. ASSUME NEW b \in staged, HandleGone(b) \/ HandleRead(b)
      PROVE  TypeOK'
  BY <1>2 DEF HandleGone, HandleRead, HandOver, InRange
<1>3. handling # NoMessage => handling \in [message : Message, entries : SUBSET Sequence]
  BY DEF HandledInv
<1>4. CASE HandleSent
  BY <1>1, <1>3, <1>4 DEF HandleSent, HandledInv
<1>5. CASE HandleFails \/ RelayDies
  <2>1. received' \subseteq [message : Message, entries : SUBSET Sequence]
    BY <1>3, <1>5 DEF HandleFails, RelayDies, CutShort
  <2>2. attempts' \in [Message -> 0..MaxAttempts] => TypeOK'
    BY <1>1, <1>5, <2>1 DEF HandleFails, RelayDies, CutShort, Fault
  <2>3. ASSUME HandleFails
        PROVE  attempts' \in [Message -> 0..MaxAttempts]
    <3> DEFINE b == handling.message
    <3>1. handling # NoMessage
      BY <2>3 DEF HandleFails, CutShort
    <3>2. b \in Message
      BY <1>3, <3>1
    <3>3. /\ attempts \in [Message -> 0..MaxAttempts]
          /\ attempts[b] \in 0..MaxAttempts /\ attempts[b] # MaxAttempts
      BY <3>1, <3>2 DEF HandledInv, Dead
    <3> HIDE DEF b, TypeOK
    <3>4. attempts[b] + 1 \in 0..MaxAttempts
      BY <3>3
    <3> QED
      BY <2>3, <3>3, <3>4 DEF HandleFails, b
  <2>4. ASSUME RelayDies
        PROVE  attempts' \in [Message -> 0..MaxAttempts]
    BY <2>4 DEF RelayDies
  <2> QED
    BY <1>5, <2>2, <2>3, <2>4
<1>6. ASSUME NEW b \in staged, Requeue(b)
      PROVE  TypeOK'
  BY <1>6 DEF Requeue
<1> QED
  BY <1>2, <1>4, <1>5, <1>6 DEF Handle, Settle

LEMMA StepType == ASSUME IInv, Next PROVE TypeOK'
<1>1. CASE VerifyPage
  <2>1. walk' \in [after : 0..MaxSequence, intact : BOOLEAN]
    <3>1. ASSUME NEW E \in SUBSET {e \in log : e > walk.after}, NEW n \in E,
                 walk' = [after |-> n, intact |-> walk.intact /\ Links(E)]
          PROVE  walk' \in [after : 0..MaxSequence, intact : BOOLEAN]
      <4>1. n \in 0..MaxSequence
        BY AuditAssumption DEF IInv, TypeOK, Sequence
      <4>2. (walk.intact /\ Links(E)) \in BOOLEAN
        OBVIOUS
      <4> QED
        BY <3>1, <4>1, <4>2
    <3>2. CASE walk' = [walk EXCEPT !.after = 0]
      BY <3>2, AuditAssumption DEF IInv, TypeOK
    <3> QED
      BY <1>1, <3>1, <3>2 DEF VerifyPage
  <2> QED
    BY <1>1, <2>1 DEF IInv, TypeOK, VerifyPage, chain, sinks, streamers, outbox
<1> QED
  BY <1>1, WriteType, AdministerType, StreamType, HandleType DEF Next, IInv

-----------------------------------------------------------------------------
(* The chain. *)

\* Only writers touch the chain.
LEMMA ChainStep == ASSUME Next PROVE UNCHANGED chain \/ \E w \in Writer : Write(w)
BY HandleEffect DEF Next, Administer, CreateRead, CreateRow, SetActive, Remove, Stream,
  StreamRead, StreamEntries, StreamStage, StreamFails, VerifyPage

\* The trail grows at its end.
LEMMA LogGrows ==
  ASSUME IInv, Next
  PROVE  log \subseteq log' /\ \A x \in log, y \in log' \ log : x < y
<1>1. ASSUME NEW w \in Writer, Write(w)
      PROVE  log' = log \/ log' = log \cup own[w]
  BY <1>1 DEF Write, Lock, ReadTail, Create, Commit, Rollback
<1>2. CASE UNCHANGED chain
  BY <1>2 DEF chain
<1> QED
  BY <1>1, <1>2, ChainStep DEF IInv, OrderInv

\* There is at most one writer, so w leaves nobody behind.
LEMMA LeaveEffect ==
  ASSUME TypeOK, OrderInv, NEW w \in open, Leave(w)
  PROVE  open' = {} /\ \A v \in Writer : own'[v] = {} /\ tail'[v] = -1
BY DEF Leave, OrderInv, TypeOK

LEMMA StepOrder == ASSUME IInv, Next PROVE OrderInv'
<1> USE DEF IInv
<1>1. ASSUME NEW w \in Writer, Lock(w)
      PROVE  OrderInv'
  BY <1>1 DEF Lock, OrderInv
<1>2. ASSUME NEW w \in Writer, ReadTail(w)
      PROVE  OrderInv'
  BY <1>2 DEF ReadTail, OrderInv, TypeOK
<1>3. ASSUME NEW w \in Writer, Create(w)
      PROVE  OrderInv'
  <2>1. serial \in Nat /\ serial' = serial + 1 /\ UNCHANGED <<log, open>> /\ w \in open
    BY <1>3, AuditAssumption DEF Create, TypeOK
  <2>2. /\ own'[w] = own[w] \cup {serial + 1}
        /\ \A v \in Writer \ {w} : own'[v] = own[v] /\ tail'[v] = tail[v]
    BY <1>3 DEF Create, TypeOK
  <2>3. \A e \in log : e \in Nat /\ e <= serial
    BY DEF OrderInv, TypeOK, Sequence
  <2>4. \A v \in Writer : \A e \in own[v] : e \in Nat
    BY DEF TypeOK, Sequence
  <2>5. \A v \in Writer : \A e \in own'[v] : e <= serial' /\ \A x \in log' : x < e
    <3> SUFFICES ASSUME NEW v \in Writer, NEW e \in own'[v], NEW x \in log
                 PROVE  e <= serial + 1 /\ x < e
      BY <2>1, <2>2, <2>4 DEF OrderInv
    <3>1. e \in own[v] \/ e = serial + 1
      BY <2>2
    <3> QED
      BY <2>1, <2>3, <2>4, <3>1 DEF OrderInv
  <2> QED
    BY <2>1, <2>2, <2>3, <2>5 DEF OrderInv
<1>4. ASSUME NEW w \in Writer, Commit(w) \/ Rollback(w)
      PROVE  OrderInv'
  <2>1. open' = {} /\ \A v \in Writer : own'[v] = {} /\ tail'[v] = -1
    BY <1>4, LeaveEffect DEF Commit, Rollback
  <2>2. serial' = serial /\ log' \in {log, log \cup own[w]}
    BY <1>4 DEF Commit, Rollback
  <2> QED
    BY <2>1, <2>2 DEF OrderInv
<1>5. CASE UNCHANGED chain
  BY <1>5 DEF chain, OrderInv
<1> QED
  BY <1>1, <1>2, <1>3, <1>4, <1>5, ChainStep DEF Write

LEMMA StepChain == ASSUME IInv, Next PROVE ChainInv'
<1> USE DEF IInv
<1>0. /\ \A e \in log : e \in Nat /\ e > 0
      /\ \A v \in Writer : \A e \in own[v] : e \in Nat
      /\ serial \in Nat
  BY AuditAssumption DEF TypeOK, Sequence
<1>1. ASSUME NEW w \in Writer, Lock(w) \/ ReadTail(w)
      PROVE  ChainInv'
  <2>1. UNCHANGED <<previous, log, own>> /\ open' \in {open, {w}} /\ open \subseteq open'
    BY <1>1 DEF Lock, ReadTail
  <2>2. \A v \in open' : tail'[v] # -1 => IsLast(tail'[v], log \cup own[v])
    BY <1>1 DEF Lock, ReadTail, ChainInv, OrderInv, TypeOK
  <2>3. \A v \in open' \ open : own[v] = {}
    BY <1>1, <2>1 DEF Lock, ReadTail, OrderInv
  <2> QED
    BY <2>1, <2>2, <2>3 DEF ChainInv, Follows
<1>2. ASSUME NEW w \in Writer, Create(w)
      PROVE  ChainInv'
  <2> DEFINE new == serial + 1
  <2>1. /\ open' = {w} /\ open = {w} /\ log' = log
        /\ own'[w] = own[w] \cup {new} /\ tail'[w] = -1
        /\ new \in Sequence
    BY <1>2, <1>0, AuditAssumption DEF Create, OrderInv, TypeOK, Sequence
  <2>2. previous'[new] = tail[w] /\ \A e \in Sequence \ {new} : previous'[e] = previous[e]
    BY <1>2, <2>1 DEF Create, TypeOK
  <2>3. \A e \in log \cup own[w] : e < new /\ e \in Nat /\ e \in Sequence
    BY <1>0 DEF OrderInv, TypeOK
  <2>4. {x \in log' \cup own'[w] : x < new} = log \cup own[w]
    BY <1>0, <2>1, <2>3
  <2>5. \A e \in log \cup own[w] :
          {x \in log' \cup own'[w] : x < e} = {x \in log \cup own[w] : x < e}
    BY <1>0, <2>1, <2>3
  <2>6. IsLast(previous'[new], {x \in log' \cup own'[w] : x < new})
    BY <1>2, <2>1, <2>2, <2>4 DEF ChainInv, Create
  <2>7. ASSUME NEW e \in own[w]
        PROVE  IsLast(previous'[e], {x \in log' \cup own'[w] : x < e})
    BY <2>1, <2>2, <2>3, <2>5 DEF ChainInv, Follows
  <2>8. ASSUME NEW e \in log
        PROVE  IsLast(previous'[e], {x \in log : x < e})
    <3>1. previous'[e] = previous[e]
      BY <2>2, <2>3
    <3> QED
      BY <3>1 DEF ChainInv, Follows
  <2> QED
    BY <2>1, <2>6, <2>7, <2>8 DEF ChainInv, Follows
<1>3. ASSUME NEW w \in Writer, Commit(w)
      PROVE  ChainInv'
  <2>1. open' = {} /\ log' = log \cup own[w] /\ previous' = previous /\ w \in open
    BY <1>3, LeaveEffect DEF Commit
  <2>2. \A e \in log : {x \in log' : x < e} = {x \in log : x < e}
    BY <1>0, <2>1 DEF OrderInv
  <2>3. ASSUME NEW e \in log'
        PROVE  IsLast(previous'[e], {x \in log' : x < e})
    BY <2>1, <2>2 DEF ChainInv, Follows
  <2> QED
    BY <2>1, <2>3 DEF ChainInv, Follows
<1>4. ASSUME NEW w \in Writer, Rollback(w)
      PROVE  ChainInv'
  <2>1. open' = {} /\ log' = log
    BY <1>4, LeaveEffect DEF Rollback
  <2>2. \A e \in log : previous'[e] = previous[e]
    BY <1>0, <1>4 DEF Rollback, OrderInv, TypeOK
  <2>3. ASSUME NEW e \in log
        PROVE  IsLast(previous'[e], {x \in log : x < e})
    BY <2>2 DEF ChainInv, Follows
  <2> QED
    BY <2>1, <2>3 DEF ChainInv, Follows
<1>5. CASE UNCHANGED chain
  BY <1>5 DEF chain, ChainInv, Follows
<1> QED
  BY <1>1, <1>2, <1>3, <1>4, <1>5, ChainStep DEF Write

\* A page of an intact chain links up, with itself and with the page before.
LEMMA PageLinks ==
  ASSUME IInv, NEW E \in SUBSET {e \in log : e > walk.after},
         \A x \in E, y \in {e \in log : e > walk.after} \ E : x < y
  PROVE  Links(E)
<1> SUFFICES ASSUME NEW e \in E
             PROVE  /\ previous[e] \in {walk.after} \cup E
                    /\ IsLast(previous[e], {walk.after} \cup {x \in E : x < e})
  BY DEF Links
<1>1. /\ \A x \in log : x \in Nat /\ x > 0
      /\ walk.after \in Nat /\ (walk.after = 0 \/ walk.after \in log)
  BY AuditAssumption DEF IInv, TypeOK, WalkInv, Sequence
<1>2. \A x \in log : x < e /\ x > walk.after => x \in E
  BY <1>1
<1>3. IsLast(previous[e], {x \in log : x < e})
  BY DEF IInv, ChainInv, Follows
<1>4. CASE \E x \in E : x < e
  <2>1. PICK x \in E : x < e
    BY <1>4
  <2>2. /\ previous[e] \in log /\ previous[e] < e /\ previous[e] >= x
        /\ \A y \in log : y < e => y <= previous[e]
    BY <1>3, <2>1 DEF IsLast
  <2>3. previous[e] \in E
    BY <1>1, <1>2, <2>1, <2>2
  <2> QED
    BY <1>1, <2>2, <2>3 DEF IsLast
<1>5. CASE \A x \in E : ~(x < e)
  <2>1. {walk.after} \cup {x \in E : x < e} = {walk.after}
    BY <1>5
  <2>2. previous[e] = walk.after
    <3>1. CASE walk.after = 0
      <4>1. {x \in log : x < e} = {}
        BY <1>1, <1>2, <1>5, <3>1
      <4> QED
        BY <1>3, <3>1, <4>1 DEF IsLast
    <3>2. CASE walk.after \in log
      <4>1. /\ walk.after \in {x \in log : x < e}
            /\ \A x \in log : x < e => x <= walk.after
        BY <1>1, <1>2, <1>5, <3>2
      <4>2. previous[e] \in log /\ previous[e] < e /\ walk.after <= previous[e]
        BY <1>3, <4>1 DEF IsLast
      <4> QED
        BY <1>1, <4>1, <4>2
    <3> QED
      BY <1>1, <3>1, <3>2
  <2> QED
    BY <1>1, <2>1, <2>2 DEF IsLast
<1> QED
  BY <1>4, <1>5

LEMMA StepWalk == ASSUME IInv, Next PROVE WalkInv'
<1>1. CASE VerifyPage
  <2>1. PICK E \in SUBSET {e \in log : e > walk.after} :
          /\ IsPage(E, {e \in log : e > walk.after}, VerifySize)
          /\ IF E = {} THEN walk' = [walk EXCEPT !.after = 0]
             ELSE \E n \in E :
                    /\ IsLast(n, E)
                    /\ walk' = [after |-> n, intact |-> walk.intact /\ Links(E)]
    BY <1>1 DEF VerifyPage
  <2>2. Links(E) /\ log' = log
    BY <1>1, <2>1, PageLinks DEF IsPage, VerifyPage, chain
  <2>3. CASE E = {}
    BY <2>1, <2>2, <2>3 DEF IInv, WalkInv, TypeOK
  <2>4. CASE E # {}
    <3>1. PICK n \in E : walk' = [after |-> n, intact |-> walk.intact /\ Links(E)]
      BY <2>1, <2>4
    <3>2. walk'.after = n /\ walk'.intact = (walk.intact /\ Links(E))
      BY <3>1
    <3> QED
      BY <2>2, <3>2 DEF IInv, WalkInv
  <2> QED
    BY <2>3, <2>4
<1>2. CASE ~VerifyPage
  <2>1. walk' = walk
    BY <1>2, HandleEffect DEF Next, Write, Lock, ReadTail, Create, Commit, Rollback, Administer,
      CreateRead, CreateRow, SetActive, Remove, Stream, StreamRead, StreamEntries, StreamStage,
      StreamFails
  <2> QED
    BY <2>1, LogGrows DEF IInv, WalkInv
<1> QED
  BY <1>1, <1>2

-----------------------------------------------------------------------------
(* Sinks, their cursors and their batches. *)

\* A row keeps the cursor it was created with, and what was committed before it.
LEMMA RowStands ==
  ASSUME IInv, Next, NEW k \in Sink, HasRow(k)
  PROVE  HasRow(k)' /\ start'[k] = start[k] /\ before'[k] = before[k]
<1> USE DEF IInv, TypeOK, HasRow
<1>1. ASSUME NEW j \in Sink, Administer(j)
      PROVE  HasRow(k)' /\ start'[k] = start[k] /\ before'[k] = before[k]
  BY <1>1 DEF Administer, CreateRead, CreateRow, SetActive, Remove
<1>2. ASSUME NEW p \in Streamer, Stream(p) \/ StreamFails(p) \/ \E j \in Sink : StreamRead(p, j)
      PROVE  UNCHANGED <<sink, start, before>>
  BY <1>2 DEF Stream, StreamRead, StreamEntries, StreamStage, StreamFails, sinks
<1>3. ASSUME VerifyPage \/ Handle \/ \E w \in Writer : Write(w)
      PROVE  UNCHANGED <<sink, start, before>>
  BY <1>3, HandleEffect DEF VerifyPage, Write, Lock,
    ReadTail, Create, Commit, Rollback, sinks
<1> QED
  BY <1>1, <1>2, <1>3 DEF Next

\* A row is created with the cursor read for it.
LEMMA RowCreated ==
  ASSUME IInv, Next, NEW k \in Sink, ~HasRow(k), HasRow(k)'
  PROVE  /\ CreateRow(k) /\ start'[k] = cursor[k] /\ before'[k] = log
         /\ UNCHANGED <<cursor, log>>
<1> USE DEF IInv
<1>1. CreateRow(k)
  <2>1. ASSUME NEW j \in Sink, Administer(j)
        PROVE  CreateRow(k)
    BY <2>1 DEF Administer, CreateRead, CreateRow, SetActive, Remove, HasRow, TypeOK
  <2>2. sink' # sink
    BY DEF HasRow
  <2>3. ASSUME NEW p \in Streamer,
               Stream(p) \/ StreamFails(p) \/ \E j \in Sink : StreamRead(p, j)
        PROVE  sink' = sink
    BY <2>3 DEF Stream, StreamRead, StreamEntries, StreamStage, StreamFails, sinks
  <2>4. ASSUME VerifyPage \/ Handle \/ \E w \in Writer : Write(w)
        PROVE  sink' = sink
    BY <2>4, HandleEffect DEF VerifyPage, Write,
      Lock, ReadTail, Create, Commit, Rollback, sinks
  <2> QED
    BY <2>1, <2>2, <2>3, <2>4 DEF Next
<1> QED
  BY <1>1 DEF CreateRow, chain, TypeOK

\* The streamer p moves its sink's cursor to last.
Stages(p, first, last) ==
  LET k == read[p].sink IN
  /\ StreamStage(p)
  /\ sink[k] \in {"on", "off"} /\ cursor[k] = read[p].cursor
  /\ \A e \in read[p].entries : first <= e /\ e <= last
  /\ cursor' = [cursor EXCEPT ![k] = last]
  /\ staged' = staged \cup {[sink |-> k, from |-> first, to |-> last]}

\* Cursors move when a sink is being created and when a batch is staged.
LEMMA CursorStep ==
  ASSUME IInv, Next
  PROVE  \/ cursor' = cursor /\ staged' = staged
         \/ \E k \in Sink : CreateRead(k)
         \/ \E p \in Streamer : \E first, last \in read[p].entries : Stages(p, first, last)
<1>1. ASSUME NEW k \in Sink, Administer(k)
      PROVE  (cursor' = cursor /\ staged' = staged) \/ CreateRead(k)
  BY <1>1 DEF Administer, CreateRow, SetActive, Remove, outbox
<1>2. ASSUME NEW p \in Streamer, StreamStage(p)
      PROVE  \/ cursor' = cursor /\ staged' = staged
             \/ \E first, last \in read[p].entries : Stages(p, first, last)
  BY <1>2 DEF StreamStage, Stages
<1>3. ASSUME NEW p \in Streamer,
             StreamEntries(p) \/ StreamFails(p) \/ \E k \in Sink : StreamRead(p, k)
      PROVE  cursor' = cursor /\ staged' = staged
  BY <1>3 DEF StreamRead, StreamEntries, StreamFails, sinks, outbox
<1>4. ASSUME VerifyPage \/ Handle \/ \E w \in Writer : Write(w)
      PROVE  cursor' = cursor /\ staged' = staged
  BY <1>4, HandleEffect DEF VerifyPage, Write, Lock,
    ReadTail, Create, Commit, Rollback, sinks, outbox
<1> QED
  BY <1>1, <1>2, <1>3, <1>4 DEF Next, Stream

\* A staged batch is what follows the cursor in the trail, whole.
LEMMA StagesNext ==
  ASSUME IInv, NEW p \in Streamer, NEW first \in read[p].entries, NEW last \in read[p].entries,
         Stages(p, first, last)
  PROVE  LET k == read[p].sink IN
         /\ k \in Sink /\ HasRow(k)
         /\ first \in log /\ last \in log /\ cursor[k] < first /\ first <= last
         /\ \A e \in log : cursor[k] < e /\ e <= last => first <= e
         /\ cursor'[k] = last /\ \A j \in Sink \ {k} : cursor'[j] = cursor[j]
         /\ staged' = staged \cup {[sink |-> k, from |-> first, to |-> last]}
         /\ UNCHANGED <<log, sink, start, before>>
<1> DEFINE k == read[p].sink
<1>1. /\ step[p] = "stage" /\ UNCHANGED <<log, sink, start, before>>
      /\ cursor[k] = read[p].cursor
      /\ \A e \in read[p].entries : first <= e /\ e <= last
      /\ cursor' = [cursor EXCEPT ![k] = last]
      /\ staged' = staged \cup {[sink |-> k, from |-> first, to |-> last]}
  BY DEF Stages, StreamStage, chain
<1>2. /\ k \in Sink /\ HasRow(k)
      /\ \A e \in read[p].entries : e \in log /\ cursor[k] < e
      /\ \A x \in read[p].entries, y \in log : y > cursor[k] /\ y \notin read[p].entries => x < y
  BY <1>1 DEF IInv, ReadInv, After
<1>3. \A e \in log : e \in Nat
  BY DEF IInv, TypeOK, Sequence
<1>4. \A e \in log : cursor[k] < e /\ e <= last => first <= e
  BY <1>1, <1>2, <1>3
<1>5. cursor \in [Sink -> 0..MaxSequence]
  BY DEF IInv, TypeOK
<1>6. cursor'[k] = last /\ \A j \in Sink \ {k} : cursor'[j] = cursor[j]
  BY <1>1, <1>2, <1>5
<1> QED
  BY <1>1, <1>2, <1>4, <1>6

LEMMA StepCursor == ASSUME IInv, Next PROVE CursorInv'
<1> USE DEF IInv
<1>1. /\ \A e \in log' : e \in Nat /\ e > 0
      /\ \A k \in Sink : cursor[k] \in Nat /\ start[k] \in Nat
      /\ \A k \in Sink : cursor'[k] \in Nat /\ start'[k] \in Nat
  <2>1. log' \subseteq 1..MaxSequence
    BY StepType DEF TypeOK, Sequence
  <2>2. cursor' \in [Sink -> 0..MaxSequence] /\ start' \in [Sink -> 0..MaxSequence]
    BY StepType DEF TypeOK
  <2>3. \A k \in Sink : cursor[k] \in Nat /\ start[k] \in Nat
    BY AuditAssumption DEF TypeOK
  <2> QED
    BY <2>1, <2>2, <2>3, AuditAssumption
<1>2. log \subseteq log' /\ \A x \in log, y \in log' \ log : x < y
  BY LogGrows
<1> SUFFICES ASSUME NEW k \in Sink
             PROVE  /\ cursor'[k] \in {0} \cup log'
                    /\ HasRow(k)' => /\ start'[k] \in {0} \cup log' /\ start'[k] <= cursor'[k]
                                     /\ \A e \in log' \ before'[k] : e > start'[k]
  BY DEF CursorInv
<1>3. cursor'[k] \in {0} \cup log' /\ (HasRow(k) => cursor[k] <= cursor'[k])
  <2>1. ASSUME NEW j \in Sink, CreateRead(j)
        PROVE  cursor'[k] \in {0} \cup log /\ (HasRow(k) => cursor'[k] = cursor[k])
    BY <2>1 DEF CreateRead, CursorInv, HasRow, TypeOK
  <2>2. ASSUME NEW p \in Streamer, NEW first \in read[p].entries, NEW last \in read[p].entries,
               Stages(p, first, last)
        PROVE  cursor'[k] \in {0} \cup log /\ cursor[k] <= cursor'[k]
    BY <1>1, <2>2, StagesNext DEF CursorInv
  <2> QED
    BY <1>1, <1>2, <2>1, <2>2, CursorStep DEF CursorInv
<1>4. CASE HasRow(k)
  <2>1. start'[k] = start[k] /\ before'[k] = before[k]
    BY <1>4, RowStands
  <2> QED
    BY <1>1, <1>2, <1>3, <1>4, <2>1 DEF CursorInv
<1>5. CASE ~HasRow(k) /\ HasRow(k)'
  BY <1>1, <1>5, RowCreated DEF CursorInv
<1> QED
  BY <1>3, <1>4, <1>5

LEMMA StepRead == ASSUME IInv, Next PROVE ReadInv'
<1> USE DEF IInv
<1>1. log \subseteq log' /\ \A x \in log, y \in log' \ log : x < y
  BY LogGrows
<1>2. \A k \in Sink : HasRow(k) => HasRow(k)'
  BY RowStands
<1> SUFFICES ASSUME NEW p \in Streamer
             PROVE  /\ step'[p] # "idle" => read'[p].sink \in Sink /\ HasRow(read[p].sink)'
                    /\ step'[p] = "stage" =>
                         /\ read'[p].entries \subseteq {e \in log' : e > read'[p].cursor}
                         /\ \A x \in read'[p].entries, y \in log' :
                              y > read'[p].cursor /\ y \notin read'[p].entries => x < y
  BY DEF ReadInv, After
<1>3. CASE step'[p] = step[p] /\ read'[p] = read[p]
  <2>1. step'[p] # "idle" => read'[p].sink \in Sink /\ HasRow(read[p].sink)'
    BY <1>2, <1>3 DEF ReadInv, HasRow
  <2>2. ASSUME step'[p] = "stage"
        PROVE  /\ read[p].entries \subseteq {e \in log' : e > read[p].cursor}
               /\ \A x \in read[p].entries, y \in log' :
                    y > read[p].cursor /\ y \notin read[p].entries => x < y
    BY <1>1, <1>3, <2>2 DEF ReadInv, After
  <2> QED
    BY <1>3, <2>1, <2>2
<1>4. CASE step'[p] = "idle"
  BY <1>4
<1>5. ASSUME NEW k \in Sink, StreamRead(p, k)
      PROVE  step'[p] = "entries" /\ read'[p].sink = k /\ HasRow(k)
  BY <1>5 DEF StreamRead, HasRow, TypeOK
<1>6. ASSUME StreamEntries(p), step'[p] # "idle"
      PROVE  /\ read'[p].sink = read[p].sink /\ read'[p].cursor = read[p].cursor
             /\ step[p] = "entries" /\ log' = log
             /\ read'[p].entries \subseteq After(p)
             /\ \A x \in read'[p].entries, y \in After(p) \ read'[p].entries : x < y
  <2>1. PICK E \in SUBSET After(p) :
          /\ IsPage(E, After(p), BatchSize)
          /\ IF E = {} THEN StreamIdle(p)
             ELSE /\ step' = [step EXCEPT ![p] = "stage"]
                  /\ read' = [read EXCEPT ![p].entries = E]
    BY <1>6 DEF StreamEntries
  <2>2. read'[p] = [read[p] EXCEPT !.entries = E]
    BY <1>6, <2>1 DEF StreamIdle, TypeOK
  <2>3. /\ read'[p].entries = E /\ read'[p].sink = read[p].sink
        /\ read'[p].cursor = read[p].cursor
    BY <2>2 DEF TypeOK
  <2> QED
    BY <1>6, <2>1, <2>3 DEF IsPage, StreamEntries, chain
<1>7. ASSUME NEW q \in Streamer, Stream(q) \/ StreamFails(q) \/ \E k \in Sink : StreamRead(q, k)
      PROVE  q = p \/ (step'[p] = step[p] /\ read'[p] = read[p])
  BY <1>7 DEF Stream, StreamRead, StreamEntries, StreamStage, StreamFails, StreamIdle, TypeOK
<1>8. ASSUME StreamStage(p) \/ StreamFails(p)
      PROVE  step'[p] = "idle"
  BY <1>8 DEF StreamStage, StreamFails, StreamIdle, TypeOK
<1>9. ASSUME \/ VerifyPage \/ Handle
             \/ \E w \in Writer : Write(w)
             \/ \E k \in Sink : Administer(k)
      PROVE  step' = step /\ read' = read
  BY <1>9, HandleEffect DEF VerifyPage, Write, Lock,
    ReadTail, Create, Commit, Rollback, Administer, CreateRead, CreateRow, SetActive, Remove,
    streamers
<1>10. CASE \E k \in Sink : StreamRead(p, k)
  <2>1. PICK k \in Sink : StreamRead(p, k)
    BY <1>10
  <2>2. HasRow(read'[p].sink)
    BY <1>5, <2>1
  <2> QED
    BY <1>2, <1>5, <2>1, <2>2 DEF HasRow
<1>11. CASE StreamEntries(p) /\ step'[p] # "idle"
  <2>1. read[p].sink \in Sink /\ HasRow(read[p].sink)
    BY <1>6, <1>11 DEF ReadInv
  <2>2. read'[p].sink \in Sink /\ HasRow(read[p].sink)'
    BY <1>2, <1>6, <1>11, <2>1 DEF HasRow
  <2> QED
    BY <1>6, <1>11, <2>2 DEF After
<1> QED
  BY <1>3, <1>4, <1>7, <1>8, <1>9, <1>10, <1>11 DEF Next, Stream

LEMMA StepStaged == ASSUME IInv, Next PROVE StagedInv'
<1> USE DEF IInv
<1>1. log \subseteq log' /\ \A k \in Sink : cursor[k] \in Nat /\ start[k] \in Nat
  BY LogGrows, AuditAssumption DEF TypeOK
<1>2. \A e \in log : e \in Nat
  BY DEF TypeOK, Sequence
<1>3. \A b \in staged : b.sink \in Sink
  BY DEF TypeOK, Message
<1>4. ASSUME NEW b \in staged,
             cursor[b.sink] <= cursor'[b.sink]
      PROVE  Within(b)'
  <2>1. HasRow(b.sink)' /\ start'[b.sink] = start[b.sink]
    BY <1>3, RowStands DEF StagedInv, Within
  <2>2. cursor'[b.sink] \in Nat
    BY <1>3, StepType, AuditAssumption DEF TypeOK
  <2> QED
    BY <1>1, <1>2, <1>3, <1>4, <2>1, <2>2 DEF StagedInv, Within, HasRow
<1>5. ASSUME NEW j \in Sink, CreateRead(j)
      PROVE  StagedInv'
  <2>1. staged' = staged
    BY <1>5 DEF CreateRead, outbox
  <2>2. \A b \in staged : cursor'[b.sink] = cursor[b.sink]
    BY <1>3, <1>5 DEF CreateRead, StagedInv, Within, HasRow, TypeOK
  <2>3. \A b \in staged : Within(b)'
    BY <1>1, <1>3, <1>4, <2>2
  <2> QED
    BY <2>1, <2>3 DEF StagedInv
<1>6. ASSUME NEW p \in Streamer, NEW first \in read[p].entries, NEW last \in read[p].entries,
             Stages(p, first, last)
      PROVE  StagedInv'
  <2>0. PICK k \in Sink : k = read[p].sink
    BY <1>6, StagesNext
  <2> DEFINE new == [sink |-> k, from |-> first, to |-> last]
  <2>1. /\ k \in Sink /\ HasRow(k)
        /\ first \in log /\ last \in log /\ cursor[k] < first /\ first <= last
        /\ cursor'[k] = last /\ \A j \in Sink \ {k} : cursor'[j] = cursor[j]
        /\ staged' = staged \cup {new}
        /\ UNCHANGED <<log, sink, start, before>>
    BY <1>6, <2>0, StagesNext
  <2>2. \A b \in staged : cursor[b.sink] <= cursor'[b.sink]
    BY <1>1, <1>2, <1>3, <2>1
  <2>3. \A b \in staged : Within(b)'
    BY <1>4, <2>2
  <2>4. start[k] <= cursor[k]
    BY <2>1 DEF CursorInv
  <2>5. start[k] < first
    BY <1>1, <1>2, <2>1, <2>4
  <2>6. Within(new)'
    <3>1. new.sink = k /\ new.from = first /\ new.to = last /\ last <= cursor'[k]
      BY <1>2, <2>1
    <3>2. HasRow(k)' /\ start'[k] < first
      BY <2>1, <2>5 DEF HasRow
    <3>3. first \in log' /\ last \in log'
      BY <2>1
    <3> HIDE DEF new
    <3> QED
      BY <2>1, <3>1, <3>2, <3>3 DEF Within, HasRow
  <2>7. \A b \in staged : b.sink = k => b.to < first
    BY <1>1, <1>2, <2>1 DEF StagedInv, Within
  <2>8. new.sink = k /\ new.from = first
    OBVIOUS
  <2> HIDE DEF new
  <2>9. ASSUME NEW b \in staged', NEW c \in staged', b.sink = c.sink, b # c
        PROVE  b.to < c.from \/ c.to < b.from
    BY <2>1, <2>7, <2>8, <2>9 DEF StagedInv
  <2> QED
    BY <2>1, <2>3, <2>6, <2>9 DEF StagedInv
<1>7. CASE cursor' = cursor /\ staged' = staged
  BY <1>1, <1>3, <1>4, <1>7 DEF StagedInv
<1> QED
  BY <1>5, <1>6, <1>7, CursorStep

LEMMA StepCover == ASSUME IInv, Next PROVE CoverInv'
<1> USE DEF IInv
<1>1. /\ log \subseteq log' /\ \A x \in log, y \in log' \ log : x < y
      /\ \A k \in Sink : cursor[k] \in Nat /\ cursor[k] \in {0} \cup log
      /\ \A e \in log' : e \in Nat /\ e > 0
  <2>1. \A e \in log' : e \in Nat /\ e > 0
    <3>1. log' \subseteq 1..MaxSequence
      BY StepType DEF TypeOK, Sequence
    <3> QED
      BY <3>1, AuditAssumption
  <2>2. \A k \in Sink : cursor[k] \in Nat /\ cursor[k] \in {0} \cup log
    BY AuditAssumption DEF TypeOK, CursorInv
  <2> QED
    BY <2>1, <2>2, LogGrows
<1> SUFFICES ASSUME NEW k \in Sink, HasRow(k)', NEW e \in log',
                    start'[k] < e, e <= cursor'[k]
             PROVE  \E b \in staged' : Covers(b, k, e)
  BY DEF CoverInv, Covers
<1>2. ASSUME e <= cursor[k]
      PROVE  e \in log
  BY <1>1, <1>2
<1>3. staged \subseteq staged'
  BY CursorStep DEF CreateRead, outbox, Stages
<1>4. CASE HasRow(k) /\ e <= cursor[k]
  BY <1>2, <1>3, <1>4, RowStands DEF CoverInv
<1>5. CASE HasRow(k) /\ ~(e <= cursor[k])
  <2>1. cursor'[k] # cursor[k]
    BY <1>5
  <2>2. ~\E j \in Sink : CreateRead(j)
    BY <1>5, <2>1 DEF CreateRead, HasRow, TypeOK
  <2>3. PICK p \in Streamer : \E first, last \in read[p].entries : Stages(p, first, last)
    BY <2>1, <2>2, CursorStep
  <2>4. PICK first \in read[p].entries, last \in read[p].entries : Stages(p, first, last)
    BY <2>3
  <2> DEFINE new == [sink |-> k, from |-> first, to |-> last]
  <2>5. /\ read[p].sink \in Sink /\ \A j \in Sink \ {read[p].sink} : cursor'[j] = cursor[j]
        /\ cursor'[read[p].sink] = last /\ log' = log
        /\ \A x \in log : cursor[read[p].sink] < x /\ x <= last => first <= x
        /\ staged' = staged \cup {[sink |-> read[p].sink, from |-> first, to |-> last]}
    BY <2>4, StagesNext
  <2>6. read[p].sink = k
    BY <2>1, <2>5
  <2>7. new \in staged' /\ first <= e /\ e <= last
    BY <1>1, <1>5, <2>5, <2>6
  <2>8. Covers(new, k, e)
    BY <2>7 DEF Covers
  <2> QED
    BY <2>7, <2>8
<1>6. CASE ~HasRow(k)
  <2>1. start'[k] = cursor'[k]
    BY <1>6, RowCreated
  <2> QED
    BY <1>1, <2>1, StepType, AuditAssumption DEF TypeOK
<1> QED
  BY <1>4, <1>5, <1>6

LEMMA StepHandled == ASSUME IInv, Next PROVE HandledInv'
<1>1. \A b \in staged : b \in staged' /\ InRange(b)' = InRange(b)
  <2>1. log \subseteq log' /\ \A x \in log, y \in log' \ log : x < y
    BY LogGrows
  <2>2. \A e \in log' : e \in Nat
    BY StepType DEF TypeOK, Sequence
  <2>3. staged \subseteq staged'
    BY CursorStep DEF CreateRead, outbox, Stages
  <2>4. \A b \in staged : b.to \in log
    BY DEF IInv, StagedInv, Within
  <2> QED
    BY <2>1, <2>2, <2>3, <2>4 DEF InRange
<1>2. CASE UNCHANGED <<attempts, handling, received>>
  BY <1>1, <1>2 DEF IInv, HandledInv, InRange, Dead
<1>3. ASSUME NEW b \in staged, HandleRead(b)
      PROVE  HandledInv'
  <2>1. /\ handling' = [message |-> b, entries |-> InRange(b)]
        /\ ~Dead(b) /\ UNCHANGED <<attempts, received>>
    BY <1>3 DEF HandleRead, HandOver
  <2>2. handling'.message = b /\ handling'.entries = InRange(b)
    BY <2>1
  <2> QED
    BY <1>1, <2>1, <2>2 DEF IInv, HandledInv, InRange, Dead
<1>4. CASE HandleSent \/ HandleFails \/ RelayDies
  <2>1. handling' = NoMessage /\ received' \in {received, received \cup {handling}}
        /\ handling # NoMessage
    BY <1>4 DEF HandleSent, HandleFails, RelayDies, CutShort
  <2> QED
    BY <1>1, <2>1 DEF IInv, HandledInv, InRange
<1>5. ASSUME NEW b \in staged, HandleGone(b)
      PROVE  UNCHANGED <<attempts, handling, received>>
  BY <1>5 DEF HandleGone
<1>6. ASSUME NEW b \in staged, Requeue(b)
      PROVE  HandledInv'
  <2>1. UNCHANGED <<handling, received>> /\ attempts' = [attempts EXCEPT ![b] = 0]
    BY <1>6 DEF Requeue
  <2>2. ASSUME handling # NoMessage
        PROVE  ~Dead(handling.message)'
    <3>1. handling.message \in Message /\ ~Dead(handling.message)
      BY <2>2 DEF IInv, HandledInv, TypeOK
    <3> QED
      BY <2>1, <3>1, AuditAssumption DEF IInv, TypeOK, Dead
  <2> QED
    BY <1>1, <2>1, <2>2 DEF IInv, HandledInv, InRange, Dead
<1>7. ASSUME \/ VerifyPage
             \/ \E w \in Writer : Write(w)
             \/ \E k \in Sink : Administer(k)
             \/ \E p \in Streamer : Stream(p) \/ StreamFails(p) \/ \E k \in Sink : StreamRead(p, k)
      PROVE  UNCHANGED <<attempts, handling, received>>
  BY <1>7 DEF VerifyPage, Write, Lock, ReadTail, Create, Commit, Rollback, Administer, CreateRead,
    CreateRow, SetActive, Remove, Stream, StreamRead, StreamEntries, StreamStage, StreamFails,
    outbox
<1> QED
  BY <1>2, <1>3, <1>4, <1>5, <1>6, <1>7 DEF Next, Handle, Settle

LEMMA StepDone == ASSUME IInv, Next PROVE DoneInv'
<1> USE DEF IInv
<1>1. \A b \in done : b.sink \in Sink
  BY DEF TypeOK, Message
<1>2. \A k \in Sink : sink[k] = "gone" => sink'[k] = "gone"
  <2>1. ASSUME NEW k \in Sink, Administer(k)
        PROVE  \A j \in Sink : sink[j] = "gone" => sink'[j] = "gone"
    BY <2>1 DEF Administer, CreateRead, CreateRow, SetActive, Remove, TypeOK
  <2>2. ASSUME NEW p \in Streamer,
               Stream(p) \/ StreamFails(p) \/ \E j \in Sink : StreamRead(p, j)
        PROVE  sink' = sink
    BY <2>2 DEF Stream, StreamRead, StreamEntries, StreamStage, StreamFails, sinks
  <2>3. ASSUME VerifyPage \/ Handle \/ \E w \in Writer : Write(w)
        PROVE  sink' = sink
    BY <2>3, HandleEffect DEF VerifyPage, Write,
      Lock, ReadTail, Create, Commit, Rollback, sinks
  <2> QED
    BY <2>1, <2>2, <2>3 DEF Next
<1>3. ASSUME NEW b \in staged, HandleGone(b)
      PROVE  DoneInv'
  <2>1. done' = done \cup {b} /\ sink[b.sink] = "gone" /\ b.sink \in Sink
        /\ received' = received
    BY <1>3 DEF HandleGone, TypeOK, Message
  <2> QED
    BY <1>1, <1>2, <2>1 DEF DoneInv
<1>4. CASE HandleSent
  <2>1. /\ done' = done \cup {handling.message}
        /\ received' = received \cup {handling}
    BY <1>4 DEF HandleSent
  <2> QED
    BY <1>1, <1>2, <2>1 DEF DoneInv
<1>5. CASE done' = done /\ received \subseteq received'
  BY <1>1, <1>2, <1>5 DEF DoneInv
<1>6. ASSUME NEW b \in staged, HandleRead(b) \/ Requeue(b)
      PROVE  done' = done /\ received \subseteq received'
  BY <1>6 DEF HandleRead, Requeue
<1>7. ASSUME HandleFails \/ RelayDies
      PROVE  done' = done /\ received \subseteq received'
  BY <1>7 DEF HandleFails, RelayDies, CutShort
<1>8. ASSUME \/ VerifyPage
             \/ \E w \in Writer : Write(w)
             \/ \E k \in Sink : Administer(k)
             \/ \E p \in Streamer : Stream(p) \/ StreamFails(p) \/ \E k \in Sink : StreamRead(p, k)
      PROVE  done' = done /\ received \subseteq received'
  BY <1>8 DEF VerifyPage, Write, Lock, ReadTail, Create, Commit, Rollback, Administer, CreateRead,
    CreateRow, SetActive, Remove, Stream, StreamRead, StreamEntries, StreamStage, StreamFails,
    outbox
<1> QED
  BY <1>3, <1>4, <1>5, <1>6, <1>7, <1>8 DEF Next, Handle, Settle

-----------------------------------------------------------------------------
LEMMA StutterInv == ASSUME IInv, UNCHANGED vars PROVE IInv'
<1> USE DEF IInv, vars, chain, sinks, streamers, outbox
<1>1. TypeOK'
  BY DEF TypeOK
<1>2. OrderInv' /\ ChainInv' /\ WalkInv'
  BY DEF OrderInv, ChainInv, Follows, WalkInv
<1>3. CursorInv' /\ ReadInv'
  BY DEF CursorInv, HasRow, ReadInv, After
<1>4. StagedInv'
  BY DEF StagedInv, Within, HasRow
<1>5. CoverInv'
  BY DEF CoverInv, Covers, HasRow
<1>6. HandledInv'
  BY DEF HandledInv, InRange, Dead
<1>7. DoneInv'
  BY DEF DoneInv
<1> QED
  BY <1>1, <1>2, <1>3, <1>4, <1>5, <1>6, <1>7

\* The inductive invariant of the trail, its writers, its sinks and their
\* batches (audit-log.ts, audit-sink.service.ts, audit-stream.service.ts).
THEOREM Invariance == Spec => []IInv
<1>1. IInv /\ [Next]_vars => IInv'
  BY StutterInv, StepType, StepOrder, StepChain, StepWalk, StepCursor, StepRead, StepStaged,
    StepCover, StepHandled, StepDone DEF IInv
<1> QED
  BY InitInv, <1>1, PTL DEF Spec

\* Every variable of the trail, the sinks and the streamers keeps its type.
THEOREM TypeCorrect == Spec => []TypeOK
<1>1. IInv => TypeOK
  BY DEF IInv
<1> QED
  BY Invariance, <1>1, PTL

\* AuditService.verify never calls a chain broken that nobody altered, whatever
\* is appended between two of its pages.
THEOREM ChainVerifies == Spec => []IntactChainVerifies
<1>1. IInv => IntactChainVerifies
  BY DEF IInv, WalkInv, IntactChainVerifies
<1> QED
  BY Invariance, <1>1, PTL

\* Two batches of a sink have no entry in common.
LEMMA OneBatch ==
  ASSUME IInv, NEW b \in staged, NEW c \in staged, b.sink = c.sink,
         NEW e, e \in InRange(b), e \in InRange(c)
  PROVE  b = c
<1>1. /\ b.from \in Nat /\ b.to \in Nat
      /\ c.from \in Nat /\ c.to \in Nat
  BY DEF IInv, TypeOK, Message, Sequence
<1>2. e \in Nat
  BY DEF IInv, TypeOK, Sequence, InRange
<1> QED
  BY <1>1, <1>2 DEF IInv, StagedInv, InRange

\* Whatever streamers overlap, an entry a sink's cursor has passed is in one of
\* its batches and in no other, that batch is with the outbox or reached the
\* sink, and nothing committed after the sink's row is behind the cursor it
\* started with (audit-stream.service.ts:20).
THEOREM StagedOnce == Spec => []StagedExactlyOnce
<1>1. ASSUME IInv
      PROVE  StagedExactlyOnce
  <2> USE <1>1 DEF IInv
  <2> SUFFICES ASSUME NEW k \in Sink, sink[k] \in {"on", "off"}, NEW e \in log
               PROVE  /\ e \notin before[k] => e > start[k]
                      /\ start[k] < e /\ e <= cursor[k] =>
                           \E b \in staged :
                             /\ b.sink = k /\ e \in InRange(b)
                             /\ b \in done => \E r \in received : r.message = b
                             /\ \A c \in staged : c.sink = k /\ e \in InRange(c) => c = b
    BY DEF StagedExactlyOnce
  <2>1. HasRow(k)
    BY DEF HasRow
  <2>2. e \notin before[k] => e > start[k]
    BY <2>1 DEF CursorInv
  <2>3. ASSUME start[k] < e, e <= cursor[k]
        PROVE  \E b \in staged : /\ b.sink = k /\ e \in InRange(b)
                                 /\ b \in done => \E r \in received : r.message = b
                                 /\ \A c \in staged : c.sink = k /\ e \in InRange(c) => c = b
    <3>1. PICK b \in staged : b.sink = k /\ b.from <= e /\ e <= b.to
      BY <2>1, <2>3 DEF CoverInv, Covers
    <3>2. \A c \in staged : c.sink = k /\ e \in InRange(c) => c = b
      BY <3>1, OneBatch DEF InRange
    <3>3. b \in done => \E r \in received : r.message = b
      BY <3>1 DEF DoneInv
    <3> QED
      BY <3>1, <3>2, <3>3 DEF InRange
  <2> QED
    BY <2>2, <2>3
<1> QED
  BY Invariance, <1>1, PTL

\* What reached a sink under the key of a range is all of that range, then and
\* ever after: a retried batch is the same batch, and no entry reaches a sink in
\* two of them (audit-sink.handler.ts:60).
THEOREM BatchesWhole == Spec => []BatchIsWhole
<1>1. ASSUME IInv
      PROVE  BatchIsWhole
  <2> USE <1>1 DEF IInv
  <2>1. ASSUME NEW r \in received, NEW q \in received,
               q.message.sink = r.message.sink, q.entries \cap r.entries # {}
        PROVE  q = r
    <3>1. PICK e : e \in q.entries /\ e \in r.entries
      BY <2>1
    <3>2. /\ r.message \in staged /\ r.entries = InRange(r.message)
          /\ q.message \in staged /\ q.entries = InRange(q.message)
      BY <2>1 DEF HandledInv
    <3>3. q.message = r.message
      BY <2>1, <3>1, <3>2, OneBatch
    <3>4. /\ r \in [message : Message, entries : SUBSET Sequence]
          /\ q \in [message : Message, entries : SUBSET Sequence]
      BY <2>1 DEF TypeOK
    <3> QED
      BY <3>2, <3>3, <3>4
  <2> QED
    BY <2>1 DEF HandledInv, BatchIsWhole
<1> QED
  BY Invariance, <1>1, PTL

\* The chain of the committed entries has no fork: no two of them were computed
\* from the same one, and only the first from none, so an entry that is taken
\* out leaves a hole the verifier sees (audit-log.ts:73-88).
NoFork ==
  \A d, e \in log : previous[d] = previous[e] => d = e

THEOREM ChainHasNoFork == Spec => []NoFork
<1>1. ASSUME IInv
      PROVE  NoFork
  <2> USE <1>1 DEF IInv
  <2>1. \A e \in log : e \in Nat /\ e > 0
    BY AuditAssumption DEF TypeOK, Sequence
  <2>2. ASSUME NEW d \in log, NEW e \in log, d < e
        PROVE  previous[d] # previous[e]
    <3>1. /\ IsLast(previous[d], {x \in log : x < d})
          /\ IsLast(previous[e], {x \in log : x < e})
      BY DEF ChainInv, Follows
    <3>2. previous[e] \in log /\ d <= previous[e]
      BY <2>2, <3>1 DEF IsLast
    <3>3. previous[d] = 0 \/ (previous[d] < d /\ previous[d] \in log)
      BY <3>1 DEF IsLast
    <3> QED
      BY <2>1, <3>2, <3>3
  <2> QED
    BY <2>1, <2>2 DEF NoFork
<1> QED
  BY Invariance, <1>1, PTL

\* Sequences are handed out before the commit and out of its order, yet no entry
\* is ever committed below one that is: the advisory lock is taken before the
\* sequence is (audit-log.ts:73-80).  And the cursor of a sink that has a row
\* never moves back, whatever streamers overlap (audit-stream.service.ts:83-90).
AppendsOnly ==
  /\ log \subseteq log' /\ \A x \in log, y \in log' \ log : x < y
  /\ \A k \in Sink : HasRow(k) => cursor[k] <= cursor'[k]

THEOREM TrailAppends == Spec => [][AppendsOnly]_vars
<1>1. ASSUME IInv, Next
      PROVE  AppendsOnly
  <2>1. \A k \in Sink : cursor[k] \in Nat
    BY <1>1, AuditAssumption DEF IInv, TypeOK
  <2>2. ASSUME NEW k \in Sink, HasRow(k)
        PROVE  cursor[k] <= cursor'[k]
    <3>1. ASSUME NEW j \in Sink, CreateRead(j)
          PROVE  cursor'[k] = cursor[k]
      BY <1>1, <2>2, <3>1 DEF CreateRead, HasRow, IInv, TypeOK
    <3>2. ASSUME NEW p \in Streamer,
                 NEW first \in read[p].entries, NEW last \in read[p].entries,
                 Stages(p, first, last)
          PROVE  cursor[k] <= cursor'[k]
      <4>1. \A e \in log : e \in Nat
        BY <1>1 DEF IInv, TypeOK, Sequence
      <4> QED
        BY <1>1, <2>1, <3>2, <4>1, StagesNext
    <3> QED
      BY <1>1, <2>1, <3>1, <3>2, CursorStep
  <2> QED
    BY <1>1, <2>2, LogGrows DEF AppendsOnly
<1>2. IInv /\ [Next]_vars => [AppendsOnly]_vars
  BY <1>1
<1> QED
  BY Invariance, <1>2, PTL DEF Spec

\* A sink created without backfill "streams from now on" (security.md:84): no
\* entry reaches it that was committed before its cursor was read.
NothingOld ==
  \A r \in received : \A e \in r.entries : e \in log /\ e > start[r.message.sink]

THEOREM ReceivedIsNew == Spec => []NothingOld
<1>1. ASSUME IInv
      PROVE  NothingOld
  <2> USE <1>1 DEF IInv
  <2> SUFFICES ASSUME NEW r \in received, NEW e \in r.entries
               PROVE  e \in log /\ e > start[r.message.sink]
    BY DEF NothingOld
  <2>1. r.message \in staged /\ e \in InRange(r.message)
    BY DEF HandledInv
  <2>2. Within(r.message) /\ e \in log /\ r.message.from <= e
    BY <2>1 DEF StagedInv, InRange
  <2>3. e \in Nat /\ r.message.from \in Nat /\ start[r.message.sink] \in Nat
    BY <2>1, <2>2, AuditAssumption DEF TypeOK, Sequence, Message
  <2> QED
    BY <2>2, <2>3 DEF Within
<1> QED
  BY Invariance, <1>1, PTL

-----------------------------------------------------------------------------
(* The refinement of AuditFeed: a sink has seen what its cursor has passed. *)

Seen == [k \in Sink |->
           IF sink[k] \in {"absent", "creating"} THEN {}
           ELSE {e \in log : e <= start[k]
                              \/ \E b \in staged : b.sink = k /\ e \in InRange(b)}]

Passed(k) == {e \in log : HasRow(k) /\ e <= cursor[k]}

LEMMA SeenIsPassed == IInv => Seen = [k \in Sink |-> Passed(k)]
<1> SUFFICES ASSUME IInv, NEW k \in Sink
             PROVE  Seen[k] = Passed(k)
  BY DEF Seen
<1> USE DEF IInv
<1>1. CASE ~HasRow(k)
  <2>1. sink[k] \in {"absent", "creating"}
    BY <1>1 DEF HasRow, TypeOK
  <2> QED
    BY <1>1, <2>1 DEF Seen, Passed
<1>2. CASE HasRow(k)
  <2>1. Seen[k] = {e \in log : e <= start[k]
                                \/ \E b \in staged : b.sink = k /\ e \in InRange(b)}
    BY <1>2 DEF Seen, HasRow
  <2>2. /\ \A e \in log : e \in Nat
        /\ start[k] \in Nat /\ cursor[k] \in Nat /\ start[k] <= cursor[k]
    BY <1>2, AuditAssumption DEF TypeOK, Sequence, CursorInv
  <2>3. ASSUME NEW e \in log, NEW b \in staged, b.sink = k, e \in InRange(b)
        PROVE  e <= cursor[k]
    BY <2>2, <2>3 DEF StagedInv, Within, InRange
  <2>4. ASSUME NEW e \in log, e <= cursor[k], ~(e <= start[k])
        PROVE  \E b \in staged : b.sink = k /\ e \in InRange(b)
    BY <1>2, <2>2, <2>4 DEF CoverInv, Covers, InRange
  <2>5. \A e \in log : (e <= start[k] \/ \E b \in staged : b.sink = k /\ e \in InRange(b))
                          <=> e <= cursor[k]
    BY <2>2, <2>3, <2>4
  <2> QED
    BY <1>2, <2>1, <2>5 DEF Passed
<1> QED
  BY <1>1, <1>2

\* A step that leaves the trail alone moves at most one sink, and forwards.
LEMMA OneSinkMoves ==
  ASSUME IInv, Next, log' = log
  PROVE  \/ \A j \in Sink : Passed(j)' = Passed(j)
         \/ \E k \in Sink : /\ Passed(k) \subseteq Passed(k)'
                            /\ \A j \in Sink \ {k} : Passed(j)' = Passed(j)
<1> USE DEF IInv
<1>1. ASSUME NEW k \in Sink, ~HasRow(k), HasRow(k)'
      PROVE  /\ Passed(k) \subseteq Passed(k)'
             /\ \A j \in Sink \ {k} : Passed(j)' = Passed(j)
  <2>1. CreateRow(k) /\ cursor' = cursor
    BY <1>1, RowCreated
  <2>2. \A j \in Sink \ {k} : sink'[j] = sink[j]
    BY <2>1 DEF CreateRow, TypeOK
  <2> QED
    BY <1>1, <2>1, <2>2 DEF Passed, HasRow
<1>2. ASSUME \A k \in Sink : HasRow(k)' => HasRow(k)
      PROVE  \/ \A j \in Sink : Passed(j)' = Passed(j)
             \/ \E k \in Sink : /\ Passed(k) \subseteq Passed(k)'
                                /\ \A j \in Sink \ {k} : Passed(j)' = Passed(j)
  <2>1. \A k \in Sink : HasRow(k)' <=> HasRow(k)
    BY <1>2, RowStands
  <2>2. CASE cursor' = cursor
    BY <2>1, <2>2 DEF Passed
  <2>3. ASSUME NEW j \in Sink, CreateRead(j)
        PROVE  \A k \in Sink : Passed(k)' = Passed(k)
    <3>1. ~HasRow(j) /\ \A k \in Sink \ {j} : cursor'[k] = cursor[k]
      BY <2>3 DEF CreateRead, HasRow, TypeOK
    <3> QED
      BY <2>1, <3>1 DEF Passed
  <2>4. ASSUME NEW p \in Streamer, NEW first \in read[p].entries, NEW last \in read[p].entries,
               Stages(p, first, last)
        PROVE  \E k \in Sink : /\ Passed(k) \subseteq Passed(k)'
                               /\ \A j \in Sink \ {k} : Passed(j)' = Passed(j)
    <3>1. PICK k \in Sink : k = read[p].sink
      BY <2>4, StagesNext
    <3>2. /\ first \in log /\ last \in log /\ cursor[k] < first /\ first <= last
          /\ cursor'[k] = last /\ \A j \in Sink \ {k} : cursor'[j] = cursor[j]
      BY <2>4, <3>1, StagesNext
    <3>3. cursor[k] \in Nat /\ \A e \in log : e \in Nat
      BY AuditAssumption DEF TypeOK, Sequence
    <3>4. Passed(k) \subseteq Passed(k)'
      BY <2>1, <3>2, <3>3 DEF Passed
    <3>5. \A j \in Sink \ {k} : Passed(j)' = Passed(j)
      BY <2>1, <3>2 DEF Passed
    <3> QED
      BY <3>4, <3>5
  <2> QED
    BY <2>2, <2>3, <2>4, CursorStep
<1> QED
  BY <1>1, <1>2

\* What is appended is beyond every cursor.
LEMMA AppendPasses ==
  ASSUME IInv, NEW w \in Writer, Commit(w), NEW k \in Sink
  PROVE  Passed(k)' = Passed(k)
<1>1. log' = log \cup own[w] /\ UNCHANGED <<sink, cursor>>
  BY DEF Commit, sinks
<1>2. \A e \in own[w] : ~(e <= cursor[k])
  <2>1. /\ cursor[k] \in {0} \cup log /\ \A e \in log : e \in Nat
        /\ \A e \in own[w] : e \in Nat /\ e > 0
    BY AuditAssumption DEF IInv, TypeOK, CursorInv, Sequence
  <2> QED
    BY <2>1 DEF IInv, OrderInv
<1> QED
  BY <1>1, <1>2 DEF Passed, HasRow

\* The audit trail with several writers and streamers implements AuditFeed: it
\* only grows at its end and each sink is handed it in order, without a gap,
\* for any batch size and any faults (audit-stream.service.ts:18-31).
THEOREM Implementation == Spec => ImplementsAuditFeed
<1>1. Init => Feed!Init
  BY DEF Init, Feed!Init
<1>2. ASSUME IInv, IInv', Next, Seen' = [k \in Sink |-> Passed(k)'],
             Seen = [k \in Sink |-> Passed(k)]
      PROVE  Feed!Next \/ UNCHANGED Feed!vars
  <2>1. ASSUME NEW w \in Writer, Commit(w)
        PROVE  Feed!Next
    <3>1. Seen' = Seen
      BY <1>2, <2>1, AppendPasses
    <3>2. own[w] # {} /\ log' = log \cup own[w] /\ \A x \in log, y \in own[w] : x < y
      BY <1>2, <2>1 DEF Commit, IInv, OrderInv
    <3>3. own[w] \in SUBSET (log' \ log) /\ own[w] \subseteq Nat
      <4>1. \A y \in own[w] : y \in Nat
        BY <1>2 DEF IInv, TypeOK, Sequence
      <4> QED
        BY <3>2, <4>1
    <3>4. Feed!Append(own[w])
      BY <3>1, <3>2, <3>3 DEF Feed!Append, Seen
    <3> QED
      BY <3>3, <3>4 DEF Feed!Next
  <2>2. ASSUME NEW k \in Sink, log' = log, Passed(k) \subseteq Passed(k)',
               \A j \in Sink \ {k} : Passed(j)' = Passed(j)
        PROVE  Feed!Next
    <3>1. PICK S : S = Passed(k)'
      OBVIOUS
    <3>2. S \in SUBSET log /\ Feed!Prefix(S, log)
      <4>1. TypeOK' => Feed!Prefix(S, log')
        BY <3>1, AuditAssumption DEF TypeOK, Sequence, Passed, Feed!Prefix
      <4> QED
        BY <1>2, <2>2, <3>1, <4>1 DEF IInv, Passed
    <3>3. Seen[k] \subseteq S
      BY <1>2, <2>2, <3>1
    <3>4. Seen' = [Seen EXCEPT ![k] = S]
      BY <1>2, <2>2, <3>1
    <3>5. Feed!Advance(k, S)
      BY <2>2, <3>2, <3>3, <3>4 DEF Feed!Advance, Seen
    <3> QED
      BY <3>2, <3>5 DEF Feed!Next
  <2>3. CASE log' = log /\ \A j \in Sink : Passed(j)' = Passed(j)
    <3>1. Seen' = Seen
      BY <1>2, <2>3
    <3> QED
      BY <2>3, <3>1 DEF Feed!vars, Seen
  <2>4. log' = log \/ \E w \in Writer : Commit(w)
    BY <1>2, ChainStep DEF chain, Write, Lock, ReadTail, Create, Rollback
  <2> QED
    BY <1>2, <2>1, <2>2, <2>3, <2>4, OneSinkMoves
<1>3. UNCHANGED vars => UNCHANGED Feed!vars
  BY DEF vars, chain, sinks, outbox, Feed!vars, InRange
<1>4. IInv' => (Seen = [k \in Sink |-> Passed(k)])'
  BY SeenIsPassed, PTL
<1>5. IInv /\ IInv' /\ [Next]_vars => [Feed!Next]_(Feed!vars)
  BY <1>2, <1>3, <1>4, SeenIsPassed
<1> QED
  BY Invariance, <1>1, <1>5, PTL DEF Spec, ImplementsAuditFeed, Feed!Spec

-----------------------------------------------------------------------------
\* What AuditFeed promises is enough: under it, a sink has always been handed
\* exactly a beginning of the trail, without a gap and in order.
THEOREM FeedInOrder == Feed!Spec => [](Feed!TypeOK /\ Feed!InOrder)
<1> USE DEF Feed!TypeOK, Feed!InOrder, Feed!Prefix
<1>1. Feed!Init => Feed!TypeOK /\ Feed!InOrder
  BY DEF Feed!Init
<1>2. ASSUME Feed!TypeOK, Feed!InOrder, [Feed!Next]_(Feed!vars)
      PROVE  Feed!TypeOK' /\ Feed!InOrder'
  <2>1. ASSUME NEW S \in SUBSET (log' \ log), Feed!Append(S)
        PROVE  Feed!TypeOK' /\ Feed!InOrder'
    BY <1>2, <2>1 DEF Feed!Append
  <2>2. ASSUME NEW k \in Sink, NEW S \in SUBSET log, Feed!Advance(k, S)
        PROVE  Feed!TypeOK' /\ Feed!InOrder'
    BY <1>2, <2>2 DEF Feed!Advance
  <2>3. CASE UNCHANGED Feed!vars
    BY <1>2, <2>3 DEF Feed!vars
  <2> QED
    BY <1>2, <2>1, <2>2, <2>3 DEF Feed!Next
<1> QED
  BY <1>1, <1>2, PTL DEF Feed!Spec

\* So every sink of the trail is handed it in order and without a gap, for any
\* writers, streamers, batch sizes and faults (audit-stream.service.ts:70-75).
THEOREM HandedInOrder == Spec => []Feed!InOrder
BY Implementation, FeedInOrder, PTL DEF ImplementsAuditFeed
=============================================================================
