-------------------------- MODULE ChangeFeedProofs --------------------------
(***************************************************************************)
(* The listeners of the change feed, for any number of connections,        *)
(* channels, overlapping calls and rejected commands: a session listens    *)
(* once or not at all, the topic is subscribed while somebody listens, a   *)
(* session with channels hears of them, a presence entry has a member or a *)
(* call behind it, and a close leaves nothing but what a rejected SUBSCRIBE*)
(* left and what a join it overtook puts back.                             *)
(***************************************************************************)
EXTENDS ChangeFeed, TLAPS

Linked(s) == detach[s] \/ attaching[s] # "no"

\* A session never attaches while it has its handle, and either has a listener
\* behind it, whatever Redis rejected.
HandleInv ==
  \A s \in Session :
    /\ detach[s] => attaching[s] = "no"
    /\ Linked(s) => listeners[s] > 0

\* Call c is the close() of session s.
Closing(c, s) == call[c] # None /\ call[c].session = s /\ call[c].op = "close"

\* A close that awaits has marked its session, and only a join awaits an HSET.
MarkInv ==
  \A c \in Call :
    /\ \A s \in Session : Closing(c, s) => closed[s]
    /\ call[c] # None /\ call[c].at = "hset" => call[c].op = "join"

\* What a close has to let go of is gone, or its close() is still at it or failed.
ClosedInv ==
  \A s \in Session : closed[s] /\ <<s, "close">> \notin failed =>
    \/ channels[s] = {} /\ ~detach[s]
    \/ \E c \in Call : Closing(c, s)

\* Call c puts session s in the hash for channel ch, or will take it out.
Carries(c, s, ch) ==
  /\ call[c] # None /\ call[c].session = s /\ call[c].channel = ch
  /\ call[c].at = "hset" \/ (call[c].at = "hget" /\ call[c].listed)

\* No call of session s was rejected.
Untroubled(s) == \A op \in Ops : <<s, op>> \notin failed

\* An entry of the hash has its member, or a call that answers for it, or was left
\* by a call that failed.
EntryInv ==
  \A s \in Session : Untroubled(s) => \A ch \in present[s] :
    ch \in members[s] \/ \E c \in Call : Carries(c, s, ch)

\* What session s was a member of is gone, or its close() is to leave it yet.
Gone(s) ==
  \/ members[s] = {} /\ ~refresh[s]
  \/ \E c \in Call : Closing(c, s) /\ members[s] \subseteq call[c].rest

\* A close that overtook no join has no join after it, and takes the memberships
\* with it unless it fails.
GoneInv ==
  \A s \in Session \ overtaken : closed[s] =>
    /\ \A c \in Call : ~Joining(c, s)
    /\ <<s, "close">> \notin failed => Gone(s)

PresenceInv == EntryInv /\ GoneInv

LinkInv == HandleInv /\ OneListener /\ TopicFollowsListeners

SessionInv == MarkInv /\ ClosedInv /\ SubscribedIsAttached

IInv == TypeOK /\ LinkInv /\ SessionInv /\ PresenceInv

-----------------------------------------------------------------------------
LEMMA InitInv == Init => IInv
<1> SUFFICES ASSUME Init PROVE IInv
  OBVIOUS
<1>1. TypeOK
  <2>1. MaxFaults \in Nat
    BY ChangeFeedAssumption
  <2>2. faults \in 0..MaxFaults
    BY <2>1 DEF Init
  <2>3. /\ attaching \in [Session -> {"no", "subscribe", "joined"}]
        /\ listeners \in [Session -> Nat]
    BY DEF Init
  <2>4. /\ channels \in [Session -> SUBSET Channel]
        /\ members \in [Session -> SUBSET Channel]
        /\ present \in [Session -> SUBSET Channel]
    BY DEF Init
  <2>5. /\ refresh \in [Session -> BOOLEAN]
        /\ closed \in [Session -> BOOLEAN]
        /\ detach \in [Session -> BOOLEAN]
        /\ topic \in BOOLEAN
        /\ call \in [Call -> Pending \cup {None}]
        /\ overtaken \subseteq Session /\ failed \subseteq Session \X Ops
        /\ lost \in [Session -> Nat]
    BY DEF Init
  <2> QED
    BY <2>2, <2>3, <2>4, <2>5 DEF TypeOK
<1>2. LinkInv
  BY DEF Init, LinkInv, HandleInv, OneListener, TopicFollowsListeners, Linked
<1>3. SessionInv
  BY DEF Init, SessionInv, MarkInv, ClosedInv, SubscribedIsAttached, Closing
<1>4. PresenceInv
  BY DEF Init, PresenceInv, EntryInv, GoneInv, Joining
<1> QED
  BY <1>1, <1>2, <1>3, <1>4 DEF IInv

\* Release, on a session that has its handle or not.
LEMMA ReleaseEffect ==
  ASSUME TypeOK, HandleInv, NEW s \in Session, Release(s)
  PROVE  /\ refresh' \in [Session -> BOOLEAN]
         /\ detach' = [detach EXCEPT ![s] = FALSE]
         /\ listeners' \in [Session -> Nat]
         /\ topic' \in BOOLEAN
         /\ ~detach[s] => UNCHANGED <<listeners, topic>>
         /\ detach[s] => listeners' = [listeners EXCEPT ![s] = @ - 1]
<1>1. /\ refresh' \in [Session -> BOOLEAN]
      /\ detach' = [detach EXCEPT ![s] = FALSE]
  BY DEF Release, Set, TypeOK
<1>2. CASE detach[s]
  <2>1. /\ listeners' = [listeners EXCEPT ![s] = @ - 1]
        /\ topic' = (topic /\ OthersListen(s))
    BY <1>2 DEF Release, Unlisten
  <2>2. listeners[s] \in Nat /\ listeners[s] > 0
    BY <1>2 DEF HandleInv, Linked, TypeOK
  <2>3. listeners' \in [Session -> Nat]
    BY <2>1, <2>2 DEF TypeOK
  <2>4. topic' \in BOOLEAN
    BY <2>1
  <2> QED
    BY <1>1, <1>2, <2>1, <2>3, <2>4
<1>3. CASE ~detach[s]
  BY <1>1, <1>3 DEF Release, TypeOK
<1> QED
  BY <1>2, <1>3

\* What leaving the next channel, or ending, does to the state.
LEMMA LeaveOrEndEffect ==
  ASSUME TypeOK, HandleInv, NEW c \in Call, NEW s \in Session, NEW op \in Ops,
         NEW S \in SUBSET Channel, LeaveOrEnd(c, s, op, S)
  PROVE  /\ members' \in [Session -> SUBSET Channel]
         /\ refresh' \in [Session -> BOOLEAN]
         /\ detach' \in [Session -> BOOLEAN]
         /\ listeners' \in [Session -> Nat]
         /\ topic' \in BOOLEAN
         /\ call' \in [Call -> Pending \cup {None}]
         /\ \A d \in Call \ {c} : call'[d] = call[d]
         /\ \/ /\ S \cap members[s] # {}
               /\ call'[c] \in Pending /\ call'[c].session = s /\ call'[c].op = op
               /\ UNCHANGED <<detach, listeners, topic>>
            \/ /\ S \cap members[s] = {}
               /\ call'[c] = None
               /\ op = "close" \/ (op = "unsubscribe" /\ channels'[s] = {})
               /\ Release(s)
            \/ /\ S \cap members[s] = {}
               /\ call'[c] = None
               /\ op # "close"
               /\ UNCHANGED <<detach, listeners, topic>>
<1>1. CASE S \cap members[s] # {}
  <2>1. PICK ch \in S \cap members[s] :
               /\ members' = [members EXCEPT ![s] = @ \ {ch}]
               /\ call' = Set(call, c,
                    [session |-> s, op |-> op, at |-> "hget", channel |-> ch,
                     listed |-> ch \in present[s], rest |-> S \ {ch}])
    BY <1>1 DEF LeaveOrEnd
  <2>2. [session |-> s, op |-> op, at |-> "hget", channel |-> ch,
         listed |-> ch \in present[s], rest |-> S \ {ch}] \in Pending
    BY DEF Pending
  <2>3. UNCHANGED <<refresh, detach, listeners, topic>>
    BY <1>1 DEF LeaveOrEnd
  <2> QED
    BY <1>1, <2>1, <2>2, <2>3 DEF TypeOK, Set
<1>2. CASE S \cap members[s] = {}
  <2>1. call' = Set(call, c, None) /\ UNCHANGED members
    BY <1>2 DEF LeaveOrEnd
  <2>2. CASE op = "close" \/ (op = "unsubscribe" /\ channels'[s] = {})
    <3>1. Release(s)
      BY <1>2, <2>2 DEF LeaveOrEnd
    <3>2. /\ refresh' \in [Session -> BOOLEAN]
          /\ detach' \in [Session -> BOOLEAN]
          /\ listeners' \in [Session -> Nat]
          /\ topic' \in BOOLEAN
      BY <3>1, ReleaseEffect DEF TypeOK
    <3> QED
      BY <1>2, <2>1, <2>2, <3>1, <3>2 DEF TypeOK, Set
  <2>3. CASE ~(op = "close" \/ (op = "unsubscribe" /\ channels'[s] = {}))
    <3>1. UNCHANGED <<refresh, detach, listeners, topic>>
      BY <1>2, <2>3 DEF LeaveOrEnd
    <3> QED
      BY <1>2, <2>1, <2>3, <3>1 DEF TypeOK, Set
  <2> QED
    BY <2>2, <2>3
<1> QED
  BY <1>1, <1>2

\* The arguments that Got, Left and the client's own calls give LeaveOrEnd.
LEMMA PendingCall ==
  ASSUME TypeOK, NEW c \in Call, call[c] # None
  PROVE  /\ call[c].session \in Session /\ call[c].op \in Ops
         /\ call[c].channel \in Channel /\ call[c].rest \in SUBSET Channel
BY DEF TypeOK, Pending

\* Every variable keeps its type.
LEMMA StepType ==
  ASSUME TypeOK, HandleInv, [Next]_vars
  PROVE  TypeOK'
<1>0. MaxFaults \in Nat
  BY ChangeFeedAssumption
<1>1. ASSUME NEW s \in Session, NEW ch \in Channel, Subscribe(s, ch)
      PROVE  TypeOK'
  <2>1. CASE detach[s] \/ attaching[s] # "no"
    BY <1>1, <2>1 DEF Subscribe, history, TypeOK
  <2>2. CASE ~(detach[s] \/ attaching[s] # "no")
    <3>1. Listen(s)
      BY <1>1, <2>2 DEF Subscribe
    <3>2. attaching' \in [Session -> {"no", "subscribe", "joined"}] /\ topic' \in BOOLEAN
      BY <3>1 DEF Listen, Set, TypeOK
    <3>3. listeners' \in [Session -> Nat]
      BY <3>1 DEF Listen, TypeOK
    <3> QED
      BY <1>1, <3>2, <3>3 DEF Subscribe, history, TypeOK
  <2> QED
    BY <2>1, <2>2
<1>2. ASSUME NEW s \in Session, Connected(s)
      PROVE  TypeOK'
  <2>0. listeners[s] \in Nat /\ listeners[s] > 0
    BY <1>2 DEF Connected, HandleInv, Linked, TypeOK
  <2>1. listeners' \in [Session -> Nat] /\ topic' \in BOOLEAN
    <3>1. CASE closed[s]
      <4>1. /\ listeners' = [listeners EXCEPT ![s] = @ - 1]
            /\ topic' = (topic /\ OthersListen(s))
        BY <1>2, <3>1 DEF Connected, Unlisten
      <4> QED
        BY <2>0, <4>1 DEF TypeOK
    <3>2. CASE ~closed[s]
      BY <1>2, <3>2 DEF Connected, TypeOK
    <3> QED
      BY <3>1, <3>2
  <2>2. /\ attaching' \in [Session -> {"no", "subscribe", "joined"}]
        /\ detach' \in [Session -> BOOLEAN]
    BY <1>2 DEF Connected, Set, TypeOK
  <2> QED
    BY <1>2, <2>1, <2>2 DEF Connected, session, history, TypeOK
<1>3. ASSUME NEW s \in Session, ConnectFails(s)
      PROVE  TypeOK'
  <2>1. faults' \in 0..MaxFaults
    BY <1>0, <1>3 DEF ConnectFails, Fault, TypeOK
  <2>2. attaching' \in [Session -> {"no", "subscribe", "joined"}] /\ topic' \in BOOLEAN
    BY <1>3 DEF ConnectFails, Set, TypeOK
  <2>3. lost' \in [Session -> Nat]
    BY <1>3 DEF ConnectFails, TypeOK
  <2> QED
    BY <1>3, <2>1, <2>2, <2>3 DEF ConnectFails, session, TypeOK
<1>4. ASSUME NEW c \in Call, NEW s \in Session, NEW ch \in Channel,
             Unsubscribe(c, s, ch) \/ Leave(c, s, ch)
      PROVE  TypeOK'
  <2>1. PICK op \in Ops, S \in SUBSET Channel : LeaveOrEnd(c, s, op, S)
    <3>1. channels[s] \cap {ch} \in SUBSET Channel /\ {ch} \in SUBSET Channel
      OBVIOUS
    <3>2. "unsubscribe" \in Ops /\ "leave" \in Ops
      BY DEF Ops
    <3> QED
      BY <1>4, <3>1, <3>2 DEF Unsubscribe, Leave
  <2>2. channels' \in [Session -> SUBSET Channel] /\ UNCHANGED <<closed, attaching, present, history, faults>>
    BY <1>4 DEF Unsubscribe, Leave, TypeOK
  <2> QED
    BY <2>1, <2>2, LeaveOrEndEffect DEF history, TypeOK
<1>5. ASSUME NEW c \in Call, NEW s \in Session, Close(c, s)
      PROVE  TypeOK'
  <2>1. members[s] \in SUBSET Channel /\ "close" \in Ops
    BY DEF TypeOK, Ops
  <2>2. LeaveOrEnd(c, s, "close", members[s])
    BY <1>5 DEF Close
  <2>3. /\ channels' \in [Session -> SUBSET Channel]
        /\ closed' \in [Session -> BOOLEAN]
        /\ overtaken' \subseteq Session
        /\ UNCHANGED <<attaching, present, failed, lost, faults>>
    BY <1>5 DEF Close, ChannelsAfter, Set, TypeOK
  <2> QED
    BY <2>1, <2>2, <2>3, LeaveOrEndEffect DEF TypeOK
<1>6. ASSUME NEW c \in Call, Got(c) \/ Left(c)
      PROVE  TypeOK'
  <2> DEFINE s == call[c].session
  <2>0. s \in Session /\ call[c].op \in Ops /\ call[c].rest \in SUBSET Channel
    BY <1>6, PendingCall DEF Got, Left
  <2>1. CASE Got(c) /\ call[c].listed
    <3>1. /\ call' = [call EXCEPT ![c].at = "hdel"]
          /\ present' = [present EXCEPT ![s] = @ \ {call[c].channel}]
          /\ UNCHANGED <<session, link, history, faults>>
      BY <2>1 DEF Got
    <3>2. call[c] \in Pending
      BY <2>1 DEF Got, TypeOK
    <3>3. [call[c] EXCEPT !.at = "hdel"] \in Pending
      BY <3>2 DEF Pending
    <3>4. call' \in [Call -> Pending \cup {None}]
      BY <3>1, <3>3 DEF TypeOK
    <3>5. present' \in [Session -> SUBSET Channel]
      BY <3>1 DEF TypeOK
    <3> QED
      BY <3>1, <3>4, <3>5 DEF TypeOK, session, link, history
  <2>2. CASE Left(c) \/ ~call[c].listed
    <3>1. /\ channels' = ChannelsAfter(s, call[c].op, call[c].rest)
          /\ LeaveOrEnd(c, s, call[c].op, call[c].rest)
          /\ UNCHANGED <<closed, attaching, present, history, faults>>
      BY <1>6, <2>2 DEF Got, Left
    <3>2. channels' \in [Session -> SUBSET Channel]
      BY <3>1, <2>0 DEF ChannelsAfter, Set, TypeOK
    <3> QED
      BY <2>0, <3>1, <3>2, LeaveOrEndEffect DEF history, TypeOK
  <2> QED
    BY <1>6, <2>1, <2>2
<1>7. ASSUME NEW c \in Call, NEW s \in Session, NEW ch \in Channel, Join(c, s, ch)
      PROVE  TypeOK'
  <2>1. [session |-> s, op |-> "join", at |-> "hset", channel |-> ch,
         listed |-> FALSE, rest |-> {}] \in Pending
    BY DEF Pending, Ops
  <2> QED
    BY <1>7, <2>1 DEF Join, Set, session, link, history, TypeOK
<1>8. ASSUME NEW c \in Call, Joined(c)
      PROVE  TypeOK'
  BY <1>8, PendingCall DEF Joined, Set, link, history, TypeOK
<1>9. ASSUME NEW c \in Call, CallFails(c)
      PROVE  TypeOK'
  <2>1. call[c].session \in Session /\ call[c].op \in Ops /\ call[c].channel \in Channel
    BY <1>9, PendingCall DEF CallFails
  <2>2. failed' \subseteq Session \X Ops
    BY <1>9, <2>1 DEF CallFails, TypeOK
  <2>3. /\ faults' \in 0..MaxFaults
        /\ present' \in [Session -> SUBSET Channel]
        /\ call' \in [Call -> Pending \cup {None}]
    BY <1>0, <1>9, <2>1 DEF CallFails, Fault, Set, TypeOK
  <2> QED
    BY <1>9, <2>2, <2>3 DEF CallFails, session, link, TypeOK
<1>10. ASSUME NEW s \in Session, Refresh(s) \/ \E ch \in Channel : Expire(s, ch)
       PROVE  TypeOK'
  BY <1>10 DEF Refresh, Expire, session, link, history, TypeOK
<1>11. CASE UNCHANGED vars
  BY <1>11 DEF vars, session, link, history, TypeOK
<1> QED
  BY <1>1, <1>2, <1>3, <1>4, <1>5, <1>6, <1>7, <1>8, <1>9, <1>10, <1>11 DEF Next, CallReturns

-----------------------------------------------------------------------------
\* A step that touches no link, and rejects no SUBSCRIBE, keeps the links.
LEMMA LinkKept ==
  ASSUME LinkInv, UNCHANGED <<link, lost>>
  PROVE  LinkInv'
BY DEF LinkInv, HandleInv, OneListener, TopicFollowsListeners, Linked, link

\* One listener of session s leaves: the handle or the attachment it belongs to
\* must go with it.
LEMMA LinkLeaves ==
  ASSUME TypeOK, LinkInv, NEW s \in Session, Unlisten(s), Linked(s),
         detach' = [detach EXCEPT ![s] = FALSE], attaching' = [attaching EXCEPT ![s] = "no"],
         UNCHANGED lost
  PROVE  LinkInv'
<1>1. listeners[s] \in Nat /\ listeners[s] > 0
  BY DEF LinkInv, HandleInv, TypeOK
<1>2. /\ listeners' = [listeners EXCEPT ![s] = @ - 1]
      /\ topic' = (topic /\ OthersListen(s))
  BY DEF Unlisten
<1>3. /\ ~Linked(s)' /\ listeners'[s] = listeners[s] - 1
      /\ ~detach'[s] /\ attaching'[s] = "no"
  BY <1>2 DEF Linked, TypeOK
<1>4. \A q \in Session \ {s} : /\ listeners'[q] = listeners[q]
                               /\ detach'[q] = detach[q] /\ attaching'[q] = attaching[q]
  BY <1>2 DEF TypeOK
<1>5. HandleInv'
  BY <1>3, <1>4 DEF LinkInv, HandleInv, Linked
<1>6. OneListener'
  <2>1. listeners[s] = lost[s] + 1 /\ lost[s] \in Nat
    BY DEF LinkInv, OneListener, Linked, TypeOK
  <2> QED
    BY <1>3, <1>4, <2>1 DEF LinkInv, OneListener
<1>7. OthersListen(s) <=> \E q \in Session : listeners'[q] > 0
  BY <1>1, <1>3, <1>4 DEF OthersListen
<1>8. topic <=> \A q \in Session : lost[q] = 0
  BY <1>1 DEF LinkInv, TopicFollowsListeners
<1>9. TopicFollowsListeners'
  BY <1>2, <1>7, <1>8 DEF TopicFollowsListeners
<1> QED
  BY <1>5, <1>6, <1>9 DEF LinkInv

\* Releasing keeps the links.
LEMMA LinkReleased ==
  ASSUME TypeOK, LinkInv, NEW s \in Session, Release(s), UNCHANGED <<attaching, lost>>
  PROVE  LinkInv'
<1>1. CASE detach[s]
  <2>1. Unlisten(s) /\ detach' = [detach EXCEPT ![s] = FALSE]
    BY <1>1 DEF Release, Set
  <2>2. Linked(s) /\ attaching' = [attaching EXCEPT ![s] = "no"]
    BY <1>1 DEF Linked, LinkInv, HandleInv, TypeOK
  <2> QED
    BY <2>1, <2>2, LinkLeaves
<1>2. CASE ~detach[s]
  <2>1. UNCHANGED link
    BY <1>2 DEF Release, Set, link, TypeOK
  <2> QED
    BY <2>1, LinkKept
<1> QED
  BY <1>1, <1>2

\* Leaving channels, or ending, keeps the links.
LEMMA LinkEnd ==
  ASSUME TypeOK, LinkInv, NEW c \in Call, NEW s \in Session, NEW op \in Ops,
         NEW S \in SUBSET Channel, LeaveOrEnd(c, s, op, S), UNCHANGED <<attaching, lost>>
  PROVE  LinkInv'
<1>1. Release(s) \/ UNCHANGED link
  BY LeaveOrEndEffect DEF LinkInv, link
<1> QED
  BY <1>1, LinkReleased, LinkKept

\* The links survive every step.
LEMMA StepLink ==
  ASSUME TypeOK, LinkInv, [Next]_vars
  PROVE  LinkInv'
<1>1. ASSUME NEW s \in Session, NEW ch \in Channel, Subscribe(s, ch)
      PROVE  LinkInv'
  <2>1. CASE detach[s] \/ attaching[s] # "no"
    BY <1>1, <2>1, LinkKept DEF Subscribe, link, history
  <2>2. CASE ~(detach[s] \/ attaching[s] # "no")
    <3>1. /\ attaching' = [attaching EXCEPT ![s] =
               IF \E q \in Session : listeners[q] > 0 THEN "joined" ELSE "subscribe"]
          /\ listeners' = [listeners EXCEPT ![s] = @ + 1]
          /\ topic' = (topic \/ \A q \in Session : listeners[q] = 0)
          /\ UNCHANGED <<detach, lost>>
      BY <1>1, <2>2 DEF Subscribe, Listen, Set, history
    <3>2. /\ attaching'[s] # "no" /\ ~detach'[s]
          /\ listeners[s] \in Nat /\ listeners'[s] = listeners[s] + 1
      BY <2>2, <3>1 DEF TypeOK
    <3>3. \A q \in Session \ {s} : /\ listeners'[q] = listeners[q]
                                   /\ detach'[q] = detach[q] /\ attaching'[q] = attaching[q]
      BY <3>1 DEF TypeOK
    <3>4. HandleInv'
      BY <3>2, <3>3 DEF LinkInv, HandleInv, Linked
    <3>5. OneListener'
      <4>1. listeners[s] = lost[s] /\ lost[s] \in Nat
        BY <2>2 DEF LinkInv, OneListener, TypeOK
      <4> QED
        BY <3>1, <3>2, <3>3, <4>1 DEF LinkInv, OneListener
    <3>6. listeners'[s] > 0
      BY <3>2
    <3>7. topic' <=> \A q \in Session : lost[q] = 0
      <4>1. \A q \in Session : listeners[q] >= lost[q] /\ listeners[q] \in Nat /\ lost[q] \in Nat
        BY DEF LinkInv, OneListener, TypeOK
      <4>2. (\A q \in Session : listeners[q] = 0) => \A q \in Session : lost[q] = 0
        BY <4>1
      <4>3. (\E q \in Session : listeners[q] > 0) \/ \A q \in Session : listeners[q] = 0
        BY <4>1
      <4> QED
        BY <3>1, <4>2, <4>3 DEF LinkInv, TopicFollowsListeners
    <3>8. TopicFollowsListeners'
      BY <3>1, <3>6, <3>7 DEF TopicFollowsListeners
    <3> QED
      BY <3>4, <3>5, <3>8 DEF LinkInv
  <2> QED
    BY <2>1, <2>2
<1>2. ASSUME NEW s \in Session, Connected(s)
      PROVE  LinkInv'
  <2>1. Linked(s) /\ ~detach[s] /\ attaching' = [attaching EXCEPT ![s] = "no"]
    BY <1>2 DEF Connected, Set, Linked, LinkInv, HandleInv
  <2>2. CASE closed[s]
    <3>1. Unlisten(s) /\ UNCHANGED <<detach, lost>>
      BY <1>2, <2>2 DEF Connected, history
    <3>2. detach' = [detach EXCEPT ![s] = FALSE]
      BY <2>1, <3>1 DEF TypeOK
    <3> QED
      BY <2>1, <3>1, <3>2, LinkLeaves
  <2>3. CASE ~closed[s]
    <3>1. /\ detach' = [detach EXCEPT ![s] = TRUE]
          /\ UNCHANGED <<listeners, topic, lost>>
      BY <1>2, <2>3 DEF Connected, Set, history
    <3>2. \A q \in Session : (detach'[q] \/ attaching'[q] # "no") <=> Linked(q)
      BY <2>1, <3>1 DEF Linked, TypeOK
    <3>3. \A q \in Session : detach'[q] => attaching'[q] = "no"
      BY <2>1, <3>1 DEF LinkInv, HandleInv, TypeOK
    <3>4. HandleInv'
      BY <3>1, <3>2, <3>3 DEF LinkInv, HandleInv, Linked
    <3>5. OneListener' /\ TopicFollowsListeners'
      BY <3>1, <3>2 DEF LinkInv, OneListener, TopicFollowsListeners, Linked
    <3> QED
      BY <3>4, <3>5 DEF LinkInv
  <2> QED
    BY <2>2, <2>3
<1>3. ASSUME NEW s \in Session, ConnectFails(s)
      PROVE  LinkInv'
  <2>1. /\ attaching[s] # "no" /\ attaching' = [attaching EXCEPT ![s] = "no"]
        /\ lost' = [lost EXCEPT ![s] = @ + 1]
        /\ ~topic' /\ UNCHANGED <<detach, listeners>>
    BY <1>3 DEF ConnectFails, Set
  <2>2. HandleInv'
    BY <2>1 DEF LinkInv, HandleInv, Linked, TypeOK
  <2>3. /\ attaching'[s] = "no" /\ ~detach'[s]
        /\ lost[s] \in Nat /\ lost'[s] = lost[s] + 1 /\ listeners[s] = lost[s] + 1
    BY <2>1 DEF LinkInv, HandleInv, OneListener, TypeOK
  <2>4. \A q \in Session \ {s} : attaching'[q] = attaching[q] /\ lost'[q] = lost[q]
    BY <2>1 DEF TypeOK
  <2>5. OneListener'
    BY <2>1, <2>3, <2>4 DEF LinkInv, OneListener
  <2>6. TopicFollowsListeners'
    BY <2>1, <2>3 DEF TopicFollowsListeners
  <2> QED
    BY <2>2, <2>5, <2>6 DEF LinkInv
<1>4. ASSUME NEW c \in Call, NEW s \in Session, NEW ch \in Channel,
             Unsubscribe(c, s, ch) \/ Leave(c, s, ch)
      PROVE  LinkInv'
  <2>1. PICK op \in Ops, S \in SUBSET Channel : LeaveOrEnd(c, s, op, S)
    <3>1. channels[s] \cap {ch} \in SUBSET Channel /\ {ch} \in SUBSET Channel
      OBVIOUS
    <3>2. "unsubscribe" \in Ops /\ "leave" \in Ops
      BY DEF Ops
    <3> QED
      BY <1>4, <3>1, <3>2 DEF Unsubscribe, Leave
  <2>2. UNCHANGED <<attaching, lost>>
    BY <1>4 DEF Unsubscribe, Leave, history
  <2> QED
    BY <2>1, <2>2, LinkEnd
<1>5. ASSUME NEW c \in Call, NEW s \in Session, Close(c, s)
      PROVE  LinkInv'
  <2>1. /\ members[s] \in SUBSET Channel /\ "close" \in Ops
        /\ LeaveOrEnd(c, s, "close", members[s]) /\ UNCHANGED <<attaching, lost>>
    BY <1>5 DEF Close, Ops, TypeOK
  <2> QED
    BY <2>1, LinkEnd
<1>6. ASSUME NEW c \in Call, Got(c) \/ Left(c)
      PROVE  LinkInv'
  <2>1. call[c].session \in Session /\ call[c].op \in Ops /\ call[c].rest \in SUBSET Channel
    BY <1>6, PendingCall DEF Got, Left
  <2>2. \/ UNCHANGED <<link, lost>>
        \/ /\ LeaveOrEnd(c, call[c].session, call[c].op, call[c].rest)
           /\ UNCHANGED <<attaching, lost>>
    BY <1>6 DEF Got, Left, history
  <2> QED
    BY <2>1, <2>2, LinkKept, LinkEnd
<1>7. ASSUME NEW c \in Call, Joined(c) \/ \E s \in Session, ch \in Channel : Join(c, s, ch)
      PROVE  LinkInv'
  <2>1. UNCHANGED <<link, lost>>
    BY <1>7 DEF Join, Joined, history
  <2> QED
    BY <2>1, LinkKept
<1>8. ASSUME NEW c \in Call, CallFails(c)
      PROVE  LinkInv'
  <2>1. UNCHANGED <<link, lost>>
    BY <1>8 DEF CallFails
  <2> QED
    BY <2>1, LinkKept
<1>9. ASSUME NEW s \in Session, Refresh(s) \/ \E ch \in Channel : Expire(s, ch)
      PROVE  LinkInv'
  <2>1. UNCHANGED <<link, lost>>
    BY <1>9 DEF Refresh, Expire, history
  <2> QED
    BY <2>1, LinkKept
<1>10. CASE UNCHANGED vars
  <2>1. UNCHANGED <<link, lost>>
    BY <1>10 DEF vars, history
  <2> QED
    BY <2>1, LinkKept
<1> QED
  BY <1>1, <1>2, <1>3, <1>4, <1>5, <1>6, <1>7, <1>8, <1>9, <1>10 DEF Next, CallReturns

-----------------------------------------------------------------------------
\* A call that leaves its next channel, or ends: what close() has to let go of
\* is gone or the call is still at it, and an unsubscribe that ends detaches
\* only a session without channels.
LEMMA SessionEnd ==
  ASSUME TypeOK, LinkInv, SessionInv,
         NEW c \in Call, NEW s \in Session, NEW op \in Ops, NEW S \in SUBSET Channel,
         LeaveOrEnd(c, s, op, S), UNCHANGED <<attaching, failed, lost>>,
         call[c] = None \/ (call[c].session = s /\ call[c].op = op),
         closed' \in [Session -> BOOLEAN],
         \A q \in Session \ {s} : closed'[q] = closed[q],
         IF op = "close" THEN closed'[s] /\ channels' = ChannelsAfter(s, op, S)
                         ELSE closed'[s] = closed[s],
         \A q \in Session : channels'[q] \subseteq channels[q]
  PROVE  SessionInv'
<1>1. /\ \A d \in Call \ {c} : call'[d] = call[d]
      /\ \/ /\ S \cap members[s] # {}
            /\ call'[c] \in Pending /\ call'[c].session = s /\ call'[c].op = op
            /\ UNCHANGED <<detach, listeners, topic>>
         \/ /\ S \cap members[s] = {}
            /\ call'[c] = None
            /\ op = "close" \/ (op = "unsubscribe" /\ channels'[s] = {})
            /\ Release(s)
         \/ /\ S \cap members[s] = {}
            /\ call'[c] = None
            /\ op # "close"
            /\ UNCHANGED <<detach, listeners, topic>>
  BY LeaveOrEndEffect DEF LinkInv
<1>2. \A q \in Session : detach'[q] => detach[q]
  <2>1. Release(s) => detach' = [detach EXCEPT ![s] = FALSE]
    BY DEF Release, Set
  <2> QED
    BY <1>1, <2>1 DEF TypeOK
<1>3. \A q \in Session : closed[q] => closed'[q]
  BY DEF TypeOK
<1>4. MarkInv'
  <2>1. ASSUME NEW d \in Call, NEW q \in Session, Closing(d, q)'
        PROVE  closed'[q]
    <3>1. CASE d # c
      BY <1>1, <1>3, <2>1, <3>1 DEF Closing, SessionInv, MarkInv
    <3>2. CASE d = c
      BY <1>1, <2>1, <3>2 DEF Closing
    <3> QED
      BY <3>1, <3>2
  <2>2. ASSUME NEW d \in Call, call'[d] # None, call'[d].at = "hset"
        PROVE  call'[d].op = "join"
    <3>1. CASE d # c
      BY <1>1, <2>2, <3>1 DEF SessionInv, MarkInv
    <3>2. CASE d = c
      <4>1. S \cap members[s] # {} /\ call'[c] # None
        BY <1>1, <2>2, <3>2
      <4>2. PICK ch \in S \cap members[s] :
              call' = Set(call, c,
                    [session |-> s, op |-> op, at |-> "hget", channel |-> ch,
                     listed |-> ch \in present[s], rest |-> S \ {ch}])
        BY <4>1 DEF LeaveOrEnd
      <4>3. call'[c].at = "hget"
        BY <4>2 DEF Set, TypeOK
      <4> QED
        BY <2>2, <3>2, <4>3
    <3> QED
      BY <3>1, <3>2
  <2> QED
    BY <2>1, <2>2 DEF MarkInv
<1>5. ClosedInv'
  <2> SUFFICES ASSUME NEW q \in Session, closed'[q], <<q, "close">> \notin failed
               PROVE  \/ channels'[q] = {} /\ ~detach'[q]
                      \/ \E d \in Call : Closing(d, q)'
    BY DEF ClosedInv
  <2>1. CASE q = s /\ op = "close"
    <3>1. CASE S \cap members[s] # {}
      <4>1. call'[c] \in Pending /\ call'[c].session = s /\ call'[c].op = "close"
        BY <1>1, <2>1, <3>1
      <4>2. call'[c] # None
        BY <4>1, ChangeFeedAssumption
      <4> QED
        BY <2>1, <4>1, <4>2 DEF Closing
    <3>2. CASE S \cap members[s] = {}
      <4>1. channels'[s] = {}
        BY <2>1, <3>2 DEF ChannelsAfter, Set, TypeOK
      <4>2. detach' = [detach EXCEPT ![s] = FALSE]
        BY <1>1, <2>1, <3>2 DEF Release, Set
      <4> QED
        BY <2>1, <4>1, <4>2 DEF TypeOK
    <3> QED
      BY <3>1, <3>2
  <2>2. CASE ~(q = s /\ op = "close")
    <3>1. closed[q]
      BY <2>2
    <3>2. ~Closing(c, q)
      BY <2>2 DEF Closing
    <3>3. CASE channels[q] = {} /\ ~detach[q]
      BY <1>2, <3>3
    <3>4. CASE \E d \in Call : Closing(d, q)
      BY <1>1, <3>2, <3>4 DEF Closing
    <3> QED
      BY <3>1, <3>3, <3>4 DEF SessionInv, ClosedInv
  <2> QED
    BY <2>1, <2>2
<1>6. SubscribedIsAttached'
  <2> SUFFICES ASSUME NEW q \in Session, ~closed'[q], channels'[q] # {}, lost[q] = 0
               PROVE  detach'[q] \/ attaching[q] # "no"
    BY DEF SubscribedIsAttached
  <2>1. ~closed[q] /\ channels[q] # {}
    BY <1>3
  <2>2. detach[q] \/ attaching[q] # "no"
    BY <2>1 DEF SessionInv, SubscribedIsAttached
  <2>3. detach'[q] = detach[q]
    <3>1. CASE Release(s) /\ q = s
      BY <1>1, <3>1
    <3>2. CASE Release(s) /\ q # s
      BY <3>2 DEF Release, Set, TypeOK
    <3>3. CASE UNCHANGED detach
      BY <3>3
    <3> QED
      BY <1>1, <3>1, <3>2, <3>3
  <2> QED
    BY <2>2, <2>3
<1> QED
  BY <1>4, <1>5, <1>6 DEF SessionInv

\* A step that attaches nothing, closes nothing and ends no close() without
\* recording its failure keeps the sessions.
LEMMA SessionKept ==
  ASSUME SessionInv, UNCHANGED <<channels, closed, detach, attaching>>,
         UNCHANGED lost, failed \subseteq failed',
         \A c \in Call :
           \/ call'[c] = call[c]
           \/ /\ call'[c] = None
              /\ \A s \in Session : Closing(c, s) => <<s, "close">> \in failed'
  PROVE  SessionInv'
<1>1. MarkInv'
  BY DEF SessionInv, MarkInv, Closing
<1>2. ClosedInv'
  <2> SUFFICES ASSUME NEW s \in Session, closed[s], <<s, "close">> \notin failed'
               PROVE  \/ channels[s] = {} /\ ~detach[s]
                      \/ \E c \in Call : Closing(c, s)'
    BY DEF ClosedInv
  <2>1. ASSUME NEW c \in Call, Closing(c, s)
        PROVE  Closing(c, s)'
    <3>1. call'[c] = call[c]
      BY <2>1
    <3> QED
      BY <2>1, <3>1 DEF Closing
  <2> QED
    BY <2>1 DEF SessionInv, ClosedInv
<1>3. SubscribedIsAttached'
  BY DEF SessionInv, SubscribedIsAttached
<1> QED
  BY <1>1, <1>2, <1>3 DEF SessionInv

\* What is claimed of the sessions survives every step.
LEMMA StepSession ==
  ASSUME TypeOK, LinkInv, SessionInv, [Next]_vars
  PROVE  SessionInv'
<1>1. ASSUME NEW s \in Session, NEW ch \in Channel, Subscribe(s, ch)
      PROVE  SessionInv'
  <2>1. /\ ~closed[s] /\ UNCHANGED <<closed, detach, call, failed, lost>>
        /\ \A q \in Session \ {s} : channels'[q] = channels[q] /\ attaching'[q] = attaching[q]
        /\ detach[s] \/ attaching'[s] # "no"
    BY <1>1 DEF Subscribe, Listen, Set, history, TypeOK
  <2>2. MarkInv'
    BY <2>1 DEF SessionInv, MarkInv, Closing
  <2>3. ClosedInv'
    BY <2>1 DEF SessionInv, ClosedInv, Closing
  <2>4. SubscribedIsAttached'
    BY <2>1 DEF SessionInv, SubscribedIsAttached
  <2> QED
    BY <2>2, <2>3, <2>4 DEF SessionInv
<1>2. ASSUME NEW s \in Session, Connected(s)
      PROVE  SessionInv'
  <2>1. /\ UNCHANGED <<channels, closed, call, failed, lost>>
        /\ \A q \in Session \ {s} : detach'[q] = detach[q] /\ attaching'[q] = attaching[q]
        /\ closed[s] => detach'[s] = detach[s]
        /\ ~closed[s] => detach'[s]
    BY <1>2 DEF Connected, Set, session, history, TypeOK
  <2>2. MarkInv'
    BY <2>1 DEF SessionInv, MarkInv, Closing
  <2>3. ClosedInv'
    BY <2>1 DEF SessionInv, ClosedInv, Closing
  <2>4. SubscribedIsAttached'
    BY <2>1 DEF SessionInv, SubscribedIsAttached
  <2> QED
    BY <2>2, <2>3, <2>4 DEF SessionInv
<1>3. ASSUME NEW s \in Session, ConnectFails(s)
      PROVE  SessionInv'
  <2>1. /\ UNCHANGED <<channels, closed, detach, call, failed>>
        /\ lost'[s] # 0
        /\ \A q \in Session \ {s} : attaching'[q] = attaching[q] /\ lost'[q] = lost[q]
    BY <1>3 DEF ConnectFails, Set, session, TypeOK
  <2>2. MarkInv' /\ ClosedInv'
    BY <2>1 DEF SessionInv, MarkInv, Closing, ClosedInv
  <2>3. SubscribedIsAttached'
    BY <2>1 DEF SessionInv, SubscribedIsAttached
  <2> QED
    BY <2>2, <2>3 DEF SessionInv
<1>4. ASSUME NEW c \in Call, NEW s \in Session, NEW ch \in Channel, Unsubscribe(c, s, ch)
      PROVE  SessionInv'
  <2>1. /\ LeaveOrEnd(c, s, "unsubscribe", channels[s] \cap {ch})
        /\ call[c] = None /\ UNCHANGED <<closed, attaching, failed, lost>>
    BY <1>4 DEF Unsubscribe, history
  <2>2. \A q \in Session : channels'[q] \subseteq channels[q]
    BY <1>4 DEF Unsubscribe, TypeOK
  <2>3. "unsubscribe" \in Ops /\ channels[s] \cap {ch} \in SUBSET Channel
        /\ closed' \in [Session -> BOOLEAN]
    BY <2>1 DEF Ops, TypeOK
  <2> QED
    BY <2>1, <2>2, <2>3, SessionEnd
<1>5. ASSUME NEW c \in Call, NEW s \in Session, NEW ch \in Channel, Leave(c, s, ch)
      PROVE  SessionInv'
  <2>1. /\ LeaveOrEnd(c, s, "leave", {ch})
        /\ call[c] = None /\ UNCHANGED <<channels, closed, attaching, failed, lost>>
    BY <1>5 DEF Leave, history
  <2>2. "leave" \in Ops /\ {ch} \in SUBSET Channel /\ closed' \in [Session -> BOOLEAN]
    BY <2>1 DEF Ops, TypeOK
  <2> QED
    BY <2>1, <2>2, SessionEnd
<1>6. ASSUME NEW c \in Call, NEW s \in Session, Close(c, s)
      PROVE  SessionInv'
  <2>1. /\ LeaveOrEnd(c, s, "close", members[s]) /\ call[c] = None
        /\ channels' = ChannelsAfter(s, "close", members[s])
        /\ closed' = [closed EXCEPT ![s] = TRUE]
        /\ UNCHANGED <<attaching, failed, lost>>
    BY <1>6 DEF Close, Set
  <2>2. \A q \in Session : channels'[q] \subseteq channels[q]
    BY <2>1 DEF ChannelsAfter, Set, TypeOK
  <2>3. /\ "close" \in Ops /\ members[s] \in SUBSET Channel
        /\ closed' \in [Session -> BOOLEAN] /\ closed'[s]
        /\ \A q \in Session \ {s} : closed'[q] = closed[q]
    BY <2>1 DEF Ops, TypeOK
  <2> QED
    BY <2>1, <2>2, <2>3, SessionEnd
<1>7. ASSUME NEW c \in Call, Got(c) \/ Left(c)
      PROVE  SessionInv'
  <2> DEFINE s == call[c].session
             op == call[c].op
             S == call[c].rest
  <2>1. call[c] # None /\ s \in Session /\ op \in Ops /\ S \in SUBSET Channel
    BY <1>7, PendingCall DEF Got, Left
  <2>2. CASE Got(c) /\ call[c].listed
    <3>1. call' = [call EXCEPT ![c].at = "hdel"] /\ UNCHANGED <<channels, closed, detach, attaching, failed, lost>>
      BY <2>2 DEF Got, session, link, history
    <3>2. call[c] \in Pending /\ call'[c] = [call[c] EXCEPT !.at = "hdel"]
      BY <2>1, <3>1 DEF TypeOK
    <3>3. /\ call'[c].at = "hdel" /\ call'[c].op = op /\ call'[c].session = s
          /\ call'[c] \in Pending
      BY <3>2 DEF Pending
    <3>4. \A d \in Call \ {c} : call'[d] = call[d]
      BY <3>1 DEF TypeOK
    <3>5. \A d \in Call, q \in Session : Closing(d, q)' <=> Closing(d, q)
      BY <2>1, <3>3, <3>4, ChangeFeedAssumption DEF Closing
    <3>6. MarkInv'
      BY <3>1, <3>3, <3>4, <3>5 DEF SessionInv, MarkInv
    <3>7. ClosedInv' /\ SubscribedIsAttached'
      BY <3>1, <3>5 DEF SessionInv, ClosedInv, SubscribedIsAttached
    <3> QED
      BY <3>6, <3>7 DEF SessionInv
  <2>3. CASE Left(c) \/ ~call[c].listed
    <3>1. /\ channels' = ChannelsAfter(s, op, S)
          /\ LeaveOrEnd(c, s, op, S)
          /\ UNCHANGED <<closed, attaching, failed, lost>>
      BY <1>7, <2>3 DEF Got, Left, history
    <3>2. \A q \in Session : channels'[q] \subseteq channels[q]
      BY <3>1 DEF ChannelsAfter, Set, TypeOK
    <3>3. op = "close" => closed'[s]
      BY <2>1, <3>1 DEF SessionInv, MarkInv, Closing
    <3>4. closed' \in [Session -> BOOLEAN]
      BY <3>1 DEF TypeOK
    <3> HIDE DEF s, op, S
    <3>5. call[c].session = s /\ call[c].op = op
      BY DEF s, op
    <3> QED
      BY <2>1, <3>1, <3>2, <3>3, <3>4, <3>5, SessionEnd
  <2> QED
    BY <1>7, <2>2, <2>3
<1>8. ASSUME NEW c \in Call, NEW s \in Session, NEW ch \in Channel, Join(c, s, ch)
      PROVE  SessionInv'
  <2>1. /\ call[c] = None /\ call'[c].op = "join"
        /\ \A d \in Call \ {c} : call'[d] = call[d]
        /\ UNCHANGED <<channels, closed, detach, attaching, failed, lost>>
    BY <1>8 DEF Join, Set, session, link, history, TypeOK
  <2>2. \A d \in Call, q \in Session : Closing(d, q)' <=> Closing(d, q)
    BY <2>1 DEF Closing
  <2>3. MarkInv'
    BY <2>1, <2>2 DEF SessionInv, MarkInv
  <2>4. ClosedInv' /\ SubscribedIsAttached'
    BY <2>1, <2>2 DEF SessionInv, ClosedInv, SubscribedIsAttached
  <2> QED
    BY <2>3, <2>4 DEF SessionInv
<1>9. ASSUME NEW c \in Call, Joined(c)
      PROVE  SessionInv'
  <2>1. /\ call[c] # None /\ call[c].at = "hset"
        /\ call' = [call EXCEPT ![c] = None]
        /\ UNCHANGED <<channels, closed, detach, attaching, failed, lost>>
    BY <1>9 DEF Joined, Set, link, history
  <2>2. call[c].op # "close"
    BY <2>1 DEF SessionInv, MarkInv
  <2>3. call'[c] = None /\ \A d \in Call \ {c} : call'[d] = call[d]
    BY <2>1 DEF TypeOK
  <2>4. \A s \in Session : ~Closing(c, s)
    BY <2>2 DEF Closing
  <2> QED
    BY <2>1, <2>3, <2>4, SessionKept
<1>10. ASSUME NEW c \in Call, CallFails(c)
       PROVE  SessionInv'
  <2>1. /\ call' = [call EXCEPT ![c] = None]
        /\ UNCHANGED <<channels, closed, detach, attaching>>
        /\ failed' = failed \cup {<<call[c].session, call[c].op>>} /\ UNCHANGED lost
    BY <1>10 DEF CallFails, Set, session, link
  <2>2. call'[c] = None /\ \A d \in Call \ {c} : call'[d] = call[d]
    BY <2>1 DEF TypeOK
  <2>3. \A s \in Session : Closing(c, s) => <<s, "close">> \in failed'
    BY <2>1 DEF Closing
  <2> QED
    BY <2>1, <2>2, <2>3, SessionKept
<1>11. ASSUME NEW s \in Session, Refresh(s) \/ \E ch \in Channel : Expire(s, ch)
       PROVE  SessionInv'
  <2>1. UNCHANGED <<channels, closed, detach, attaching, failed, lost, call>>
    BY <1>11 DEF Refresh, Expire, session, link, history
  <2> QED
    BY <2>1, SessionKept
<1>12. CASE UNCHANGED vars
  <2>1. UNCHANGED <<channels, closed, detach, attaching, failed, lost, call>>
    BY <1>12 DEF vars, session, link, history
  <2> QED
    BY <2>1, SessionKept
<1> QED
  BY <1>1, <1>2, <1>3, <1>4, <1>5, <1>6, <1>7, <1>8, <1>9, <1>10, <1>11, <1>12
     DEF Next, CallReturns

-----------------------------------------------------------------------------
\* A call that leaves its next channel, or ends, keeps every entry carried.
LEMMA EntryEnd ==
  ASSUME TypeOK, EntryInv, NEW c \in Call, NEW s \in Session, NEW op \in Ops,
         NEW S \in SUBSET Channel, LeaveOrEnd(c, s, op, S), UNCHANGED failed,
         \A q \in Session : present'[q] \subseteq present[q],
         \A ch \in present'[s] : ~Carries(c, s, ch),
         call[c] = None \/ call[c].session = s
  PROVE  EntryInv'
<1> SUFFICES ASSUME NEW q \in Session, Untroubled(q), NEW ch \in present'[q]
             PROVE  ch \in members'[q] \/ \E d \in Call : Carries(d, q, ch)'
  BY DEF EntryInv, Untroubled
<1>0. ch \in present[q] /\ ch \in Channel
  BY DEF TypeOK
<1>1. \A d \in Call \ {c} : call'[d] = call[d]
  BY DEF LeaveOrEnd, Set, TypeOK
<1>2. CASE ch \in members[q] /\ ch \notin members'[q]
  <2>1. S \cap members[s] # {}
    BY <1>2 DEF LeaveOrEnd
  <2>2. PICK g \in S \cap members[s] :
           /\ members' = [members EXCEPT ![s] = @ \ {g}]
           /\ call' = Set(call, c,
                [session |-> s, op |-> op, at |-> "hget", channel |-> g,
                 listed |-> g \in present[s], rest |-> S \ {g}])
    BY <2>1 DEF LeaveOrEnd
  <2>3. q = s /\ g = ch
    BY <1>2, <2>2 DEF TypeOK
  <2>4. call'[c] = [session |-> s, op |-> op, at |-> "hget", channel |-> ch,
                    listed |-> TRUE, rest |-> S \ {ch}]
    BY <1>0, <2>2, <2>3 DEF Set, TypeOK
  <2>5. call'[c] \in Pending
    BY <1>0, <2>4 DEF Pending
  <2>6. call'[c] # None
    BY <2>5, ChangeFeedAssumption
  <2>7. /\ call'[c].session = q /\ call'[c].channel = ch
        /\ call'[c].at = "hget" /\ call'[c].listed
    BY <2>3, <2>4
  <2>8. Carries(c, q, ch)'
    BY <2>6, <2>7 DEF Carries
  <2> QED
    BY <2>8
<1>3. CASE ch \notin members[q]
  <2>1. PICK d \in Call : Carries(d, q, ch)
    BY <1>0, <1>3 DEF EntryInv
  <2>2. d # c
    BY <1>0, <2>1 DEF Carries
  <2> QED
    BY <1>1, <2>1, <2>2 DEF Carries
<1> QED
  BY <1>2, <1>3

\* A call that leaves its next channel, or ends, brings no member or timer back.
LEMMA GoneEnd ==
  ASSUME TypeOK, HandleInv, NEW c \in Call, NEW s \in Session, NEW op \in Ops,
         NEW S \in SUBSET Channel, LeaveOrEnd(c, s, op, S), NEW q \in Session,
         \A d \in Call : ~Joining(d, q),
         \/ q = s /\ op = "close" /\ members[q] \subseteq S
         \/ members[q] = {} /\ ~refresh[q]
         \/ \E d \in Call \ {c} : Closing(d, q) /\ members[q] \subseteq call[d].rest
         \/ <<q, "close">> \in failed
  PROVE  /\ \A d \in Call : ~Joining(d, q)'
         /\ <<q, "close">> \notin failed => Gone(q)'
<1>1. \A d \in Call \ {c} : call'[d] = call[d]
  BY DEF LeaveOrEnd, Set, TypeOK
<1>2. members'[q] \subseteq members[q] /\ (~refresh[q] => ~refresh'[q])
  <2>1. CASE S \cap members[s] # {}
    <3>1. UNCHANGED refresh /\ \E g \in Channel : members' = [members EXCEPT ![s] = @ \ {g}]
      BY <2>1 DEF LeaveOrEnd, TypeOK
    <3> QED
      BY <3>1 DEF TypeOK
  <2>2. CASE S \cap members[s] = {}
    <3>1. UNCHANGED members /\ (Release(s) \/ UNCHANGED refresh)
      BY <2>2 DEF LeaveOrEnd
    <3>2. Release(s) => refresh' = [refresh EXCEPT ![s] = FALSE]
      BY DEF Release, Set
    <3>3. refresh \in [Session -> BOOLEAN]
      BY DEF TypeOK
    <3>4. ~refresh[q] => ~refresh'[q]
      BY <3>1, <3>2, <3>3
    <3> QED
      BY <3>1, <3>4
  <2> QED
    BY <2>1, <2>2
<1>3. CASE S \cap members[s] # {}
  <2>1. PICK g \in S \cap members[s] :
           /\ members' = [members EXCEPT ![s] = @ \ {g}]
           /\ call' = Set(call, c,
                [session |-> s, op |-> op, at |-> "hget", channel |-> g,
                 listed |-> g \in present[s], rest |-> S \ {g}])
    BY <1>3 DEF LeaveOrEnd
  <2>2. call'[c] = [session |-> s, op |-> op, at |-> "hget", channel |-> g,
                    listed |-> g \in present[s], rest |-> S \ {g}]
    BY <2>1 DEF Set, TypeOK
  <2>3. call'[c] \in Pending
    BY <2>2 DEF Pending
  <2>4. call'[c] # None /\ ~Joining(c, q)'
    <3>1. call'[c] # None
      BY <2>3, ChangeFeedAssumption
    <3>2. call'[c].at = "hget"
      BY <2>2
    <3> QED
      BY <3>1, <3>2 DEF Joining
  <2>5. \A d \in Call : ~Joining(d, q)'
    BY <1>1, <2>4 DEF Joining
  <2>6. CASE q = s /\ op = "close" /\ members[q] \subseteq S
    <3>1. call'[c].session = q /\ call'[c].op = "close" /\ call'[c].rest = S \ {g}
      BY <2>2, <2>6
    <3>2. members'[q] = members[q] \ {g}
      BY <2>1, <2>6 DEF TypeOK
    <3>3. Closing(c, q)' /\ members'[q] \subseteq call'[c].rest
      BY <2>4, <2>6, <3>1, <3>2 DEF Closing
    <3> QED
      BY <2>5, <3>3 DEF Gone
  <2>7. CASE members[q] = {} /\ ~refresh[q]
    BY <1>2, <2>5, <2>7 DEF Gone
  <2>8. CASE \E d \in Call \ {c} : Closing(d, q) /\ members[q] \subseteq call[d].rest
    BY <1>1, <1>2, <2>5, <2>8 DEF Closing, Gone
  <2>9. CASE <<q, "close">> \in failed
    BY <2>5, <2>9
  <2> QED
    BY <2>6, <2>7, <2>8, <2>9
<1>4. CASE S \cap members[s] = {}
  <2>1. call'[c] = None /\ (op = "close" => ~refresh'[s])
    BY <1>4 DEF LeaveOrEnd, Release, Set, TypeOK
  <2>2. \A d \in Call : ~Joining(d, q)'
    BY <1>1, <2>1 DEF Joining
  <2>3. CASE q = s /\ op = "close" /\ members[q] \subseteq S
    BY <1>2, <1>4, <2>1, <2>2, <2>3 DEF Gone
  <2>4. CASE members[q] = {} /\ ~refresh[q]
    BY <1>2, <2>2, <2>4 DEF Gone
  <2>5. CASE \E d \in Call \ {c} : Closing(d, q) /\ members[q] \subseteq call[d].rest
    BY <1>1, <1>2, <2>2, <2>5 DEF Closing, Gone
  <2>6. CASE <<q, "close">> \in failed
    BY <2>2, <2>6
  <2> QED
    BY <2>3, <2>4, <2>5, <2>6
<1> QED
  BY <1>3, <1>4

\* The same for a call already at it, and for one that begins.
LEMMA PresenceEnd ==
  ASSUME TypeOK, HandleInv, PresenceInv, NEW c \in Call, NEW s \in Session, NEW op \in Ops,
         NEW S \in SUBSET Channel, LeaveOrEnd(c, s, op, S),
         UNCHANGED <<closed, overtaken, present, failed>>,
         \/ call[c] = None
         \/ /\ call[c].session = s /\ call[c].op = op /\ call[c].rest = S
            /\ \A ch \in Channel : ~Carries(c, s, ch)
  PROVE  PresenceInv'
<1>1. \A ch \in Channel : ~Carries(c, s, ch)
  BY DEF Carries
<1>2. EntryInv'
  <2>1. \A q \in Session : present'[q] \subseteq present[q]
    OBVIOUS
  <2>2. \A ch \in present'[s] : ~Carries(c, s, ch)
    BY <1>1 DEF TypeOK
  <2> QED
    BY <2>1, <2>2, EntryEnd DEF PresenceInv
<1>3. GoneInv'
  <2> SUFFICES ASSUME NEW q \in Session \ overtaken, closed[q]
               PROVE  /\ \A d \in Call : ~Joining(d, q)'
                      /\ <<q, "close">> \notin failed => Gone(q)'
    BY DEF GoneInv
  <2>1. /\ \A d \in Call : ~Joining(d, q)
        /\ <<q, "close">> \notin failed => Gone(q)
    BY DEF PresenceInv, GoneInv
  <2>2. Closing(c, q) /\ members[q] \subseteq call[c].rest =>
          q = s /\ op = "close" /\ members[q] \subseteq S
    BY DEF Closing
  <2> QED
    BY <2>1, <2>2, GoneEnd DEF Gone
<1> QED
  BY <1>2, <1>3 DEF PresenceInv

\* A step that changes no call, member, timer or mark, and lists only members.
LEMMA PresenceKept ==
  ASSUME TypeOK, PresenceInv, UNCHANGED <<members, refresh, closed, overtaken, call, failed>>,
         \A s \in Session : present'[s] \subseteq present[s] \cup members[s]
  PROVE  PresenceInv'
<1>1. EntryInv'
  BY DEF PresenceInv, EntryInv, Untroubled, Carries
<1>2. GoneInv'
  BY DEF PresenceInv, GoneInv, Gone, Joining, Closing
<1> QED
  BY <1>1, <1>2 DEF PresenceInv

\* What is claimed of presence survives every step.
LEMMA StepPresence ==
  ASSUME TypeOK, HandleInv, PresenceInv, SessionInv, [Next]_vars
  PROVE  PresenceInv'
<1>1. ASSUME NEW s \in Session,
             \/ \E ch \in Channel : Subscribe(s, ch) \/ Expire(s, ch)
             \/ Connected(s) \/ Refresh(s)
      PROVE  PresenceInv'
  <2>1. /\ UNCHANGED <<members, refresh, closed, overtaken, call, failed>>
        /\ \A q \in Session : present'[q] \subseteq present[q] \cup members[q]
    BY <1>1 DEF Subscribe, Expire, Connected, Refresh, session, history, TypeOK
  <2> QED
    BY <2>1, PresenceKept
<1>2. ASSUME NEW s \in Session, ConnectFails(s)
      PROVE  PresenceInv'
  <2>1. UNCHANGED <<members, refresh, closed, overtaken, call, failed, present>>
    BY <1>2 DEF ConnectFails, session
  <2> QED
    BY <2>1, PresenceKept
<1>3. ASSUME NEW c \in Call, NEW s \in Session, NEW ch \in Channel, Unsubscribe(c, s, ch)
      PROVE  PresenceInv'
  <2>1. /\ LeaveOrEnd(c, s, "unsubscribe", channels[s] \cap {ch}) /\ call[c] = None
        /\ UNCHANGED <<closed, overtaken, present, failed>>
    BY <1>3 DEF Unsubscribe, history
  <2>2. "unsubscribe" \in Ops /\ channels[s] \cap {ch} \in SUBSET Channel
    BY DEF Ops
  <2> QED
    BY <2>1, <2>2, PresenceEnd
<1>4. ASSUME NEW c \in Call, NEW s \in Session, NEW ch \in Channel, Leave(c, s, ch)
      PROVE  PresenceInv'
  <2>1. /\ LeaveOrEnd(c, s, "leave", {ch}) /\ call[c] = None
        /\ UNCHANGED <<closed, overtaken, present, failed>>
    BY <1>4 DEF Leave, history
  <2>2. "leave" \in Ops /\ {ch} \in SUBSET Channel
    BY DEF Ops
  <2> QED
    BY <2>1, <2>2, PresenceEnd
<1>5. ASSUME NEW c \in Call, NEW s \in Session, Close(c, s)
      PROVE  PresenceInv'
  <2>1. /\ LeaveOrEnd(c, s, "close", members[s]) /\ call[c] = None
        /\ closed' = [closed EXCEPT ![s] = TRUE]
        /\ overtaken' = overtaken \cup {q \in {s} : \E d \in Call : Joining(d, q)}
        /\ UNCHANGED <<present, failed>>
    BY <1>5 DEF Close, Set
  <2>2. "close" \in Ops /\ members[s] \in SUBSET Channel
    BY DEF Ops, TypeOK
  <2>3. EntryInv'
    BY <2>1, <2>2, EntryEnd DEF Carries, PresenceInv
  <2>4. GoneInv'
    <3> SUFFICES ASSUME NEW q \in Session \ overtaken', closed'[q]
                 PROVE  /\ \A d \in Call : ~Joining(d, q)'
                        /\ <<q, "close">> \notin failed => Gone(q)'
      BY <2>1 DEF GoneInv
    <3>1. q \notin overtaken
      BY <2>1
    <3>2. CASE q = s
      <4>1. \A d \in Call : ~Joining(d, q)
        BY <2>1, <3>2
      <4> QED
        BY <2>1, <2>2, <3>2, <4>1, GoneEnd
    <3>3. CASE q # s
      <4>1. closed[q]
        BY <2>1, <3>3 DEF TypeOK
      <4>2. /\ \A d \in Call : ~Joining(d, q)
            /\ <<q, "close">> \notin failed => Gone(q)
        BY <3>1, <4>1 DEF PresenceInv, GoneInv
      <4>3. ~Closing(c, q)
        BY <2>1 DEF Closing
      <4> QED
        BY <2>1, <2>2, <4>2, <4>3, GoneEnd DEF Gone
    <3> QED
      BY <3>2, <3>3
  <2> QED
    BY <2>3, <2>4 DEF PresenceInv
<1>6. ASSUME NEW c \in Call, Got(c) \/ Left(c)
      PROVE  PresenceInv'
  <2>1. /\ call[c] # None /\ call[c].session \in Session /\ call[c].op \in Ops
        /\ call[c].channel \in Channel /\ call[c].rest \in SUBSET Channel
        /\ call[c] \in Pending
    BY <1>6, PendingCall DEF Got, Left, TypeOK
  <2>2. CASE Got(c) /\ call[c].listed
    <3> DEFINE s == call[c].session
    <3>1. /\ call[c].at = "hget" /\ call' = [call EXCEPT ![c].at = "hdel"]
          /\ present' = [present EXCEPT ![s] = @ \ {call[c].channel}]
          /\ UNCHANGED <<members, refresh, closed, overtaken, failed>>
      BY <2>2 DEF Got, session, history
    <3>2. /\ call'[c].at = "hdel" /\ call'[c].op = call[c].op /\ call'[c].session = s
          /\ call'[c].rest = call[c].rest /\ call'[c] \in Pending
      BY <2>1, <3>1 DEF Pending, TypeOK
    <3>3. \A d \in Call \ {c} : call'[d] = call[d]
      BY <3>1 DEF TypeOK
    <3>4. /\ \A d \in Call, q \in Session : (Joining(d, q)' <=> Joining(d, q))
                                         /\ (Closing(d, q)' <=> Closing(d, q))
          /\ \A d \in Call : call'[d].rest = call[d].rest
      BY <2>1, <3>1, <3>2, <3>3, ChangeFeedAssumption DEF Joining, Closing
    <3>5. GoneInv'
      BY <3>1, <3>4 DEF PresenceInv, GoneInv, Gone
    <3>6. EntryInv'
      <4> SUFFICES ASSUME NEW q \in Session, Untroubled(q), NEW ch \in present'[q]
                   PROVE  ch \in members[q] \/ \E d \in Call : Carries(d, q, ch)'
        BY <3>1 DEF EntryInv, Untroubled
      <4>1. ch \in present[q] /\ ~(q = s /\ ch = call[c].channel)
        BY <3>1 DEF TypeOK
      <4>2. ~Carries(c, q, ch)
        BY <4>1 DEF Carries
      <4> QED
        BY <3>3, <4>1, <4>2 DEF PresenceInv, EntryInv, Carries
    <3> QED
      BY <3>5, <3>6 DEF PresenceInv
  <2>3. CASE Left(c) \/ ~call[c].listed
    <3>1. /\ LeaveOrEnd(c, call[c].session, call[c].op, call[c].rest)
          /\ UNCHANGED <<closed, overtaken, present, failed>>
      BY <1>6, <2>3 DEF Got, Left, history
    <3>2. \A ch \in Channel : ~Carries(c, call[c].session, ch)
      BY <1>6, <2>3 DEF Got, Left, Carries
    <3> QED
      BY <2>1, <3>1, <3>2, PresenceEnd
  <2> QED
    BY <1>6, <2>2, <2>3
<1>7. ASSUME NEW c \in Call, NEW s \in Session, NEW ch \in Channel, Join(c, s, ch)
      PROVE  PresenceInv'
  <2>1. /\ ~closed[s] /\ call[c] = None
        /\ present' = [present EXCEPT ![s] = @ \cup {ch}]
        /\ call'[c] = [session |-> s, op |-> "join", at |-> "hset", channel |-> ch,
                       listed |-> FALSE, rest |-> {}]
        /\ \A d \in Call \ {c} : call'[d] = call[d]
        /\ UNCHANGED <<members, refresh, closed, overtaken, failed>>
    BY <1>7 DEF Join, Set, session, history, TypeOK
  <2>2. call'[c] \in Pending
    BY <2>1 DEF Pending, Ops
  <2>3. Carries(c, s, ch)'
    <3>1. call'[c] # None
      BY <2>2, ChangeFeedAssumption
    <3>2. call'[c].session = s /\ call'[c].channel = ch /\ call'[c].at = "hset"
      BY <2>1
    <3> QED
      BY <3>1, <3>2 DEF Carries
  <2>4. EntryInv'
    <3> SUFFICES ASSUME NEW q \in Session, Untroubled(q), NEW g \in present'[q]
                 PROVE  g \in members[q] \/ \E d \in Call : Carries(d, q, g)'
      BY <2>1 DEF EntryInv, Untroubled
    <3>1. g \in present[q] \/ (q = s /\ g = ch)
      BY <2>1 DEF TypeOK
    <3>2. \A d \in Call : Carries(d, q, g) => d # c
      BY <2>1 DEF Carries
    <3> QED
      BY <2>1, <2>3, <3>1, <3>2 DEF PresenceInv, EntryInv, Carries
  <2>5. GoneInv'
    <3> SUFFICES ASSUME NEW q \in Session \ overtaken, closed[q]
                 PROVE  /\ \A d \in Call : ~Joining(d, q)'
                        /\ <<q, "close">> \notin failed => Gone(q)'
      BY <2>1 DEF GoneInv
    <3>1. q # s /\ ~Joining(c, q)'
      BY <2>1 DEF Joining
    <3>2. \A d \in Call : Closing(d, q) => d # c
      BY <2>1 DEF Closing
    <3> QED
      BY <2>1, <3>1, <3>2 DEF PresenceInv, GoneInv, Gone, Joining, Closing
  <2> QED
    BY <2>4, <2>5 DEF PresenceInv
<1>8. ASSUME NEW c \in Call, Joined(c)
      PROVE  PresenceInv'
  <2> DEFINE s == call[c].session
  <2>1. /\ call[c] # None /\ call[c].at = "hset" /\ s \in Session
        /\ members' = [members EXCEPT ![s] = @ \cup {call[c].channel}]
        /\ refresh' = [refresh EXCEPT ![s] = TRUE]
        /\ call'[c] = None /\ \A d \in Call \ {c} : call'[d] = call[d]
        /\ UNCHANGED <<closed, overtaken, present, failed>>
    BY <1>8, PendingCall DEF Joined, Set, history, TypeOK
  <2>2. \A q \in Session : /\ members[q] \subseteq members'[q]
                         /\ q # s => members'[q] = members[q] /\ refresh'[q] = refresh[q]
    BY <2>1 DEF TypeOK
  <2>3. EntryInv'
    <3> SUFFICES ASSUME NEW q \in Session, Untroubled(q), NEW ch \in present[q]
                 PROVE  ch \in members'[q] \/ \E d \in Call : Carries(d, q, ch)'
      BY <2>1 DEF EntryInv, Untroubled
    <3>1. Carries(c, q, ch) => ch \in members'[q]
      BY <2>1 DEF Carries, TypeOK
    <3> QED
      BY <2>1, <2>2, <3>1 DEF PresenceInv, EntryInv, Carries
  <2>4. closed[s] => s \in overtaken
    BY <2>1 DEF PresenceInv, GoneInv, Joining
  <2>5. GoneInv'
    <3> SUFFICES ASSUME NEW q \in Session \ overtaken, closed[q]
                 PROVE  /\ \A d \in Call : ~Joining(d, q)'
                        /\ <<q, "close">> \notin failed => Gone(q)'
      BY <2>1 DEF GoneInv
    <3>0. q # s
      BY <2>4
    <3>1. members'[q] = members[q] /\ refresh'[q] = refresh[q]
      BY <2>1, <3>0 DEF TypeOK
    <3>2. \A d \in Call : Closing(d, q) => d # c
      BY <2>1, <3>0 DEF Closing
    <3> QED
      BY <2>1, <3>1, <3>2 DEF PresenceInv, GoneInv, Gone, Joining, Closing
  <2> QED
    BY <2>3, <2>5 DEF PresenceInv
<1>9. ASSUME NEW c \in Call, CallFails(c)
      PROVE  PresenceInv'
  <2> DEFINE s == call[c].session
  <2>1. /\ call[c] # None /\ s \in Session /\ call[c].op \in Ops
        /\ \A q \in Session \ {s} : present'[q] = present[q]
        /\ failed' = failed \cup {<<s, call[c].op>>}
        /\ call'[c] = None /\ \A d \in Call \ {c} : call'[d] = call[d]
        /\ UNCHANGED <<members, refresh, closed, overtaken>>
    BY <1>9, PendingCall DEF CallFails, Set, session, TypeOK
  <2>2. EntryInv'
    <3> SUFFICES ASSUME NEW q \in Session, Untroubled(q)', NEW ch \in present'[q]
                 PROVE  ch \in members[q] \/ \E d \in Call : Carries(d, q, ch)'
      BY <2>1 DEF EntryInv
    <3>1. q # s /\ Untroubled(q)
      BY <2>1 DEF Untroubled
    <3>2. \A d \in Call : Carries(d, q, ch) => d # c
      BY <3>1 DEF Carries
    <3> QED
      BY <2>1, <3>1, <3>2 DEF PresenceInv, EntryInv, Carries
  <2>3. GoneInv'
    <3> SUFFICES ASSUME NEW q \in Session \ overtaken, closed[q]
                 PROVE  /\ \A d \in Call : ~Joining(d, q)'
                        /\ <<q, "close">> \notin failed' => Gone(q)'
      BY <2>1 DEF GoneInv
    <3>1. <<q, "close">> \notin failed' => \A d \in Call : Closing(d, q) => d # c
      BY <2>1 DEF Closing
    <3> QED
      BY <2>1, <3>1 DEF PresenceInv, GoneInv, Gone, Joining, Closing
  <2> QED
    BY <2>2, <2>3 DEF PresenceInv
<1>10. CASE UNCHANGED vars
  <2>1. UNCHANGED <<members, refresh, closed, overtaken, call, failed, present>>
    BY <1>10 DEF vars, session, history
  <2> QED
    BY <2>1, PresenceKept
<1> QED
  BY <1>1, <1>2, <1>3, <1>4, <1>5, <1>6, <1>7, <1>8, <1>9, <1>10 DEF Next, CallReturns

-----------------------------------------------------------------------------
\* The invariant the others follow from.
THEOREM Invariance == Spec => []IInv
<1>1. IInv /\ [Next]_vars => IInv'
  BY StepType, StepLink, StepSession, StepPresence DEF IInv, LinkInv
<1> QED
  BY InitInv, <1>1, PTL DEF Spec

\* Every variable of the change feed keeps its type; a session never leaves
\* listeners it is not among.
THEOREM TypeCorrect == Spec => []TypeOK
<1>1. IInv => TypeOK
  BY DEF IInv
<1> QED
  BY Invariance, <1>1, PTL

\* However the calls of a session overlap, and whatever Redis rejects, it listens
\* once, and exactly while it has the handle to stop by or is about to get it,
\* but for one listener more per SUBSCRIBE that was rejected; and the process is
\* subscribed to the tenant's topic exactly while somebody listens, and none was.
THEOREM ListensExactly == Spec => []ListenersExact
<1>1. IInv => ListenersExact
  BY DEF IInv, LinkInv, ListenersExact
<1> QED
  BY Invariance, <1>1, PTL

\* No unsubscribe that awaited, or failed, detaches a session that subscribed
\* meanwhile.
THEOREM SubscribedHears == Spec => []SubscribedIsAttached
<1>1. IInv => SubscribedIsAttached
  BY DEF IInv, SessionInv
<1> QED
  BY Invariance, <1>1, PTL

\* A closed session that awaits nothing, and whose close() did not fail, has no
\* handle, no channel and no listener but what rejected SUBSCRIBEs left; unless
\* its close overtook a join, no member or timer; and if no call of it failed at
\* all, no presence entry.
THEOREM ClosedLetsGo == Spec => []CloseLetsGo
<1>1. IInv => CloseLetsGo
  <2> SUFFICES ASSUME IInv, NEW s \in Session, closed[s], Quiet(s), <<s, "close">> \notin failed
               PROVE  /\ listeners[s] = lost[s] /\ ~detach[s] /\ channels[s] = {}
                      /\ s \notin overtaken =>
                           /\ members[s] = {} /\ ~refresh[s]
                           /\ (\A op \in Ops : <<s, op>> \notin failed) => present[s] = {}
    BY DEF CloseLetsGo
  <2>1. attaching[s] = "no" /\ \A c \in Call : ~Closing(c, s)
    BY DEF Quiet, Closing
  <2>2. channels[s] = {} /\ ~detach[s]
    BY <2>1 DEF IInv, SessionInv, ClosedInv
  <2>3. listeners[s] = lost[s]
    BY <2>1, <2>2 DEF IInv, LinkInv, OneListener, TypeOK
  <2>4. s \notin overtaken => members[s] = {} /\ ~refresh[s]
    BY <2>1 DEF IInv, PresenceInv, GoneInv, Gone
  <2>5. Untroubled(s) => \A ch \in present[s] : ch \in members[s]
    BY DEF IInv, PresenceInv, EntryInv, Carries, Quiet
  <2> QED
    BY <2>2, <2>3, <2>4, <2>5 DEF Untroubled
<1> QED
  BY Invariance, <1>1, PTL

\* Between calls, a session is listed as present nowhere but where it is a member:
\* however its joins, leaves, refreshes and expiries overlap, no entry of a session
\* that awaits nothing outlives its membership, unless a call of it failed.
ListedIsMember ==
  \A s \in Session : Quiet(s) /\ Untroubled(s) => present[s] \subseteq members[s]

THEOREM ListingsOwned == Spec => []ListedIsMember
<1>1. IInv => ListedIsMember
  BY DEF IInv, PresenceInv, EntryInv, Carries, Quiet, ListedIsMember
<1> QED
  BY Invariance, <1>1, PTL
=============================================================================
