----------------------------- MODULE ChangeFeed -----------------------------
(***************************************************************************)
(* The change feed's connections of one tenant in one process:             *)
(* ChangeFeedSession (change-feed.hub.ts) over RedisChangeFeedBackend      *)
(* (redis-change-feed.backend.ts).  A session has channels, presence in    *)
(* some of them, and one listener on the tenant's Redis topic while it has *)
(* channels.                                                               *)
(*                                                                         *)
(* The calls of one connection overlap: each runs until it awaits Redis,   *)
(* and then goes on with whatever the others left.  Commands of one Redis  *)
(* connection take effect in the order they are sent, so a command is part *)
(* of the step that sends it and the await is for its reply.  A call names *)
(* one channel.                                                            *)
(***************************************************************************)
EXTENDS Naturals

CONSTANTS Session, Channel,
          Call,       \* the calls that may be awaiting at the same time
          None,       \* no call
          MaxFaults   \* bound: Redis commands that reject

VARIABLES
  channels,   \* this.channels
  members,    \* the keys of this.presenceMembers
  refresh,    \* is the presence timer running?
  closed,     \* this.isClosed
  detach,     \* is this.detach set?
  attaching,  \* this.attaching: "no", or whether it awaits a SUBSCRIBE
  listeners,  \* how many times each session is in the tenant's listeners
  topic,      \* is the process subscribed to the tenant's topic?
  present,    \* the presence hash: the channels each session is listed in
  call,       \* the calls that await Redis
  overtaken,  \* history: the sessions closed while a join of theirs awaited its HSET
  failed,     \* history: which kinds of calls of each session were rejected
  lost,       \* history: how many SUBSCRIBEs of each session were rejected
  faults      \* bound counter

session == <<channels, members, refresh, closed>>
link == <<detach, attaching, listeners, topic>>
history == <<overtaken, failed, lost>>
vars == <<session, link, present, call, history, faults>>

Ops == {"join", "leave", "unsubscribe", "close"}

\* A call awaiting Redis: on behalf of which session, for which channel, with
\* what reply to come, and which channels close() has yet to leave.
Pending == [session : Session, op : Ops, at : {"hset", "hget", "hdel"}, channel : Channel,
            listed : BOOLEAN, rest : SUBSET Channel]

ASSUME ChangeFeedAssumption == MaxFaults \in Nat /\ None \notin Pending

TypeOK ==
  /\ channels \in [Session -> SUBSET Channel]
  /\ members \in [Session -> SUBSET Channel]
  /\ refresh \in [Session -> BOOLEAN]
  /\ closed \in [Session -> BOOLEAN]
  /\ detach \in [Session -> BOOLEAN]
  /\ attaching \in [Session -> {"no", "subscribe", "joined"}]
  /\ listeners \in [Session -> Nat]
  /\ topic \in BOOLEAN
  /\ present \in [Session -> SUBSET Channel]
  /\ call \in [Call -> Pending \cup {None}]
  /\ overtaken \subseteq Session
  /\ failed \subseteq Session \X Ops
  /\ lost \in [Session -> Nat]
  /\ faults \in 0..MaxFaults

Init ==
  /\ channels = [s \in Session |-> {}]
  /\ members = [s \in Session |-> {}]
  /\ refresh = [s \in Session |-> FALSE]
  /\ closed = [s \in Session |-> FALSE]
  /\ detach = [s \in Session |-> FALSE]
  /\ attaching = [s \in Session |-> "no"]
  /\ listeners = [s \in Session |-> 0]
  /\ topic = FALSE
  /\ present = [s \in Session |-> {}]
  /\ call = [c \in Call |-> None]
  /\ overtaken = {} /\ failed = {}
  /\ lost = [s \in Session |-> 0]
  /\ faults = 0

-----------------------------------------------------------------------------
Set(f, s, x) == [f EXCEPT ![s] = x]

Fault ==
  /\ faults < MaxFaults
  /\ faults' = faults + 1

\* The tenant's listeners but one of session s.
OthersListen(s) == listeners[s] > 1 \/ \E q \in Session \ {s} : listeners[q] > 0

\* backend.subscribe(): the first listener of the tenant subscribes the topic.
Listen(s) ==
  /\ attaching' = Set(attaching, s,
       IF \E q \in Session : listeners[q] > 0 THEN "joined" ELSE "subscribe")
  /\ listeners' = [listeners EXCEPT ![s] = @ + 1]
  /\ topic' = (topic \/ \A q \in Session : listeners[q] = 0)

\* The function backend.subscribe() returns: the last listener unsubscribes.
Unlisten(s) ==
  /\ listeners' = [listeners EXCEPT ![s] = @ - 1]
  /\ topic' = (topic /\ OthersListen(s))

\* Mutant of Release: it does not look whether there is a handle.
ReleaseAlways(s) ==
  /\ refresh' = Set(refresh, s, FALSE)
  /\ detach' = Set(detach, s, FALSE)
  /\ Unlisten(s)

\* release()
Release(s) ==
  /\ refresh' = Set(refresh, s, FALSE)
  /\ detach' = Set(detach, s, FALSE)
  /\ IF detach[s] THEN Unlisten(s) ELSE UNCHANGED <<listeners, topic>>

\* Mutant of Subscribe: each call makes a connection of its own.
SubscribeTwice(s, ch) ==
  /\ ~closed[s]
  /\ channels' = [channels EXCEPT ![s] = @ \cup {ch}]
  /\ IF detach[s]
       THEN UNCHANGED <<attaching, listeners, topic>>
       ELSE Listen(s)
  /\ UNCHANGED <<members, refresh, closed, detach, present, call, history, faults>>

\* subscribe() to a channel the registry knows and the subject may view.  It
\* then awaits the attachment and does nothing more.
Subscribe(s, ch) ==
  /\ ~closed[s]
  /\ channels' = [channels EXCEPT ![s] = @ \cup {ch}]
  /\ IF detach[s] \/ attaching[s] # "no"
       THEN UNCHANGED <<attaching, listeners, topic>>
       ELSE Listen(s)
  /\ UNCHANGED <<members, refresh, closed, detach, present, call, history, faults>>

\* Mutant of Connected: the session is not looked at again.
ConnectedAnyway(s) ==
  /\ attaching[s] # "no"
  /\ attaching' = Set(attaching, s, "no")
  /\ detach' = Set(detach, s, TRUE)
  /\ UNCHANGED <<listeners, topic, session, present, call, history, faults>>

\* connect() after its await: a session that was closed meanwhile lets go.
Connected(s) ==
  /\ attaching[s] # "no"
  /\ attaching' = Set(attaching, s, "no")
  /\ IF closed[s]
       THEN Unlisten(s) /\ UNCHANGED detach
       ELSE detach' = Set(detach, s, TRUE) /\ UNCHANGED <<listeners, topic>>
  /\ UNCHANGED <<session, present, call, history, faults>>

\* The SUBSCRIBE rejects: the listener stays where backend.subscribe() put it.
ConnectFails(s) ==
  /\ attaching[s] = "subscribe"
  /\ attaching' = Set(attaching, s, "no")
  /\ topic' = FALSE
  /\ lost' = [lost EXCEPT ![s] = @ + 1]
  /\ Fault
  /\ UNCHANGED <<detach, listeners, session, present, call, overtaken, failed>>

-----------------------------------------------------------------------------
\* Mutant of LeaveOrEnd: what the session had joined meanwhile is not looked at.
LeaveOrEndEarly(c, s, op, S) ==
  IF S \cap members[s] # {}
    THEN /\ \E ch \in S \cap members[s] :
              /\ members' = [members EXCEPT ![s] = @ \ {ch}]
              /\ call' = Set(call, c,
                   [session |-> s, op |-> op, at |-> "hget", channel |-> ch,
                    listed |-> ch \in present[s], rest |-> S \ {ch}])
         /\ UNCHANGED <<refresh, detach, listeners, topic>>
    ELSE /\ call' = Set(call, c, None)
         /\ IF op = "close" \/ op = "unsubscribe"
              THEN Release(s)
              ELSE UNCHANGED <<refresh, detach, listeners, topic>>
         /\ UNCHANGED members

\* leavePresence() of the first channel of S with a member, up to its HGET; or,
\* when there is none, what the call does after its last leavePresence().
LeaveOrEnd(c, s, op, S) ==
  IF S \cap members[s] # {}
    THEN /\ \E ch \in S \cap members[s] :
              /\ members' = [members EXCEPT ![s] = @ \ {ch}]
              /\ call' = Set(call, c,
                   [session |-> s, op |-> op, at |-> "hget", channel |-> ch,
                    listed |-> ch \in present[s], rest |-> S \ {ch}])
         /\ UNCHANGED <<refresh, detach, listeners, topic>>
    ELSE /\ call' = Set(call, c, None)
         /\ IF op = "close" \/ (op = "unsubscribe" /\ channels'[s] = {})
              THEN Release(s)
              ELSE UNCHANGED <<refresh, detach, listeners, topic>>
         /\ UNCHANGED members

\* close() empties the channels once it has left them all.
ChannelsAfter(s, op, S) ==
  IF op = "close" /\ S \cap members[s] = {} THEN Set(channels, s, {}) ELSE channels

\* unsubscribe(): of a channel the session is not in, it only checks for the end.
Unsubscribe(c, s, ch) ==
  /\ ~closed[s] /\ call[c] = None
  /\ channels' = [channels EXCEPT ![s] = @ \ {ch}]
  /\ LeaveOrEnd(c, s, "unsubscribe", channels[s] \cap {ch})
  /\ UNCHANGED <<closed, attaching, present, history, faults>>

\* The client's own leavePresence().
Leave(c, s, ch) ==
  /\ ~closed[s] /\ call[c] = None
  /\ LeaveOrEnd(c, s, "leave", {ch})
  /\ UNCHANGED <<channels, closed, attaching, present, history, faults>>

\* A join of session s awaits its HSET.
Joining(c, s) == call[c] # None /\ call[c].session = s /\ call[c].at = "hset"

\* close(): the connection is gone, and makes no further call.
Close(c, s) ==
  /\ ~closed[s] /\ call[c] = None
  /\ closed' = Set(closed, s, TRUE)
  /\ overtaken' = overtaken \cup {q \in {s} : \E d \in Call : Joining(d, q)}
  /\ channels' = ChannelsAfter(s, "close", members[s])
  /\ LeaveOrEnd(c, s, "close", members[s])
  /\ UNCHANGED <<attaching, present, failed, lost, faults>>

\* The HGET is answered: no entry and nothing to delete, or HDEL.
Got(c) ==
  /\ call[c] # None /\ call[c].at = "hget"
  /\ LET s == call[c].session
     IN  IF call[c].listed
           THEN /\ call' = [call EXCEPT ![c].at = "hdel"]
                /\ present' = [present EXCEPT ![s] = @ \ {call[c].channel}]
                /\ UNCHANGED <<session, link>>
           ELSE /\ channels' = ChannelsAfter(s, call[c].op, call[c].rest)
                /\ LeaveOrEnd(c, s, call[c].op, call[c].rest)
                /\ UNCHANGED <<closed, attaching, present>>
  /\ UNCHANGED <<history, faults>>

\* The HDEL and the announcement are answered.
Left(c) ==
  /\ call[c] # None /\ call[c].at = "hdel"
  /\ LET s == call[c].session
     IN  /\ channels' = ChannelsAfter(s, call[c].op, call[c].rest)
         /\ LeaveOrEnd(c, s, call[c].op, call[c].rest)
  /\ UNCHANGED <<closed, attaching, present, history, faults>>

\* joinPresence() up to its HSET.
Join(c, s, ch) ==
  /\ ~closed[s] /\ call[c] = None
  /\ ch \in channels[s]
  /\ present' = [present EXCEPT ![s] = @ \cup {ch}]
  /\ call' = Set(call, c, [session |-> s, op |-> "join", at |-> "hset", channel |-> ch,
                           listed |-> FALSE, rest |-> {}])
  /\ UNCHANGED <<session, link, history, faults>>

\* joinPresence() after it: the member is recorded and its timer started.
Joined(c) ==
  /\ call[c] # None /\ call[c].at = "hset"
  /\ LET s == call[c].session
     IN  /\ members' = [members EXCEPT ![s] = @ \cup {call[c].channel}]
         /\ refresh' = Set(refresh, s, TRUE)
  /\ call' = Set(call, c, None)
  /\ UNCHANGED <<channels, closed, link, present, history, faults>>

\* The command a call awaits rejects, and the call with it.  Redis may have done
\* it or not: an HDEL it has not done leaves the entry (Expire is the same for an
\* HSET).
CallFails(c) ==
  /\ call[c] # None
  /\ \/ UNCHANGED present
     \/ /\ call[c].at = "hdel"
        /\ present' = [present EXCEPT ![call[c].session] = @ \cup {call[c].channel}]
  /\ call' = Set(call, c, None)
  /\ failed' = failed \cup {<<call[c].session, call[c].op>>}
  /\ Fault
  /\ UNCHANGED <<session, link, overtaken, lost>>

\* The timer writes every member again.
Refresh(s) ==
  /\ refresh[s]
  /\ present' = [present EXCEPT ![s] = @ \cup members[s]]
  /\ UNCHANGED <<session, link, call, history, faults>>

\* An entry nobody refreshes is past its 90 seconds, and no longer listed.
Expire(s, ch) ==
  /\ ch \in present[s]
  /\ ~(refresh[s] /\ ch \in members[s])
  /\ present' = [present EXCEPT ![s] = @ \ {ch}]
  /\ UNCHANGED <<session, link, call, history, faults>>

CallReturns(c) == Got(c) \/ Left(c) \/ Joined(c)

Next ==
  \/ \E s \in Session, ch \in Channel : Subscribe(s, ch) \/ Expire(s, ch)
  \/ \E s \in Session : Connected(s) \/ ConnectFails(s) \/ Refresh(s)
  \/ \E c \in Call, s \in Session, ch \in Channel :
       Unsubscribe(c, s, ch) \/ Leave(c, s, ch) \/ Join(c, s, ch)
  \/ \E c \in Call, s \in Session : Close(c, s)
  \/ \E c \in Call : CallReturns(c) \/ CallFails(c)

Spec == Init /\ [][Next]_vars

-----------------------------------------------------------------------------
\* Session s awaits nothing.
Quiet(s) ==
  attaching[s] = "no" /\ \A c \in Call : call[c] = None \/ call[c].session # s

\* However subscribe, unsubscribe, connect and close overlap, a session is
\* among the tenant's listeners at most once, and exactly while it has a
\* handle to leave them by, or is about to get one: no change is delivered
\* twice and no listener is lost.  A rejected SUBSCRIBE leaves one behind.
OneListener ==
  \A s \in Session :
    listeners[s] = lost[s] + (IF detach[s] \/ attaching[s] # "no" THEN 1 ELSE 0)

\* The process is subscribed to the tenant's topic exactly while somebody
\* listens; once a SUBSCRIBE was rejected, never again.
TopicFollowsListeners ==
  topic <=> (\E s \in Session : listeners[s] > 0) /\ (\A s \in Session : lost[s] = 0)

\* Between them: the tenant's listeners are neither lost, doubled nor deaf, but
\* by a rejected SUBSCRIBE.
ListenersExact == OneListener /\ TopicFollowsListeners

\* A live session with channels hears of their changes, or is about to: an
\* unsubscribe that ends, or fails, never detaches what a subscribe relies on.
SubscribedIsAttached ==
  \A s \in Session : ~closed[s] /\ channels[s] # {} /\ lost[s] = 0 =>
    detach[s] \/ attaching[s] # "no"

\* A disconnect lets go of everything, whatever was under way or failed before:
\* of a closed session that awaits nothing, and whose close() did not itself
\* fail, no listener, no handle and no channel stays behind; and no member or
\* timer either, nor an entry in the presence hash that no failed call left,
\* unless the close overtook a join (DisconnectLeaves).
CloseLetsGo ==
  \A s \in Session : closed[s] /\ Quiet(s) /\ <<s, "close">> \notin failed =>
    /\ listeners[s] = lost[s] /\ ~detach[s] /\ channels[s] = {}
    /\ s \notin overtaken =>
         /\ members[s] = {} /\ ~refresh[s]
         /\ (\A op \in Ops : <<s, op>> \notin failed) => present[s] = {}

\* guide change-feed.md:100: "A disconnect leaves every channel you had joined."
\* Once a closed session has no call under way, it is a member of no channel.
DisconnectLeaves ==
  \A s \in Session :
    closed[s] /\ Quiet(s) => members[s] = {}
=============================================================================
