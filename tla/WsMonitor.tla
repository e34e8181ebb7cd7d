------------------------------ MODULE WsMonitor ------------------------------
(***************************************************************************)
(* The websocket client of rivian_client: WebSocketMonitor (ws_monitor.py) *)
(* with the two functions of Rivian that drive it, _ws_connect and         *)
(* _start_subscription.  The processes are asyncio tasks: every call of    *)
(* _start_subscription (Calls), the monitor task, one receiver task per    *)
(* socket, and a task running close().  A step runs from one await that    *)
(* may suspend to the next.  The server and aiohttp's socket are external: *)
(* a socket is opened, acknowledges connection_init, and may close or fail *)
(* a send at any time.                                                     *)
(***************************************************************************)
EXTENDS Naturals, FiniteSets

CONSTANTS Calls,    \* calls of _start_subscription; a call is also its uuid
          Conns,    \* sockets; a closed one may stand for a later one
          Monitor,  \* the monitor task
          Done,     \* a task that has ended
          None

Procs == Calls \cup Conns \cup {Monitor}

ASSUME WsAssumption ==
    /\ IsFiniteSet(Calls)
    /\ Calls \cap Conns = {}
    /\ Monitor \notin Calls \cup Conns
    /\ None \notin Procs /\ Done \notin Procs \cup {None}

VARIABLES
    disconnect,  \* _disconnect
    ws,          \* _ws
    ack,         \* _connection_ack.is_set()
    subs,        \* the keys of _subscriptions
    recvTask,    \* the socket _receiver_task reads; Done, or None: there was none yet
    pc,          \* where each task is suspended
    loop,        \* per task: the progress of its _resubscribe_all iteration
    closing,     \* close() is between closing the socket and cancelling tasks
    sock,        \* external: the state of each socket
    live,        \* external: the subscriptions the server serves on each socket
    calm,        \* history: close() was never called and no two
                 \* new_connection calls were ever in flight together
    early        \* history: while calm, a subscribe preceded its socket's ack

vars == <<disconnect, ws, ack, subs, recvTask, pc, loop, closing, sock, live,
          calm, early>>

CallState == {"idle", "connecting", "init", "connected", "waitAck", "acked",
              "sending", "active", "lost", "none"}
MonState  == {"off", "watch", "connecting", "init", "connected", "backoff",
              "waitAck", "acked", "resubWait", "resubAcked", "resub"}
RecvState == {"off", "recv", "resubWait", "resubAcked", "resub"}
NoLoop    == [seen |-> {}, size |-> 0]

Open(c)   == c # None /\ sock[c] # "closed"
Connected == ~disconnect /\ Open(ws)

FlagsOK == /\ disconnect \in BOOLEAN /\ ack \in BOOLEAN /\ closing \in BOOLEAN
           /\ calm \in BOOLEAN /\ early \in BOOLEAN
RefsOK == /\ ws \in Conns \cup {None}
          /\ recvTask \in Conns \cup {Done, None}
          /\ subs \in SUBSET Calls
TasksOK == /\ pc \in [Procs -> CallState \cup MonState \cup RecvState]
           /\ \A p \in Calls : pc[p] \in CallState
           /\ \A c \in Conns : pc[c] \in RecvState
           /\ pc[Monitor] \in MonState
LoopsOK == loop \in [Conns \cup {Monitor} -> [seen : SUBSET Calls, size : Nat]]
SocketsOK == /\ sock \in [Conns -> {"closed", "init", "acked"}]
             /\ live \in [Conns -> SUBSET Calls]
TypeOK == FlagsOK /\ RefsOK /\ TasksOK /\ LoopsOK /\ SocketsOK

Init ==
    /\ disconnect = FALSE /\ ack = FALSE /\ closing = FALSE
    /\ calm = TRUE /\ early = FALSE
    /\ ws = None
    /\ recvTask = None
    /\ subs = {}
    /\ pc = [p \in Procs |-> IF p \in Calls THEN "idle" ELSE "off"]
    /\ loop = [q \in Conns \cup {Monitor} |-> NoLoop]
    /\ sock = [c \in Conns |-> "closed"]
    /\ live = [c \in Conns |-> {}]

Goto(p, s) == pc' = [pc EXCEPT ![p] = s]

-----------------------------------------------------------------------------
Cancelled == IF recvTask = None THEN None ELSE Done   \* cancel_task(_receiver_task)

(* new_connection: from its start to the await of ws_connect.              *)
NewConnection(p) ==
    /\ disconnect' = FALSE
    /\ pc' = [q \in Procs |-> IF q = p THEN "connecting"
                              ELSE IF q = recvTask THEN "off" ELSE pc[q]]
    /\ loop' = [q \in DOMAIN loop |-> IF q = recvTask THEN NoLoop ELSE loop[q]]
    /\ recvTask' = Cancelled
    /\ calm' = (calm /\ \A q \in Calls \cup {Monitor} :
                            pc[q] \notin {"connecting", "init"})
    /\ UNCHANGED <<ws, ack, subs, closing, sock, live, early>>

(* ws_connect returned: _ws is assigned and connection_init is written.    *)
(* A handshake takes network round trips: a task woken by the event runs   *)
(* before it, and a send suspended on a closed socket has ended before it. *)
Opened(p) ==
    /\ pc[p] = "connecting"
    /\ \A q \in Procs : /\ pc[q] \notin {"acked", "resubAcked"}
                        /\ Open(ws) \/ pc[q] \notin {"sending", "resub"}
    /\ \E c \in Conns :
          /\ c # ws /\ sock[c] = "closed" /\ pc[c] = "off"
          /\ ws' = c
          /\ sock' = [sock EXCEPT ![c] = "init"]
    /\ Goto(p, "init")
    /\ UNCHANGED <<disconnect, ack, subs, recvTask, loop, closing, live,
                   calm, early>>

(* A receiver task captures _ws when it starts.  On a closed socket its    *)
(* loop does not run and it only clears the event; on a socket that        *)
(* already has a reader aiohttp refuses the second receive().              *)
SpawnReceiver(pcs) ==
    \/ /\ Open(ws) /\ pc[ws] = "off"
       /\ recvTask' = ws
       /\ pc' = [pcs EXCEPT ![ws] = "recv"]
       /\ UNCHANGED ack
    \/ /\ Open(ws) /\ pc[ws] # "off"
       /\ recvTask' = Done
       /\ pc' = pcs
       /\ UNCHANGED ack
    \/ /\ ~Open(ws)
       /\ recvTask' = Done
       /\ pc' = pcs
       /\ ack' = FALSE

StartMonitor(pcs) == [pcs EXCEPT ![Monitor] = IF @ = "off" THEN "watch" ELSE @]

(* connection_init was sent: the receiver is created and, when a caller    *)
(* connects, the monitor is started if it is not running.                  *)
Ready(p) ==
    /\ pc[p] = "init"
    /\ LET pcs == [pc EXCEPT ![p] = "connected"]
       IN  SpawnReceiver(IF p = Monitor THEN pcs ELSE StartMonitor(pcs))
    /\ UNCHANGED <<disconnect, ws, subs, loop, closing, sock, live, calm, early>>

(* ws_connect or the send of connection_init raised.                       *)
ConnectFails(p) ==
    /\ pc[p] \in {"connecting", "init"}
    /\ Goto(p, IF p = Monitor THEN "connected" ELSE "idle")
    /\ UNCHANGED <<disconnect, ws, ack, subs, recvTask, loop, closing, sock,
                   live, calm, early>>

-----------------------------------------------------------------------------
CallBeginsAnew(p) ==   \* mutant: connects without looking at the socket
    pc[p] = "idle" /\ NewConnection(p)

(* _ws_connect, called by _start_subscription.                             *)
CallBegins(p) ==
    /\ pc[p] = "idle"
    /\ \/ ~Open(ws) /\ NewConnection(p)
       \/ /\ Open(ws)
          /\ pc' = StartMonitor([pc EXCEPT ![p] = "connected"])
          /\ UNCHANGED <<disconnect, ws, ack, subs, recvTask, loop, closing,
                         sock, live, calm, early>>

(* The write of one "subscribe" message for i on _ws; it raises when the   *)
(* socket is closed or its transport is lost.                              *)
Subscribe(i) ==
    /\ Open(ws)
    /\ live' = [live EXCEPT ![ws] = @ \cup {i}]
    /\ early' = (early \/ (calm /\ sock[ws] = "init"))

StartSubscriptionLate(p) ==   \* mutant: registers once the send is done
    \/ ~Connected /\ Goto(p, "none") /\ UNCHANGED <<subs, live, early>>
    \/ Connected /\ Goto(p, "sending") /\ Subscribe(p) /\ UNCHANGED subs

(* start_subscription: nothing is returned unless connected, else the id   *)
(* is registered and then sent.  A send that raises leaves the id in       *)
(* _subscriptions and no handle to remove it.                              *)
StartSubscription(p) ==
    \/ /\ ~Connected
       /\ Goto(p, "none")
       /\ UNCHANGED <<subs, live, early>>
    \/ /\ Connected
       /\ subs' = subs \cup {p}
       /\ \/ Goto(p, "sending") /\ Subscribe(p)
          \/ Goto(p, "lost") /\ UNCHANGED <<live, early>>

CallProceedsUnacked(p) ==   \* mutant: does not wait for the event
    /\ pc[p] \in {"acked", "connected"} /\ StartSubscription(p)
    /\ UNCHANGED <<disconnect, ws, ack, recvTask, loop, closing, sock, calm>>

CallProceeds(p) ==
    /\ \/ pc[p] = "acked" /\ StartSubscription(p)
       \/ pc[p] = "connected" /\ ack /\ StartSubscription(p)
       \/ /\ pc[p] = "connected" /\ ~ack
          /\ Goto(p, "waitAck")
          /\ UNCHANGED <<subs, live, early>>
    /\ UNCHANGED <<disconnect, ws, ack, recvTask, loop, closing, sock, calm>>

(* The wait for the event timed out, or the caller drops the None it got.  *)
CallGivesUp(p) ==
    /\ pc[p] \in {"waitAck", "none"}
    /\ Goto(p, "idle")
    /\ UNCHANGED <<disconnect, ws, ack, subs, recvTask, loop, closing, sock,
                   live, calm, early>>

CallSent(p) ==
    /\ pc[p] = "sending"
    /\ \E s \in {"active", "lost"} : Goto(p, s)
    /\ UNCHANGED <<disconnect, ws, ack, subs, recvTask, loop, closing, sock,
                   live, calm, early>>

UnsubscribeSilent(p) ==   \* mutant: "complete" is not written
    /\ pc[p] = "active"
    /\ subs' = subs \ {p}
    /\ Goto(p, "idle")
    /\ UNCHANGED <<disconnect, ws, ack, recvTask, loop, closing, sock, live, calm, early>>

(* The unsubscribe closure: the id is deleted and, in the same step,       *)
(* "complete" is written if connected (the write may fail).                *)
Unsubscribe(p) ==
    /\ pc[p] = "active"
    /\ subs' = subs \ {p}
    /\ live' = IF Connected THEN [live EXCEPT ![ws] = @ \ {p}] ELSE live
    /\ Goto(p, "idle")
    /\ UNCHANGED <<disconnect, ws, ack, recvTask, loop, closing, sock, calm, early>>

-----------------------------------------------------------------------------
(* _resubscribe_all, run by the monitor and by an idle receiver.  The loop *)
(* iterates the live dict with an await in its body: when the dict's size  *)
(* changed meanwhile, the next step raises RuntimeError, which ends the    *)
(* task, as does a send that raises.                                       *)
TaskDies(q) ==
    /\ Goto(q, "off")
    /\ recvTask' = IF q = recvTask THEN Done ELSE recvTask
    /\ loop' = [loop EXCEPT ![q] = NoLoop]
    /\ UNCHANGED <<ack, live, early>>

LoopEnds(q) ==
    /\ loop' = [loop EXCEPT ![q] = NoLoop]
    /\ \/ /\ q = Monitor
          /\ Goto(q, "watch")
          /\ UNCHANGED <<ack, recvTask>>
       \/ /\ q \in Conns /\ Open(q)
          /\ Goto(q, "recv")
          /\ UNCHANGED <<ack, recvTask>>
       \/ /\ q \in Conns /\ ~Open(q)
          /\ Goto(q, "off") /\ ack' = FALSE
          /\ recvTask' = IF q = recvTask THEN Done ELSE recvTask
    /\ UNCHANGED <<live, early>>

Iterate(q, seen, size) ==
    \/ Cardinality(subs) # size /\ TaskDies(q)
    \/ Cardinality(subs) = size /\ subs \subseteq seen /\ LoopEnds(q)
    \/ /\ Cardinality(subs) = size
       /\ \E i \in subs \ seen :
             \/ /\ Subscribe(i)
                /\ loop' = [loop EXCEPT ![q] = [seen |-> seen \cup {i}, size |-> size]]
                /\ Goto(q, "resub")
                /\ UNCHANGED <<ack, recvTask>>
             \/ TaskDies(q)

(* The wait for the event at the top of _resubscribe_all.                  *)
ResubscribeAll(q) ==
    \/ ack /\ Iterate(q, {}, Cardinality(subs))
    \/ ~ack /\ Goto(q, "resubWait") /\ UNCHANGED <<ack, recvTask, loop, live, early>>

ResubscribeStep(q) ==
    /\ \/ pc[q] = "resub" /\ Iterate(q, loop[q].seen, loop[q].size)
       \/ pc[q] = "resub" /\ TaskDies(q)              \* the send raised
       \/ pc[q] = "resubAcked" /\ Iterate(q, {}, Cardinality(subs))
       \/ pc[q] = "resubWait" /\ LoopEnds(q)          \* the wait timed out
    /\ UNCHANGED <<disconnect, ws, subs, closing, sock, calm>>

-----------------------------------------------------------------------------
(* _receiver, the task reading socket c.                                   *)
WokenAlike(s) == IF s \in {"waitAck", "resubWait"} THEN "acked" ELSE s  \* mutant
Woken(s) == IF s = "waitAck" THEN "acked"
            ELSE IF s = "resubWait" THEN "resubAcked" ELSE s

ReceiveAck(c) ==
    /\ pc[c] = "recv" /\ sock[c] = "init"
    /\ sock' = [sock EXCEPT ![c] = "acked"]
    /\ ack' = TRUE
    /\ pc' = [p \in Procs |-> Woken(pc[p])]
    /\ UNCHANGED <<disconnect, ws, subs, recvTask, loop, closing, live, calm, early>>

ReceiveCloseKeepsAck(c, rejected) ==   \* mutant: the event is not cleared
    /\ pc[c] = "recv" /\ Open(c)
    /\ sock' = [sock EXCEPT ![c] = "closed"]
    /\ live' = [live EXCEPT ![c] = {}]
    /\ disconnect' = (disconnect \/ rejected)
    /\ Goto(c, "off")
    /\ recvTask' = IF c = recvTask THEN Done ELSE recvTask
    /\ UNCHANGED <<ws, ack, subs, loop, closing, calm, early>>

(* The socket closes: the loop ends and the event, shared by every socket, *)
(* is cleared.  rejected: close code 4401 or 4403, or "Unauthenticated".   *)
ReceiveClose(c, rejected) ==
    /\ pc[c] = "recv" /\ Open(c)
    /\ sock' = [sock EXCEPT ![c] = "closed"]
    /\ live' = [live EXCEPT ![c] = {}]
    /\ disconnect' = (disconnect \/ rejected)
    /\ ack' = FALSE
    /\ Goto(c, "off")
    /\ recvTask' = IF c = recvTask THEN Done ELSE recvTask
    /\ UNCHANGED <<ws, subs, loop, closing, calm, early>>

(* 60 s without a message: resubscribe on the same connection.             *)
ReceiveIdle(c) ==
    /\ pc[c] = "recv"
    /\ ResubscribeAll(c)
    /\ UNCHANGED <<disconnect, ws, subs, closing, sock, calm>>

(* A callback or the JSON parser raised: the task ends, the event stays.   *)
ReceiverFails(c) ==
    /\ pc[c] = "recv"
    /\ TaskDies(c)
    /\ UNCHANGED <<disconnect, ws, subs, closing, sock, calm>>

(* External: the server's connection TTL ends a socket nobody refers to.   *)
AbandonedExpires(c) ==
    /\ c # ws /\ Open(c) /\ pc[c] = "off"
    /\ sock' = [sock EXCEPT ![c] = "closed"]
    /\ live' = [live EXCEPT ![c] = {}]
    /\ UNCHANGED <<disconnect, ws, ack, subs, recvTask, pc, loop, closing, calm,
                   early>>

-----------------------------------------------------------------------------
(* _monitor.  "watch" is the head of both loops.                           *)
MonitorStops ==
    /\ pc[Monitor] = "watch" /\ disconnect
    /\ Goto(Monitor, "off")
    /\ UNCHANGED <<disconnect, ws, ack, subs, recvTask, loop, closing, sock,
                   live, calm, early>>

(* A receiver that is done is replaced; one that was never created is not: *)
(* the first socket has none when the caller that opened it could not send *)
(* connection_init, and none yet while it is sending it.                   *)
MonitorRestartsReceiver ==
    /\ pc[Monitor] = "watch" /\ Connected
    /\ recvTask = Done
    /\ SpawnReceiver(pc)
    /\ UNCHANGED <<disconnect, ws, subs, loop, closing, sock, live, calm, early>>

MonitorReconnects ==
    /\ pc[Monitor] = "watch" /\ ~disconnect /\ ~Open(ws)
    /\ NewConnection(Monitor)

(* After new_connection: back off when no socket is open, else await the   *)
(* ack and resubscribe.                                                    *)
MonitorProceeds ==
    /\ \/ /\ pc[Monitor] = "connected" /\ ~Open(ws)
          /\ Goto(Monitor, "backoff")
          /\ UNCHANGED <<ack, recvTask, loop, live, early>>
       \/ /\ pc[Monitor] = "connected" /\ Open(ws) /\ ~ack
          /\ Goto(Monitor, "waitAck")
          /\ UNCHANGED <<ack, recvTask, loop, live, early>>
       \/ /\ pc[Monitor] = "connected" /\ Open(ws) /\ ack
          /\ ResubscribeAll(Monitor)
       \/ pc[Monitor] = "acked" /\ ResubscribeAll(Monitor)
    /\ UNCHANGED <<disconnect, ws, subs, closing, sock, calm>>

MonitorAwaitsAck == FALSE   \* mutant: the wait has no timeout

(* The ack did not come: stop or back off, without resubscribing.          *)
MonitorAckTimeout ==
    /\ pc[Monitor] = "waitAck"
    /\ Goto(Monitor, IF disconnect THEN "off" ELSE "backoff")
    /\ UNCHANGED <<disconnect, ws, ack, subs, recvTask, loop, closing, sock,
                   live, calm, early>>

MonitorBackoffEnds ==
    /\ pc[Monitor] = "backoff"
    /\ Goto(Monitor, "watch")
    /\ UNCHANGED <<disconnect, ws, ack, subs, recvTask, loop, closing, sock,
                   live, calm, early>>

-----------------------------------------------------------------------------
(* close(): _disconnect is set and the socket closed, which ends a         *)
(* receiver that is in receive(); the tasks are cancelled afterwards.      *)
CloseBegins ==
    /\ ~closing
    /\ closing' = TRUE /\ calm' = FALSE /\ disconnect' = TRUE
    /\ \/ /\ ~Open(ws)
          /\ UNCHANGED <<sock, live, pc, recvTask, ack>>
       \/ /\ Open(ws)
          /\ sock' = [sock EXCEPT ![ws] = "closed"]
          /\ live' = [live EXCEPT ![ws] = {}]
          /\ \/ /\ pc[ws] = "recv"
                /\ Goto(ws, "off") /\ ack' = FALSE
                /\ recvTask' = IF ws = recvTask THEN Done ELSE recvTask
             \/ pc[ws] # "recv" /\ UNCHANGED <<pc, recvTask, ack>>
    /\ UNCHANGED <<ws, subs, loop, early>>

CloseEnds ==
    /\ closing
    /\ closing' = FALSE
    /\ pc' = [p \in Procs |-> IF p \in {Monitor, recvTask} THEN "off" ELSE pc[p]]
    /\ loop' = [q \in DOMAIN loop |-> IF q \in {Monitor, recvTask} THEN NoLoop
                                      ELSE loop[q]]
    /\ recvTask' = Cancelled
    /\ UNCHANGED <<disconnect, ws, ack, subs, sock, live, calm,
                   early>>

-----------------------------------------------------------------------------
CallStep(p) == CallBegins(p) \/ CallProceeds(p) \/ CallGivesUp(p)
               \/ CallSent(p) \/ Unsubscribe(p)
ReceiverStep(c) == ReceiveAck(c) \/ ReceiveIdle(c) \/ ReceiverFails(c)
                   \/ \E rejected \in BOOLEAN : ReceiveClose(c, rejected)
MonitorStep == MonitorStops \/ MonitorRestartsReceiver \/ MonitorReconnects
               \/ MonitorProceeds \/ MonitorAckTimeout \/ MonitorBackoffEnds

Next ==
    \/ \E p \in Calls : CallStep(p)
    \/ \E p \in Calls \cup {Monitor} : Opened(p) \/ Ready(p) \/ ConnectFails(p)
    \/ \E c \in Conns : ReceiverStep(c) \/ AbandonedExpires(c)
    \/ \E q \in Conns \cup {Monitor} : ResubscribeStep(q)
    \/ MonitorStep
    \/ CloseBegins \/ CloseEnds

Spec == Init /\ [][Next]_vars

(* asyncio resumes every runnable task and fires every timer; a server     *)
(* that is tried again and again accepts the monitor's connection in the   *)
(* end, and its TTL ends every socket but the current one.  Calls,         *)
(* messages, unsubscribes and close() are not promised.                    *)
Fairness ==
    /\ WF_vars(MonitorStep) /\ WF_vars(CloseEnds)
    /\ \A p \in Calls : WF_vars(CallProceeds(p)) /\ WF_vars(CallSent(p))
    /\ \A p \in Calls \cup {Monitor} :
          WF_vars(Ready(p)) /\ WF_vars(Opened(p) \/ ConnectFails(p))
    /\ \A q \in Conns \cup {Monitor} : WF_vars(ResubscribeStep(q))
    /\ SF_vars(Opened(Monitor))
    /\ \A c \in Conns : /\ WF_vars(AbandonedExpires(c))
                        /\ SF_vars(c # ws /\ ReceiveClose(c, FALSE))
FairSpec == Spec /\ Fairness

-----------------------------------------------------------------------------
(* Unless disconnected, the server serves on the current socket only ids   *)
(* that are still in _subscriptions: no unsubscribed feed is revived by a  *)
(* resubscription that was under way, nor by a reconnection.               *)
NoOrphanSubscription == Connected => live[ws] \subseteq subs

(* While calm only the current socket is open: a reconnection, by whoever, *)
(* abandons no open socket (new_connection never closes the one before).   *)
OneSocket == calm => \A c \in Conns : Open(c) => c = ws

(* While calm the one event, shared by all sockets and cleared only by a   *)
(* receiver that ends, speaks for the current socket.                      *)
FreshAck == calm /\ ack => Open(ws) /\ sock[ws] = "acked"

(* While calm no subscribe is written on a socket before its ack, which    *)
(* the server would answer with close code 4401.                           *)
AckBeforeSubscribe == ~early

(* A closed socket is replaced, unless the client was disconnected or the  *)
(* monitor task died: the monitor never waits for good.                    *)
Reconnects == (~Open(ws) /\ pc[Monitor] # "off")
                  ~> (Open(ws) \/ disconnect \/ pc[Monitor] = "off")

-----------------------------------------------------------------------------
(* The client implements the service that its users are modelled with: an  *)
(* id leaves both what is registered and what is served in the step of its *)
(* handle, comes into both only as a call's own, and no reconnection,      *)
(* resubscription or close() serves anything else.                         *)
Service == INSTANCE SubscriptionService WITH
               Ids <- Calls, owned <- subs,
               served <- IF Connected THEN live[ws] ELSE {}
ServiceSpec == Service!ServiceSpec

(* Until two attempts to connect overlap or close() is called, connections *)
(* follow one another: one open socket, whose ack the shared event tells,  *)
(* and no subscribe before it.                                             *)
CalmSafe ==
    /\ OneSocket
    /\ FreshAck
    /\ AckBeforeSubscribe
=============================================================================
