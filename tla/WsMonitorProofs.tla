--------------------------- MODULE WsMonitorProofs ---------------------------
(***************************************************************************)
(* Theorems about WsMonitor, for every set of calls and sockets.           *)
(***************************************************************************)
EXTENDS WsMonitor, FiniteSetTheorems, TLAPS

(* A set of calls is finite, so its size is a number.                      *)
LEMMA SubsSize ==
    ASSUME NEW S \in SUBSET Calls
    PROVE  Cardinality(S) \in Nat
  BY WsAssumption, FS_Subset, FS_CardinalityType DEF WsAssumption

(* Type correctness of the websocket client: in particular each task is    *)
(* only ever suspended where its own code awaits.                          *)
THEOREM TypeCorrect == Spec => []TypeOK
<1> USE WsAssumption DEF WsAssumption
<1>1. Init => TypeOK
  <2> SUFFICES ASSUME Init PROVE TypeOK
    OBVIOUS
  <2>1. FlagsOK /\ RefsOK
    BY DEF Init, FlagsOK, RefsOK
  <2>2. TasksOK
    BY DEF Init, TasksOK, Procs, CallState, MonState, RecvState
  <2>3. LoopsOK /\ SocketsOK
    BY DEF Init, LoopsOK, SocketsOK, NoLoop
  <2> QED
    BY <2>1, <2>2, <2>3 DEF TypeOK
<1>2. TypeOK /\ [Next]_vars => TypeOK'
  <2> SUFFICES ASSUME TypeOK, [Next]_vars
               PROVE  TypeOK'
    OBVIOUS
  <2> USE DEF TypeOK, FlagsOK, RefsOK, TasksOK, LoopsOK, SocketsOK, Procs,
              CallState, MonState, RecvState, NoLoop, Goto
  <2>1. ASSUME NEW p \in Calls, CallBegins(p) PROVE TypeOK'
    <3>1. CASE NewConnection(p)
      BY <2>1, <3>1 DEF CallBegins, NewConnection, Cancelled
    <3>2. CASE ~NewConnection(p)
      BY <2>1, <3>2 DEF CallBegins, StartMonitor
    <3> QED
      BY <3>1, <3>2
  <2>2. ASSUME NEW p \in Calls, CallProceeds(p) PROVE TypeOK'
    BY <2>2 DEF CallProceeds, StartSubscription, Subscribe, Connected, Open
  <2>3. ASSUME NEW p \in Calls, CallGivesUp(p) PROVE TypeOK'
    BY <2>3 DEF CallGivesUp
  <2>4. ASSUME NEW p \in Calls, CallSent(p) PROVE TypeOK'
    BY <2>4 DEF CallSent
  <2>5. ASSUME NEW p \in Calls, Unsubscribe(p) PROVE TypeOK'
    BY <2>5 DEF Unsubscribe, Connected, Open
  <2>6. ASSUME NEW p \in Calls \cup {Monitor}, Opened(p) PROVE TypeOK'
    BY <2>6 DEF Opened, Open
  <2>7. ASSUME NEW p \in Calls \cup {Monitor}, Ready(p) PROVE TypeOK'
    <3> DEFINE pcs == IF p = Monitor THEN [pc EXCEPT ![p] = "connected"]
                      ELSE StartMonitor([pc EXCEPT ![p] = "connected"])
    <3>1. /\ pcs \in [Procs -> CallState \cup MonState \cup RecvState]
          /\ \A r \in Calls : pcs[r] \in CallState
          /\ \A c \in Conns : pcs[c] \in RecvState
          /\ pcs[Monitor] \in MonState
      BY DEF StartMonitor
    <3>2. SpawnReceiver(pcs)
      BY <2>7 DEF Ready
    <3> HIDE DEF pcs
    <3>3. TasksOK'
      BY <3>1, <3>2 DEF SpawnReceiver, Open
    <3>4. (FlagsOK /\ RefsOK /\ LoopsOK /\ SocketsOK)'
      BY <2>7, <3>2 DEF Ready, SpawnReceiver, Open
    <3> QED
      BY <3>3, <3>4
  <2>8. ASSUME NEW p \in Calls \cup {Monitor}, ConnectFails(p) PROVE TypeOK'
    BY <2>8 DEF ConnectFails
  <2>9. ASSUME NEW q \in Conns \cup {Monitor}, NEW seen \in SUBSET Calls,
               NEW size \in Nat, Iterate(q, seen, size),
               UNCHANGED <<disconnect, ws, subs, closing, sock, calm>>
        PROVE  TypeOK'
    <3>1. CASE TaskDies(q)
      BY <2>9, <3>1 DEF TaskDies
    <3>2. CASE LoopEnds(q)
      <4>1. TasksOK'
        BY <3>2 DEF LoopEnds
      <4>2. FlagsOK' /\ RefsOK'
        BY <2>9, <3>2 DEF LoopEnds
      <4>3. LoopsOK' /\ SocketsOK'
        BY <2>9, <3>2 DEF LoopEnds
      <4> QED
        BY <4>1, <4>2, <4>3
    <3>3. ASSUME NEW i \in subs, Subscribe(i), Goto(q, "resub"),
                 loop' = [loop EXCEPT ![q] = [seen |-> seen \cup {i}, size |-> size]],
                 UNCHANGED <<ack, recvTask>>
          PROVE  TypeOK'
      <4>1. TasksOK'
        BY <3>3
      <4>2. FlagsOK' /\ RefsOK'
        BY <2>9, <3>3 DEF Subscribe
      <4>3. LoopsOK' /\ SocketsOK'
        BY <2>9, <3>3 DEF Subscribe, Open
      <4> QED
        BY <4>1, <4>2, <4>3
    <3> QED
      BY <2>9, <3>1, <3>2, <3>3 DEF Iterate
  <2>10. ASSUME NEW q \in Conns \cup {Monitor}, ResubscribeAll(q),
                UNCHANGED <<disconnect, ws, subs, closing, sock, calm>>
         PROVE  TypeOK'
    <3>1. CASE Iterate(q, {}, Cardinality(subs))
      BY <2>9, <2>10, <3>1, SubsSize
    <3>2. CASE ~Iterate(q, {}, Cardinality(subs))
      BY <2>10, <3>2 DEF ResubscribeAll
    <3> QED
      BY <3>1, <3>2
  <2>11. ASSUME NEW q \in Conns \cup {Monitor}, ResubscribeStep(q) PROVE TypeOK'
    <3>1. UNCHANGED <<disconnect, ws, subs, closing, sock, calm>>
      BY <2>11 DEF ResubscribeStep
    <3>2. CASE Iterate(q, loop[q].seen, loop[q].size)
      BY <2>9, <3>1, <3>2
    <3>3. CASE Iterate(q, {}, Cardinality(subs))
      BY <2>9, <3>1, <3>3, SubsSize
    <3>4. CASE TaskDies(q)
      BY <3>1, <3>4 DEF TaskDies
    <3>5. CASE LoopEnds(q)
      <4>1. TasksOK'
        BY <3>5 DEF LoopEnds
      <4>2. FlagsOK' /\ RefsOK'
        BY <3>1, <3>5 DEF LoopEnds
      <4>3. LoopsOK' /\ SocketsOK'
        BY <3>1, <3>5 DEF LoopEnds
      <4> QED
        BY <4>1, <4>2, <4>3
    <3> QED
      BY <2>11, <3>2, <3>3, <3>4, <3>5 DEF ResubscribeStep
  <2>12. ASSUME NEW c \in Conns, ReceiveAck(c) PROVE TypeOK'
    BY <2>12 DEF ReceiveAck, Woken
  <2>13. ASSUME NEW c \in Conns, ReceiveIdle(c) PROVE TypeOK'
    BY <2>10, <2>13 DEF ReceiveIdle
  <2>14. ASSUME NEW c \in Conns, ReceiverFails(c) PROVE TypeOK'
    BY <2>14 DEF ReceiverFails, TaskDies
  <2>15. ASSUME NEW c \in Conns, NEW rejected \in BOOLEAN,
                ReceiveClose(c, rejected)
         PROVE  TypeOK'
    BY <2>15 DEF ReceiveClose, Open
  <2>16. ASSUME NEW c \in Conns, AbandonedExpires(c) PROVE TypeOK'
    BY <2>16 DEF AbandonedExpires, Open
  <2>17. CASE MonitorStops \/ MonitorAckTimeout \/ MonitorBackoffEnds
    BY <2>17 DEF MonitorStops, MonitorAckTimeout, MonitorBackoffEnds
  <2>18. CASE MonitorRestartsReceiver
    BY <2>18 DEF MonitorRestartsReceiver, SpawnReceiver, Connected, Open
  <2>19. CASE MonitorReconnects
    BY <2>19 DEF MonitorReconnects, NewConnection, Cancelled
  <2>20. CASE MonitorProceeds
    <3>1. CASE ResubscribeAll(Monitor)
      BY <2>10, <2>20, <3>1 DEF MonitorProceeds
    <3>2. CASE ~ResubscribeAll(Monitor)
      BY <2>20, <3>2 DEF MonitorProceeds
    <3> QED
      BY <3>1, <3>2
  <2>21. CASE CloseBegins
    BY <2>21 DEF CloseBegins, Open
  <2>22. CASE CloseEnds
    BY <2>22 DEF CloseEnds, Cancelled
  <2>23. CASE UNCHANGED vars
    BY <2>23 DEF vars
  <2> QED
    BY <2>1, <2>2, <2>3, <2>4, <2>5, <2>6, <2>7, <2>8, <2>11, <2>12, <2>13,
       <2>14, <2>15, <2>16, <2>17, <2>18, <2>19, <2>20, <2>21, <2>22, <2>23
       DEF Next, CallStep, ReceiverStep, MonitorStep
<1>3. QED
  BY <1>1, <1>2, PTL DEF Spec

-----------------------------------------------------------------------------
(* A reconnection picks a closed socket, so NoOrphanSubscription is        *)
(* inductive once a closed socket serves nothing.                          *)
ClosedServesNothing == \A c \in Conns : sock[c] = "closed" => live[c] = {}
ServedInv == TypeOK /\ ClosedServesNothing /\ NoOrphanSubscription

LEMMA ServedInvariant == Spec => []ServedInv
<1> USE WsAssumption DEF WsAssumption
<1>1. Init => ClosedServesNothing /\ NoOrphanSubscription
  BY DEF Init, ClosedServesNothing, NoOrphanSubscription, Connected, Open
<1>2. ServedInv /\ [Next]_vars => (ClosedServesNothing /\ NoOrphanSubscription)'
  <2> SUFFICES ASSUME ServedInv, [Next]_vars
               PROVE  (ClosedServesNothing /\ NoOrphanSubscription)'
    OBVIOUS
  <2> DEFINE Goal == (ClosedServesNothing /\ NoOrphanSubscription)'
  <2> USE DEF ServedInv, TypeOK, FlagsOK, RefsOK, SocketsOK,
              ClosedServesNothing, NoOrphanSubscription, Connected, Open
  <2>1. ASSUME UNCHANGED <<disconnect, ws, subs, sock, live>> PROVE Goal
    BY <2>1
  <2>2. ASSUME ~Open(ws), UNCHANGED <<ws, subs, sock, live>> PROVE Goal
    BY <2>2
  <2>3. ASSUME NEW i \in Calls, Subscribe(i), i \in subs', subs \subseteq subs',
               UNCHANGED <<disconnect, ws, sock>>
        PROVE  Goal
    BY <2>3 DEF Subscribe
  <2>4. ASSUME NEW q \in Conns \cup {Monitor}, NEW seen, NEW size,
               Iterate(q, seen, size), UNCHANGED <<disconnect, ws, subs, sock>>
        PROVE  Goal
    <3>1. CASE UNCHANGED live
      BY <2>1, <2>4, <3>1
    <3>2. ASSUME NEW i \in subs, Subscribe(i) PROVE Goal
      BY <2>3, <2>4, <3>2
    <3> QED
      BY <2>4, <3>1, <3>2 DEF Iterate, TaskDies, LoopEnds
  <2>5. ASSUME NEW q \in Conns \cup {Monitor}, ResubscribeAll(q),
               UNCHANGED <<disconnect, ws, subs, sock>>
        PROVE  Goal
    BY <2>1, <2>4, <2>5 DEF ResubscribeAll
  <2>6. ASSUME NEW c \in Conns, sock' = [sock EXCEPT ![c] = "closed"],
               live' = [live EXCEPT ![c] = {}], UNCHANGED <<ws, subs>>,
               ~disconnect' => ~disconnect
        PROVE  Goal
    BY <2>6
  <2>7. ASSUME NEW p \in Calls, CallStep(p) PROVE Goal
    <3>1. CASE CallBegins(p)
      BY <2>1, <2>2, <3>1 DEF CallBegins, NewConnection
    <3>2. CASE CallProceeds(p)
      <4>1. CASE UNCHANGED <<subs, live>>
        BY <2>1, <3>2, <4>1 DEF CallProceeds
      <4>2. CASE Subscribe(p) /\ subs' = subs \cup {p}
        BY <2>3, <3>2, <4>2 DEF CallProceeds
      <4>3. CASE UNCHANGED live /\ subs' = subs \cup {p}
        BY <3>2, <4>3 DEF CallProceeds
      <4> QED
        BY <3>2, <4>1, <4>2, <4>3 DEF CallProceeds, StartSubscription
    <3>3. CASE CallGivesUp(p) \/ CallSent(p)
      BY <2>1, <3>3 DEF CallGivesUp, CallSent
    <3>4. CASE Unsubscribe(p)
      BY <3>4 DEF Unsubscribe
    <3> QED
      BY <2>7, <3>1, <3>2, <3>3, <3>4 DEF CallStep
  <2>8. ASSUME NEW p \in Calls \cup {Monitor}, Opened(p) PROVE Goal
    BY <2>8 DEF Opened
  <2>9. ASSUME NEW p \in Calls \cup {Monitor}, Ready(p) \/ ConnectFails(p)
        PROVE  Goal
    BY <2>1, <2>9 DEF Ready, ConnectFails
  <2>10. ASSUME NEW c \in Conns, ReceiverStep(c) \/ AbandonedExpires(c)
         PROVE  Goal
    <3>1. CASE ReceiveAck(c)
      BY <3>1 DEF ReceiveAck
    <3>2. CASE ReceiveIdle(c)
      BY <2>5, <3>2 DEF ReceiveIdle
    <3>3. CASE ReceiverFails(c)
      BY <2>1, <3>3 DEF ReceiverFails, TaskDies
    <3>4. ASSUME NEW rejected \in BOOLEAN, ReceiveClose(c, rejected) PROVE Goal
      BY <2>6, <3>4 DEF ReceiveClose
    <3>5. CASE AbandonedExpires(c)
      BY <2>6, <3>5 DEF AbandonedExpires
    <3> QED
      BY <2>10, <3>1, <3>2, <3>3, <3>4, <3>5 DEF ReceiverStep
  <2>11. ASSUME NEW q \in Conns \cup {Monitor}, ResubscribeStep(q) PROVE Goal
    BY <2>1, <2>4, <2>11 DEF ResubscribeStep, TaskDies, LoopEnds
  <2>12. CASE MonitorStep
    BY <2>1, <2>2, <2>5, <2>12
       DEF MonitorStep, MonitorStops, MonitorRestartsReceiver, MonitorReconnects,
           NewConnection, MonitorProceeds, MonitorAckTimeout, MonitorBackoffEnds
  <2>13. CASE CloseBegins
    BY <2>6, <2>13 DEF CloseBegins
  <2>14. CASE CloseEnds
    BY <2>1, <2>14 DEF CloseEnds
  <2>15. CASE UNCHANGED vars
    BY <2>1, <2>15 DEF vars
  <2> QED
    BY <2>7, <2>8, <2>9, <2>10, <2>11, <2>12, <2>13, <2>14, <2>15 DEF Next
<1>3. QED
  BY <1>1, <1>2, TypeCorrect, PTL DEF Spec, ServedInv

(* An unsubscribed id is never served on the current socket, whatever      *)
(* reconnections and resubscription loops are in progress.                 *)
THEOREM NoOrphan == Spec => []NoOrphanSubscription
  BY ServedInvariant, PTL DEF ServedInv

-----------------------------------------------------------------------------
(* The state while calm, in the parts its induction needs: one task at     *)
(* most awaits a handshake, and none does while a socket is open; a task   *)
(* woken by the event, or half way through a resubscription, finds either  *)
(* no open socket or an acknowledged one.                                  *)
Handshakes == {p \in Calls \cup {Monitor} : pc[p] = "connecting"}
Woke == {q \in Procs : pc[q] \in {"acked", "resubAcked", "resub"}}
OneHandshake == \A p, q \in Handshakes : p = q
HandshakeAlone == Handshakes # {} => ~Open(ws)
WokenFindsAck == Woke # {} => ~Open(ws) \/ sock[ws] = "acked"
CalmInv == /\ calm => OneHandshake /\ HandshakeAlone /\ WokenFindsAck
           /\ OneSocket /\ FreshAck /\ AckBeforeSubscribe

(* A step that opens and acknowledges no socket, starts no handshake, and  *)
(* wakes nobody but by an event that is set, keeps the invariant.          *)
LEMMA QuietStep ==
    ASSUME CalmInv, UNCHANGED <<ws, sock, calm, early>>, ack' => ack,
           Handshakes' \subseteq Handshakes, Woke' # {} => Woke # {} \/ ack
    PROVE  CalmInv'
  BY DEF CalmInv, OneHandshake, HandshakeAlone, WokenFindsAck, OneSocket,
         FreshAck, AckBeforeSubscribe, Open

(* Once the state is not calm, only the history of early matters.          *)
LEMMA NotCalmStep ==
    ASSUME CalmInv, ~calm', UNCHANGED early
    PROVE  CalmInv'
  BY DEF CalmInv, OneSocket, FreshAck, AckBeforeSubscribe

(* A subscribe written by a woken task, or while the event is set, goes to *)
(* an acknowledged socket.                                                 *)
LEMMA SubscribeIsLate ==
    ASSUME FlagsOK, CalmInv, NEW i, Subscribe(i), ack \/ Woke # {}
    PROVE  UNCHANGED early
<1>1. ~(calm /\ sock[ws] = "init")
  BY DEF CalmInv, WokenFindsAck, FreshAck, Subscribe, Open
<1>2. ~early' /\ ~early /\ early' \in BOOLEAN /\ early \in BOOLEAN
  BY <1>1 DEF CalmInv, AckBeforeSubscribe, Subscribe, FlagsOK
<1> QED
  BY <1>2

(* While close() was not called and connection attempts never overlapped,  *)
(* at most the current socket is open, the event speaks for it, and no     *)
(* subscribe precedes its ack.                                             *)
THEOREM CalmSafety == Spec => []CalmSafe
<1> USE WsAssumption DEF WsAssumption
<1>1. Init => CalmInv
  BY DEF Init, CalmInv, OneHandshake, HandshakeAlone, WokenFindsAck, OneSocket,
         FreshAck, AckBeforeSubscribe, Open, Procs, Handshakes, Woke
<1>2. TypeOK /\ CalmInv /\ [Next]_vars => CalmInv'
  <2> SUFFICES ASSUME TypeOK, CalmInv, [Next]_vars
               PROVE  CalmInv'
    OBVIOUS
  <2> USE DEF TypeOK, FlagsOK, RefsOK, TasksOK, SocketsOK, Procs, Handshakes, Woke,
              Goto
  <2>1. ASSUME NEW p \in Calls \cup {Monitor}, NewConnection(p), ~Open(ws)
        PROVE  CalmInv'
    <3>1. CASE ~calm'
      BY <2>1, <3>1, NotCalmStep DEF NewConnection
    <3>2. CASE calm'
      <4>1. calm /\ Handshakes = {} /\ Handshakes' = {p} /\ Woke' \subseteq Woke
        <5>1. calm /\ Handshakes = {}
          BY <2>1, <3>2 DEF NewConnection
        <5>2. pc'[p] = "connecting" /\ \A q \in Procs \ {p} : pc'[q] \in {"off", pc[q]}
          BY <2>1 DEF NewConnection
        <5>3. \A q \in Calls \cup {Monitor} : q # p => pc'[q] = pc[q]
          BY <2>1 DEF NewConnection
        <5> QED BY <5>1, <5>2, <5>3
      <4>2. UNCHANGED <<ws, sock, ack, early>>
        BY <2>1 DEF NewConnection
      <4> QED
        BY <2>1, <4>1, <4>2
           DEF CalmInv, OneHandshake, HandshakeAlone, WokenFindsAck, OneSocket,
               FreshAck, AckBeforeSubscribe, Open
    <3> QED
      BY <3>1, <3>2
  <2>2. ASSUME NEW p \in Calls \cup {Monitor}, Opened(p) PROVE CalmInv'
    <3>1. CASE ~calm
      BY <2>2, <3>1, NotCalmStep DEF Opened
    <3>2. CASE calm
      <4>1. PICK c \in Conns : /\ c # ws /\ sock[c] = "closed" /\ pc[c] = "off"
                               /\ ws' = c /\ sock' = [sock EXCEPT ![c] = "init"]
        BY <2>2 DEF Opened
      <4>2. p \in Handshakes /\ Handshakes' = Handshakes \ {p}
        BY <2>2 DEF Opened
      <4>3. Handshakes' = {} /\ ~Open(ws)
        BY <3>2, <4>2 DEF CalmInv, OneHandshake, HandshakeAlone
      <4>4. Woke' = {} /\ ~ack
        BY <2>2, <3>2, <4>3 DEF Opened, CalmInv, FreshAck
      <4>5. \A d \in Conns : ~Open(d)
        BY <3>2, <4>3 DEF CalmInv, OneSocket
      <4>6. UNCHANGED <<ack, calm, early>>
        BY <2>2 DEF Opened
      <4> QED
        BY <4>1, <4>3, <4>4, <4>5, <4>6
           DEF CalmInv, OneHandshake, HandshakeAlone, WokenFindsAck, OneSocket,
               FreshAck, AckBeforeSubscribe, Open
    <3> QED
      BY <3>1, <3>2
  <2>3. ASSUME NEW q \in Conns \cup {Monitor}, NEW seen, NEW size,
               Iterate(q, seen, size), ack \/ Woke # {}, UNCHANGED <<ws, sock, calm>>
        PROVE  CalmInv'
    <3>1. UNCHANGED early
      BY <2>3, SubscribeIsLate DEF Iterate, TaskDies, LoopEnds
    <3>2. ack' => ack
      BY <2>3 DEF Iterate, TaskDies, LoopEnds
    <3>3. Handshakes' \subseteq Handshakes
      BY <2>3 DEF Iterate, TaskDies, LoopEnds
    <3> QED
      BY <2>3, <3>1, <3>2, <3>3, QuietStep
  <2>4. ASSUME NEW q \in Conns \cup {Monitor}, ResubscribeAll(q),
               UNCHANGED <<ws, sock, calm>>
        PROVE  CalmInv'
    <3>1. CASE ack
      BY <2>3, <2>4, <3>1 DEF ResubscribeAll
    <3>2. CASE ~ack
      BY <2>4, <3>2, QuietStep DEF ResubscribeAll
    <3> QED
      BY <3>1, <3>2
  <2>5. ASSUME NEW p \in Calls, CallStep(p) PROVE CalmInv'
    <3>1. CASE CallBegins(p)
      <4>1. CASE ~Open(ws) /\ NewConnection(p)
        BY <2>1, <4>1
      <4>2. CASE ~(~Open(ws) /\ NewConnection(p))
        BY <3>1, <4>2, QuietStep DEF CallBegins, StartMonitor
      <4> QED
        BY <4>1, <4>2
    <3>2. CASE CallProceeds(p)
      <4>1. CASE pc[p] = "connected" /\ ~ack
        BY <3>2, <4>1, QuietStep DEF CallProceeds
      <4>2. CASE ack \/ pc[p] = "acked"
        <5>1. UNCHANGED early
          BY <3>2, <4>2, SubscribeIsLate DEF CallProceeds, StartSubscription
        <5> QED
          BY <3>2, <5>1, QuietStep DEF CallProceeds, StartSubscription
      <4> QED
        BY <3>2, <4>1, <4>2 DEF CallProceeds
    <3>3. CASE CallGivesUp(p)
      BY <3>3, QuietStep DEF CallGivesUp
    <3>4. CASE CallSent(p)
      BY <3>4, QuietStep DEF CallSent
    <3>5. CASE Unsubscribe(p)
      BY <3>5, QuietStep DEF Unsubscribe
    <3> QED
      BY <2>5, <3>1, <3>2, <3>3, <3>4, <3>5 DEF CallStep
  <2>6. ASSUME NEW p \in Calls \cup {Monitor}, Ready(p) PROVE CalmInv'
    BY <2>6, QuietStep DEF Ready, SpawnReceiver, StartMonitor
  <2>7. ASSUME NEW p \in Calls \cup {Monitor}, ConnectFails(p) PROVE CalmInv'
    BY <2>7, QuietStep DEF ConnectFails
  <2>8. ASSUME NEW c \in Conns, ReceiveAck(c) PROVE CalmInv'
    <3>1. CASE ~calm
      BY <2>8, <3>1, NotCalmStep DEF ReceiveAck
    <3>2. CASE calm
      <4>1. c = ws
        BY <2>8, <3>2 DEF ReceiveAck, CalmInv, OneSocket, Open
      <4>2. Handshakes' = Handshakes
        BY <2>8 DEF ReceiveAck, Woken
      <4> QED
        BY <2>8, <3>2, <4>1, <4>2
           DEF ReceiveAck, CalmInv, OneHandshake, HandshakeAlone, WokenFindsAck,
               OneSocket, FreshAck, AckBeforeSubscribe, Open
    <3> QED
      BY <3>1, <3>2
  <2>9. ASSUME NEW c \in Conns, NEW rejected \in BOOLEAN, ReceiveClose(c, rejected)
        PROVE  CalmInv'
    <3>1. CASE ~calm
      BY <2>9, <3>1, NotCalmStep DEF ReceiveClose
    <3>2. CASE calm
      <4>1. c = ws /\ ~Open(ws)'
        BY <2>9, <3>2 DEF ReceiveClose, CalmInv, OneSocket, Open
      <4>2. Handshakes' = Handshakes
        BY <2>9 DEF ReceiveClose
      <4> QED
        BY <2>9, <3>2, <4>1, <4>2
           DEF ReceiveClose, CalmInv, OneHandshake, HandshakeAlone, WokenFindsAck,
               OneSocket, FreshAck, AckBeforeSubscribe, Open
    <3> QED
      BY <3>1, <3>2
  <2>10. ASSUME NEW c \in Conns, ReceiveIdle(c) PROVE CalmInv'
    BY <2>4, <2>10 DEF ReceiveIdle
  <2>11. ASSUME NEW c \in Conns, ReceiverFails(c) PROVE CalmInv'
    BY <2>11, QuietStep DEF ReceiverFails, TaskDies
  <2>12. ASSUME NEW c \in Conns, AbandonedExpires(c) PROVE CalmInv'
    <3>1. ~calm
      BY <2>12 DEF AbandonedExpires, CalmInv, OneSocket
    <3> QED
      BY <2>12, <3>1, NotCalmStep DEF AbandonedExpires
  <2>13. ASSUME NEW q \in Conns \cup {Monitor}, ResubscribeStep(q) PROVE CalmInv'
    <3>1. CASE pc[q] \in {"resub", "resubAcked"} /\ ~TaskDies(q)
      BY <2>3, <2>13, <3>1 DEF ResubscribeStep
    <3>2. CASE TaskDies(q)
      BY <2>13, <3>2, QuietStep DEF ResubscribeStep, TaskDies
    <3>3. CASE LoopEnds(q)
      BY <2>13, <3>3, QuietStep DEF ResubscribeStep, LoopEnds
    <3> QED
      BY <2>13, <3>1, <3>2, <3>3 DEF ResubscribeStep
  <2>14. CASE MonitorStops \/ MonitorAckTimeout \/ MonitorBackoffEnds
    BY <2>14, QuietStep DEF MonitorStops, MonitorAckTimeout, MonitorBackoffEnds
  <2>15. CASE MonitorRestartsReceiver
    BY <2>15, QuietStep DEF MonitorRestartsReceiver, SpawnReceiver
  <2>16. CASE MonitorReconnects
    BY <2>1, <2>16 DEF MonitorReconnects
  <2>17. CASE MonitorProceeds
    <3>1. CASE ResubscribeAll(Monitor)
      BY <2>4, <2>17, <3>1 DEF MonitorProceeds
    <3>2. CASE ~ResubscribeAll(Monitor)
      BY <2>17, <3>2, QuietStep DEF MonitorProceeds
    <3> QED
      BY <3>1, <3>2
  <2>18. CASE CloseBegins
    BY <2>18, NotCalmStep DEF CloseBegins
  <2>19. CASE CloseEnds
    BY <2>19, QuietStep DEF CloseEnds
  <2>20. CASE UNCHANGED vars
    BY <2>20, QuietStep DEF vars
  <2> QED
    BY <2>2, <2>5, <2>6, <2>7, <2>8, <2>9, <2>10, <2>11, <2>12, <2>13, <2>14,
       <2>15, <2>16, <2>17, <2>18, <2>19, <2>20
       DEF Next, ReceiverStep, MonitorStep
<1>3. QED
  BY <1>1, <1>2, TypeCorrect, PTL DEF Spec, CalmInv, CalmSafe

-----------------------------------------------------------------------------
(* The refinement of SubscriptionService.  An id is registered exactly     *)
(* from its send to the call of its handle, which makes a registration new *)
(* and a handle's call the end of something registered.                    *)
RegisteredWhileHeld ==
    \A p \in Calls : p \in subs <=> pc[p] \in {"sending", "active", "lost"}

LEMMA Registered == Spec => []RegisteredWhileHeld
<1> USE WsAssumption DEF WsAssumption
<1>1. Init => RegisteredWhileHeld
  BY DEF Init, RegisteredWhileHeld, Procs
<1>2. TypeOK /\ RegisteredWhileHeld /\ [Next]_vars => RegisteredWhileHeld'
  <2> SUFFICES ASSUME TypeOK, RegisteredWhileHeld, [Next]_vars
               PROVE  RegisteredWhileHeld'
    OBVIOUS
  <2> USE DEF TypeOK, RefsOK, TasksOK, RegisteredWhileHeld, Procs, Goto
  <2>1. ASSUME UNCHANGED subs,
               \A p \in Calls : \/ pc'[p] = pc[p]
                                \/ {pc[p], pc'[p]} \subseteq {"sending", "active", "lost"}
                                \/ {pc[p], pc'[p]} \cap {"sending", "active", "lost"} = {}
        PROVE  RegisteredWhileHeld'
    BY <2>1
  <2>2. ASSUME NEW q \in Conns \cup {Monitor}, ResubscribeAll(q), UNCHANGED subs
        PROVE  RegisteredWhileHeld'
    BY <2>1, <2>2 DEF ResubscribeAll, Iterate, TaskDies, LoopEnds
  <2>3. ASSUME NEW p \in Calls, CallStep(p) PROVE RegisteredWhileHeld'
    <3>1. CASE CallBegins(p)
      BY <3>1, <2>1 DEF CallBegins, NewConnection, StartMonitor, RecvState
    <3>2. CASE CallProceeds(p)
      BY <3>2 DEF CallProceeds, StartSubscription
    <3>3. CASE CallGivesUp(p) \/ CallSent(p)
      BY <3>3, <2>1 DEF CallGivesUp, CallSent
    <3>4. CASE Unsubscribe(p)
      BY <3>4 DEF Unsubscribe
    <3> QED
      BY <2>3, <3>1, <3>2, <3>3, <3>4 DEF CallStep
  <2>4. ASSUME NEW p \in Calls \cup {Monitor}, Opened(p) \/ Ready(p) \/ ConnectFails(p)
        PROVE  RegisteredWhileHeld'
    <3>1. CASE Opened(p)
      BY <3>1, <2>1 DEF Opened
    <3>2. CASE Ready(p)
      BY <3>2, <2>1 DEF Ready, SpawnReceiver, StartMonitor, Open
    <3>3. CASE ConnectFails(p)
      BY <3>3, <2>1 DEF ConnectFails
    <3> QED
      BY <2>4, <3>1, <3>2, <3>3
  <2>5. ASSUME NEW c \in Conns, ReceiverStep(c) \/ AbandonedExpires(c)
        PROVE  RegisteredWhileHeld'
    <3>1. CASE ReceiveAck(c)
      BY <3>1, <2>1 DEF ReceiveAck, Woken
    <3>2. CASE ReceiveIdle(c)
      BY <3>2, <2>2 DEF ReceiveIdle
    <3>3. CASE ReceiverFails(c) \/ AbandonedExpires(c)
      BY <3>3, <2>1 DEF ReceiverFails, TaskDies, AbandonedExpires
    <3>4. ASSUME NEW rejected \in BOOLEAN, ReceiveClose(c, rejected)
          PROVE  RegisteredWhileHeld'
      BY <3>4, <2>1 DEF ReceiveClose
    <3> QED
      BY <2>5, <3>1, <3>2, <3>3, <3>4 DEF ReceiverStep
  <2>6. ASSUME NEW q \in Conns \cup {Monitor}, ResubscribeStep(q)
        PROVE  RegisteredWhileHeld'
    BY <2>6, <2>1 DEF ResubscribeStep, Iterate, TaskDies, LoopEnds
  <2>7. CASE MonitorStep
    BY <2>1, <2>2, <2>7
       DEF MonitorStep, MonitorStops, MonitorRestartsReceiver, MonitorReconnects,
           NewConnection, MonitorProceeds, MonitorAckTimeout, MonitorBackoffEnds,
           SpawnReceiver, Open, RecvState
  <2>8. CASE CloseBegins \/ CloseEnds
    BY <2>8, <2>1 DEF CloseBegins, CloseEnds, RecvState, Open
  <2>9. CASE UNCHANGED vars
    BY <2>9 DEF vars
  <2> QED
    BY <2>3, <2>4, <2>5, <2>6, <2>7, <2>8, <2>9 DEF Next
<1>3. QED
  BY <1>1, <1>2, TypeCorrect, PTL DEF Spec

Served == IF Connected THEN live[ws] ELSE {}

(* Every step of the client is a step of the service it stands for, or     *)
(* changes nothing that the service has.                                   *)
LEMMA ServiceStep ==
    ASSUME ServedInv, RegisteredWhileHeld, [Next]_vars
    PROVE  \/ \E i \in Calls : \/ /\ i \notin subs /\ subs' = subs \cup {i}
                                  /\ Served' \in {Served, Served \cup {i}}
                               \/ /\ i \in subs /\ subs' = subs \ {i}
                                  /\ Served' = Served \ {i}
                               \/ /\ i \in subs /\ Served' = Served \cup {i}
                                  /\ UNCHANGED subs
           \/ Served' = {} /\ UNCHANGED subs
           \/ UNCHANGED <<subs, Served>>
<1> USE WsAssumption DEF WsAssumption
<1> DEFINE Registers(i) == /\ i \notin subs /\ subs' = subs \cup {i}
                           /\ Served' \in {Served, Served \cup {i}}
           Drops(i) == i \in subs /\ subs' = subs \ {i} /\ Served' = Served \ {i}
           Serves(i) == i \in subs /\ Served' = Served \cup {i} /\ UNCHANGED subs
           Disconnects == Served' = {} /\ UNCHANGED subs
           Goal == \/ \E i \in Calls : Registers(i) \/ Drops(i) \/ Serves(i)
                   \/ Disconnects
                   \/ UNCHANGED <<subs, Served>>
<1> SUFFICES Goal
  OBVIOUS
<1> USE DEF ServedInv, TypeOK, FlagsOK, RefsOK, SocketsOK, ClosedServesNothing,
            NoOrphanSubscription, Connected, Open, Served
<1>1. ASSUME UNCHANGED <<disconnect, ws, subs, sock, live>> PROVE Goal
  BY <1>1
<1>2. ASSUME ~Open(ws), UNCHANGED <<ws, subs, sock, live>> PROVE Goal
  BY <1>2
<1>3. ASSUME NEW i \in subs, Subscribe(i), UNCHANGED <<disconnect, ws, subs, sock>>
      PROVE  Goal
  <2>1. Serves(i) \/ UNCHANGED <<subs, Served>>
    BY <1>3 DEF Subscribe
  <2> QED
    BY <2>1
<1>4. ASSUME NEW q \in Conns \cup {Monitor}, NEW seen, NEW size,
             Iterate(q, seen, size), UNCHANGED <<disconnect, ws, subs, sock>>
      PROVE  Goal
  <2>1. CASE UNCHANGED live
    BY <1>1, <1>4, <2>1
  <2>2. ASSUME NEW i \in subs, Subscribe(i) PROVE Goal
    BY <1>3, <1>4, <2>2
  <2> QED
    BY <1>4, <2>1, <2>2 DEF Iterate, TaskDies, LoopEnds
<1>5. ASSUME NEW q \in Conns \cup {Monitor}, ResubscribeAll(q),
             UNCHANGED <<disconnect, ws, subs, sock>>
      PROVE  Goal
  BY <1>1, <1>4, <1>5 DEF ResubscribeAll
<1>6. ASSUME NEW c \in Conns, sock' = [sock EXCEPT ![c] = "closed"],
             live' = [live EXCEPT ![c] = {}], UNCHANGED <<ws, subs>>,
             disconnect' \in {disconnect, TRUE}
      PROVE  Goal
  <2>1. Disconnects \/ UNCHANGED <<subs, Served>>
    BY <1>6
  <2> QED
    BY <2>1
<1>7. ASSUME NEW p \in Calls, CallStep(p) PROVE Goal
  <2>1. CASE CallBegins(p)
    BY <1>1, <1>2, <2>1 DEF CallBegins, NewConnection
  <2>2. CASE CallProceeds(p)
    <3>1. CASE UNCHANGED <<subs, live>>
      BY <1>1, <2>2, <3>1 DEF CallProceeds
    <3>2. CASE Connected /\ subs' = subs \cup {p} /\ (Subscribe(p) \/ UNCHANGED live)
      <4>1. p \notin subs
        BY <2>2 DEF CallProceeds, RegisteredWhileHeld
      <4>2. Registers(p)
        BY <2>2, <3>2, <4>1 DEF CallProceeds, Subscribe
      <4> QED
        BY <4>2
    <3> QED
      BY <2>2, <3>1, <3>2 DEF CallProceeds, StartSubscription
  <2>3. CASE CallGivesUp(p) \/ CallSent(p)
    BY <1>1, <2>3 DEF CallGivesUp, CallSent
  <2>4. CASE Unsubscribe(p)
    <3>1. Drops(p)
      BY <2>4 DEF Unsubscribe, RegisteredWhileHeld
    <3> QED
      BY <3>1
  <2> QED
    BY <1>7, <2>1, <2>2, <2>3, <2>4 DEF CallStep
<1>8. ASSUME NEW p \in Calls \cup {Monitor}, Opened(p) PROVE Goal
  <2>1. Disconnects
    BY <1>8 DEF Opened
  <2> QED
    BY <2>1
<1>9. ASSUME NEW p \in Calls \cup {Monitor}, Ready(p) \/ ConnectFails(p)
      PROVE  Goal
  BY <1>1, <1>9 DEF Ready, ConnectFails
<1>10. ASSUME NEW c \in Conns, ReceiverStep(c) \/ AbandonedExpires(c) PROVE Goal
  <2>1. CASE ReceiveAck(c)
    BY <2>1 DEF ReceiveAck
  <2>2. CASE ReceiveIdle(c)
    BY <1>5, <2>2 DEF ReceiveIdle
  <2>3. CASE ReceiverFails(c)
    BY <1>1, <2>3 DEF ReceiverFails, TaskDies
  <2>4. ASSUME NEW rejected \in BOOLEAN, ReceiveClose(c, rejected) PROVE Goal
    BY <1>6, <2>4 DEF ReceiveClose
  <2>5. CASE AbandonedExpires(c)
    BY <1>6, <2>5 DEF AbandonedExpires
  <2> QED
    BY <1>10, <2>1, <2>2, <2>3, <2>4, <2>5 DEF ReceiverStep
<1>11. ASSUME NEW q \in Conns \cup {Monitor}, ResubscribeStep(q) PROVE Goal
  BY <1>1, <1>4, <1>11 DEF ResubscribeStep, TaskDies, LoopEnds
<1>12. CASE MonitorStep
  BY <1>1, <1>2, <1>5, <1>12
     DEF MonitorStep, MonitorStops, MonitorRestartsReceiver, MonitorReconnects,
         NewConnection, MonitorProceeds, MonitorAckTimeout, MonitorBackoffEnds
<1>13. CASE CloseBegins
  <2>1. CASE ~Open(ws)
    BY <2>1, <1>2, <1>13 DEF CloseBegins
  <2>2. CASE Open(ws)
    BY <2>2, <1>6, <1>13 DEF CloseBegins
  <2> QED
    BY <2>1, <2>2
<1>14. CASE CloseEnds
  BY <1>1, <1>14 DEF CloseEnds
<1>15. CASE UNCHANGED vars
  BY <1>1, <1>15 DEF vars
<1> QED
  BY <1>7, <1>8, <1>9, <1>10, <1>11, <1>12, <1>13, <1>14, <1>15 DEF Next

(* The client implements the service its users are modelled with: whatever *)
(* the interleaving, the handle ends its subscription for good in one step,*)
(* and nothing but what is registered comes to be served.                  *)
THEOREM ImplementsService == Spec => ServiceSpec
<1>1. Init => Service!ServiceInit
  BY DEF Init, Service!ServiceInit, Connected, Open
<1>2. ServedInv /\ RegisteredWhileHeld /\ [Next]_vars
        => [Service!ServiceNext]_(Service!serviceVars)
  BY ServiceStep DEF Served, Service!ServiceNext, Service!serviceVars,
     Service!Register, Service!Drop, Service!Serve, Service!Disconnect
<1>3. QED
  BY <1>1, <1>2, TypeCorrect, Registered, ServedInvariant, PTL
     DEF Spec, ServiceSpec, Service!ServiceSpec
=============================================================================
