--------------------------- MODULE LiveCameraProofs ---------------------------
(***************************************************************************)
(* Proofs about LiveCamera: one live session, nothing left over of those   *)
(* that are closed, and the camera a session shows, for any number of      *)
(* viewers, preparations, cameras and attempts.                            *)
(***************************************************************************)
EXTENDS LiveCamera, FiniteSetTheorems, TLAPS

(* The life of a session: TypeOK's part of it.                             *)
LifeTypeOK ==
    /\ pc \in [Fetchers -> OfferState] /\ \A p \in Preps : pc[p] \in FetchState \cup {"idle"}
    /\ victim \in [Offers -> Offers \cup {None}]
    /\ \A o \in Offers : victim[o] # None <=> pc[o] = "closing"
    /\ sess \in SUBSET Offers /\ closed \in SUBSET Offers /\ sess \cap closed = {}
    /\ sub \in SUBSET {f \in Fetchers : pc[f] = "wait"}
    /\ ws \in [Offers -> {"none", "open", "closed"}]
    /\ pump \in [Offers -> {"off", "on", "cancelled", "closing"}]
    /\ cl \in [Offers -> {"no", "pump", "unsub", "ws", "done"}]
    /\ \A o \in Offers : cl[o] = "no" <=> o \notin closed
    /\ streaming \in BOOLEAN

(* An offer has a session from its first step on, listed or closed.        *)
HasSession == \A o \in Offers :
    /\ pc[o] = "idle" <=> o \notin sess \cup closed
    /\ pc[o] = "ending" => o \in closed

AtMostOne == \A o, v \in sess : o = v

(* The pump runs once the socket is there, and until its session closes.   *)
PumpFollows == \A o \in Offers :
    /\ pump[o] # "off" => pc[o] \in {"offer", "done", "ending"}
    /\ pump[o] \in {"cancelled", "closing"} => o \in closed
    /\ o \in closed => pump[o] # "on"
    /\ pump[o] = "cancelled" => cl[o] = "pump"
    /\ o \in sess /\ pc[o] = "offer" => pump[o] = "on"

(* The last thing a close does is to close the socket.                     *)
SocketLast == \A o \in Offers : cl[o] \in {"ws", "done"} => ws[o] # "open"

LifeInv ==
    /\ LifeTypeOK /\ HasSession /\ AtMostOne /\ PumpFollows /\ SocketLast
    /\ SessionIsAlive /\ NoCircularWait /\ StreamingEnds

(* The attempts of a fetch.                                                *)
TryInv ==
    /\ attempt \in [Fetchers -> 0 .. Attempts]
    /\ \A f \in Fetchers : pc[f] = "retry" => attempt[f] < Attempts

(* The cameras: an offer that has not fetched has no config; while nothing *)
(* went astray, a session's and a preparation's config are of the camera   *)
(* last asked for, and so is what was prepared.                            *)
ViewTypeOK ==
    /\ cfg \in [Fetchers -> Cameras \cup {None}]
    /\ chosen \in Cameras /\ camera \in Cameras \cup {None}
    /\ hold \in BOOLEAN /\ astray \in BOOLEAN
    /\ prepared \in [for : Cameras, cam : Cameras] \cup {None}

ConfigFollows ==
    /\ \A o \in Offers : pc[o] \in {"idle", "closing"} => cfg[o] = None
    /\ \A p \in Preps : pc[p] # "idle" => cfg[p] \in Cameras /\ camera \in Cameras

CameraFollows == ~astray =>
    /\ \A o \in sess : cfg[o] # None => camera = cfg[o]
    /\ \A p \in Preps : pc[p] # "idle" => camera = cfg[p]
    /\ prepared # None => prepared.for = prepared.cam

ViewInv == ViewTypeOK /\ ConfigFollows /\ CameraFollows /\ ShowsChosen

CameraInv == LifeInv /\ TryInv /\ ViewInv

-----------------------------------------------------------------------------
(* What is left of a session v when a task begins to close it, or goes on. *)
ReleaseEffect(v, left) ==
    /\ sub' \in {sub, sub \ {v}} /\ cl' = [cl EXCEPT ![v] = cl'[v]] /\ ws' = [ws EXCEPT ![v] = ws'[v]]
    /\ cl'[v] \in {"unsub", "ws", "done"}
    /\ ws'[v] \in {ws[v], "closed"} /\ (cl'[v] \in {"ws", "done"} => ws'[v] # "open")
    /\ IF cl'[v] = "done" THEN streaming' = (streaming /\ left # {}) ELSE streaming' = streaming

LEMMA Releases ==
    ASSUME LifeTypeOK, NEW v \in Offers, NEW left, Release(v, left)
    PROVE  ReleaseEffect(v, left)
<1> USE DEF LifeTypeOK
<1>1. CASE v \in sub
  <2>1. cl' = [cl EXCEPT ![v] = "unsub"] /\ cl'[v] = "unsub" /\ ws' = ws /\ streaming' = streaming
    BY <1>1 DEF Release
  <2> QED
    BY <2>1 DEF Release, ReleaseEffect
<1>2. CASE v \notin sub /\ ws[v] = "open"
  <2>1. /\ cl' = [cl EXCEPT ![v] = "ws"] /\ cl'[v] = "ws" /\ streaming' = streaming
        /\ ws' = [ws EXCEPT ![v] = "closed"] /\ ws'[v] = "closed"
    BY <1>2 DEF Release
  <2> QED
    BY <2>1 DEF Release, ReleaseEffect
<1>3. CASE v \notin sub /\ ws[v] # "open"
  <2>1. /\ cl' = [cl EXCEPT ![v] = "done"] /\ cl'[v] = "done" /\ ws' = ws
        /\ streaming' = (streaming /\ left # {})
    BY <1>3 DEF Release, CloseDone
  <2> QED
    BY <1>3, <2>1 DEF Release, ReleaseEffect
<1> QED
  BY <1>1, <1>2, <1>3

CloseEffect(v, left) ==
    /\ sess' = left /\ closed' = closed \cup {v} /\ cfg' = [cfg EXCEPT ![v] = None]
    /\ pump' = [pump EXCEPT ![v] = pump'[v]] /\ pump'[v] \in {"off", "cancelled", "closing"}
    /\ pump'[v] # "off" => pump[v] = "on"
    /\ cl' = [cl EXCEPT ![v] = cl'[v]] /\ cl'[v] \in {"pump", "unsub", "ws", "done"}
    /\ cl'[v] = "pump" <=> pump'[v] = "cancelled"
    /\ ws' = [ws EXCEPT ![v] = ws'[v]] /\ ws'[v] \in {ws[v], "closed"}
    /\ cl'[v] \in {"ws", "done"} => ws'[v] # "open"
    /\ sub' \in {sub, sub \ {v}} /\ (v \in sub' => pump[v] = "on")
    /\ IF cl'[v] = "done" THEN streaming' = (streaming /\ left # {}) ELSE streaming' = streaming

LEMMA Closes ==
    ASSUME LifeInv, NEW v \in sess, NEW inPump \in BOOLEAN, inPump => pump[v] = "on",
           NEW left, Close(v, inPump, left)
    PROVE  CloseEffect(v, left)
<1>1. LifeTypeOK /\ v \in Offers /\ pump[v] \in {"on", "off"}
  BY DEF LifeInv, LifeTypeOK, PumpFollows
<1>2. CASE pump[v] = "on" /\ ~inPump
  <2>1. /\ pump' = [pump EXCEPT ![v] = "cancelled"] /\ pump'[v] = "cancelled"
        /\ cl' = [cl EXCEPT ![v] = "pump"] /\ cl'[v] = "pump"
        /\ UNCHANGED <<sub, ws, streaming>> /\ ws = [ws EXCEPT ![v] = ws[v]]
    BY <1>1, <1>2 DEF Close, LifeTypeOK
  <2> QED
    BY <1>2, <2>1 DEF Close, CloseEffect
<1>3. CASE pump[v] # "on" \/ inPump
  <2>1. /\ pump' = [pump EXCEPT ![v] = pump'[v]]
        /\ pump'[v] = IF inPump THEN "closing" ELSE pump[v]
    BY <1>1, <1>3 DEF Close, LifeTypeOK
  <2>2. ReleaseEffect(v, left) /\ sub' = sub \ {v}
    BY <1>1, <1>3, Releases DEF Close, Release
  <2> QED
    BY <1>1, <1>3, <2>1, <2>2 DEF Close, CloseEffect, ReleaseEffect
<1> QED
  BY <1>2, <1>3

(* A session closes, and an offer may move because of it: the one of that  *)
(* session ends, or a newer one waits for it.                              *)
LEMMA CloseKeepsLife ==
    ASSUME LifeInv, NEW v \in sess, NEW left \in SUBSET Offers, CloseEffect(v, left),
           pc' \in [Fetchers -> OfferState],
           \/ pc' = pc /\ left = {} /\ victim' = victim
           \/ /\ pc' = [pc EXCEPT ![v] = "ending"] /\ left = {} /\ victim' = victim
              /\ pc[v] \notin {"idle", "closing"}
           \/ \E o \in Offers :
                /\ pc[o] = "idle" /\ pc' = [pc EXCEPT ![o] = "closing"] /\ left = {o}
                /\ victim' = [victim EXCEPT ![o] = v],
           \A p \in Preps : pc'[p] = pc[p]
    PROVE  LifeInv'
<1>1. LifeTypeOK /\ v \in Offers /\ v \notin closed /\ Offers \subseteq Fetchers
  BY DEF LifeInv, LifeTypeOK, Fetchers
<1>2. PICK o \in Offers :
        /\ \A q \in Fetchers : q \notin {o, v} => pc'[q] = pc[q]
        /\ \/ pc' = pc /\ left = {} /\ victim' = victim
           \/ o = v /\ pc'[v] = "ending" /\ left = {} /\ victim' = victim /\ pc[v] \notin {"idle", "closing"}
           \/ /\ o # v /\ pc'[v] = pc[v] /\ pc[o] = "idle" /\ pc'[o] = "closing" /\ left = {o}
              /\ victim' = [victim EXCEPT ![o] = v]
  BY <1>1 DEF LifeInv, LifeTypeOK, HasSession
<1>3. /\ sess' = left /\ closed' = closed \cup {v}
      /\ pump'[v] \in {"off", "cancelled", "closing"} /\ (pump'[v] # "off" => pump[v] = "on")
      /\ cl'[v] \in {"pump", "unsub", "ws", "done"} /\ (cl'[v] = "pump" <=> pump'[v] = "cancelled")
      /\ cl'[v] \in {"ws", "done"} => ws'[v] # "open"
      /\ \A q \in Offers : q # v => pump'[q] = pump[q] /\ cl'[q] = cl[q] /\ ws'[q] = ws[q]
  BY <1>1 DEF LifeTypeOK, CloseEffect
<1>4. /\ pump' \in [Offers -> {"off", "on", "cancelled", "closing"}]
      /\ cl' \in [Offers -> {"no", "pump", "unsub", "ws", "done"}]
      /\ ws' \in [Offers -> {"none", "open", "closed"}]
  BY <1>1 DEF LifeTypeOK, CloseEffect
<1>5. /\ sess = {v}
      /\ left # {} => /\ left = {o} /\ o # v /\ o \notin sess \cup closed /\ pump[o] = "off"
                      /\ pc[o] = "idle"
  BY <1>2 DEF LifeInv, AtMostOne, HasSession, PumpFollows
<1>6. streaming' => streaming /\ (cl'[v] = "done" => left # {})
  BY <1>1 DEF CloseEffect, LifeTypeOK
<1>7. LifeTypeOK'
  <2>1. \A p \in Preps : pc'[p] \in FetchState \cup {"idle"}
    BY <1>1 DEF LifeTypeOK
  <2>2. /\ victim' \in [Offers -> Offers \cup {None}]
        /\ \A q \in Offers : victim'[q] # None <=> pc'[q] = "closing"
    BY <1>1, <1>2, CameraAssumption DEF LifeTypeOK, CameraAssumption
  <2>3. sess' \in SUBSET Offers /\ closed' \in SUBSET Offers /\ sess' \cap closed' = {}
    BY <1>1, <1>2, <1>3, <1>5 DEF LifeTypeOK
  <2>4. sub' \in SUBSET {f \in Fetchers : pc'[f] = "wait"}
    <3>1. sub' \subseteq sub /\ (v \in sub' => pump[v] = "on")
      BY DEF CloseEffect
    <3>2. pump[v] = "on" => pc[v] # "wait"
      BY <1>1 DEF LifeInv, PumpFollows
    <3> QED
      BY <1>1, <1>2, <3>1, <3>2 DEF LifeTypeOK
  <2>5. \A q \in Offers : cl'[q] = "no" <=> q \notin closed'
    BY <1>1, <1>3 DEF LifeTypeOK
  <2>6. streaming' \in BOOLEAN
    BY <1>1 DEF CloseEffect, LifeTypeOK
  <2> QED
    BY <1>4, <2>1, <2>2, <2>3, <2>4, <2>5, <2>6 DEF LifeTypeOK
<1>8. HasSession'
  BY <1>1, <1>2, <1>3, <1>5 DEF LifeInv, HasSession
<1>9. AtMostOne'
  BY <1>2, <1>3 DEF AtMostOne
<1>10. PumpFollows'
  <2>1. pump[v] = "on" => pc[v] \in {"offer", "done", "ending"}
    BY <1>1 DEF LifeInv, PumpFollows
  <2>2. \A q \in Offers : q \notin {o, v} => pc'[q] = pc[q]
    BY <1>1, <1>2
  <2>3. pc'[v] \in {pc[v], "ending"}
    BY <1>1, <1>2
  <2>4. pc'[o] = pc[o] \/ o = v \/ (pump[o] = "off" /\ o \notin closed)
    BY <1>2, <1>5
  <2> QED
    BY <1>2, <1>3, <1>5, <2>1, <2>2, <2>3, <2>4 DEF LifeInv, PumpFollows
<1>11. SocketLast'
  BY <1>3 DEF LifeInv, SocketLast
<1>12. SessionIsAlive'
  BY <1>2, <1>3 DEF SessionIsAlive
<1>13. NoCircularWait'
  BY <1>3 DEF LifeInv, NoCircularWait
<1>14. StreamingEnds'
  BY <1>1, <1>3, <1>6 DEF StreamingEnds
<1> QED
  BY <1>7, <1>8, <1>9, <1>10, <1>11, <1>12, <1>13, <1>14 DEF LifeInv

(* No session closes, and the offer or preparation f moves: to a step of   *)
(* its start, or, when its session is closed or streams, to the end.       *)
LEMMA MoveKeepsLife ==
    ASSUME LifeInv, NEW f \in Fetchers, NEW s \in OfferState, pc' = [pc EXCEPT ![f] = s],
           UNCHANGED <<closed, cl>>,
           f \in Preps => s \in FetchState \cup {"idle"} /\ UNCHANGED <<sess, victim, pump, ws, streaming>>,
           s = "idle" => f \in Preps,
           s \notin {"closing", "ending"},
           f \in Offers => (victim' = [victim EXCEPT ![f] = None] \/ (victim' = victim /\ pc[f] # "closing")),
           \/ sess' = sess /\ (f \in Offers => pc[f] # "idle")
           \/ sess = {} /\ sess' = {f} /\ pc[f] = "idle" /\ s \in FetchState \cup {"connect"},
           \/ UNCHANGED <<ws, pump>> /\ s # "offer" /\ (f \in Offers /\ pump[f] # "off" => s = "done")
           \/ /\ s = "offer" /\ f \in Offers /\ f \notin closed
              /\ ws' = [ws EXCEPT ![f] = "open"] /\ pump' = [pump EXCEPT ![f] = "on"],
           s = "done" => \/ f \in closed /\ streaming' = streaming
                         \/ f \notin closed /\ pc[f] = "offer" /\ streaming' = TRUE,
           s # "done" => streaming' = streaming,
           sub' \subseteq sub \cup {f}, f \in sub' => s = "wait"
    PROVE  LifeInv'
<1>1. LifeTypeOK /\ Offers \subseteq Fetchers
  BY DEF LifeInv, Fetchers
<1>2. pc'[f] = s /\ \A q \in Fetchers : q # f => pc'[q] = pc[q]
  BY <1>1 DEF LifeTypeOK
<1>3. f \in Preps => f \notin Offers
  BY CameraAssumption DEF CameraAssumption
<1>4. f \in Offers \/ f \in Preps
  BY DEF Fetchers
<1>5. \A q \in Offers : q # f => pump'[q] = pump[q] /\ ws'[q] = ws[q]
  BY <1>1 DEF LifeTypeOK
<1>6. ASSUME f \in Offers
      PROVE  \/ /\ pump'[f] = pump[f] /\ ws'[f] = ws[f] /\ s # "offer"
                /\ pump[f] # "off" => s = "done"
             \/ s = "offer" /\ f \notin closed /\ ws'[f] = "open" /\ pump'[f] = "on"
  BY <1>1, <1>6 DEF LifeTypeOK
<1>7. LifeTypeOK'
  <2>1. pc' \in [Fetchers -> OfferState] /\ \A p \in Preps : pc'[p] \in FetchState \cup {"idle"}
    BY <1>1, <1>2 DEF LifeTypeOK
  <2>2. /\ victim' \in [Offers -> Offers \cup {None}]
        /\ \A q \in Offers : victim'[q] # None <=> pc'[q] = "closing"
    BY <1>1, <1>2, <1>3, <1>4 DEF LifeTypeOK
  <2>3. sess' \in SUBSET Offers /\ sess' \cap closed' = {}
    <3>1. CASE sess' = sess
      BY <1>1, <3>1 DEF LifeTypeOK
    <3>2. CASE sess = {} /\ sess' = {f} /\ pc[f] = "idle" /\ f \in Offers
      BY <1>1, <3>2 DEF LifeInv, HasSession
    <3> QED
      BY <1>4, <3>1, <3>2
  <2>4. sub' \in SUBSET {q \in Fetchers : pc'[q] = "wait"}
    BY <1>1, <1>2 DEF LifeTypeOK
  <2>5. /\ ws' \in [Offers -> {"none", "open", "closed"}]
        /\ pump' \in [Offers -> {"off", "on", "cancelled", "closing"}]
    BY <1>1 DEF LifeTypeOK
  <2>6. streaming' \in BOOLEAN
    BY <1>1 DEF LifeTypeOK
  <2> QED
    BY <1>1, <2>1, <2>2, <2>3, <2>4, <2>5, <2>6 DEF LifeTypeOK
<1>8. \/ sess' = sess
      \/ /\ f \in Offers /\ sess = {} /\ sess' = {f} /\ f \notin closed
         /\ pc[f] = "idle" /\ s \notin {"done", "offer"}
  BY <1>1, <1>4 DEF LifeInv, HasSession, FetchState
<1>9. HasSession'
  <2> SUFFICES ASSUME NEW q \in Offers
               PROVE  /\ pc'[q] = "idle" <=> q \notin sess' \cup closed'
                      /\ pc'[q] = "ending" => q \in closed'
    BY DEF HasSession
  <2>1. CASE q = f
    BY <1>2, <1>3, <1>8, <2>1 DEF LifeInv, HasSession
  <2>2. CASE q # f
    BY <1>1, <1>2, <1>8, <2>2 DEF LifeInv, HasSession
  <2> QED
    BY <2>1, <2>2
<1>10. AtMostOne'
  BY <1>8 DEF LifeInv, AtMostOne
<1>11. PumpFollows'
  <2> SUFFICES ASSUME NEW q \in Offers
               PROVE  /\ pump'[q] # "off" => pc'[q] \in {"offer", "done", "ending"}
                      /\ pump'[q] \in {"cancelled", "closing"} => q \in closed'
                      /\ q \in closed' => pump'[q] # "on"
                      /\ pump'[q] = "cancelled" => cl'[q] = "pump"
                      /\ q \in sess' /\ pc'[q] = "offer" => pump'[q] = "on"
    BY DEF PumpFollows
  <2>1. CASE q = f
    BY <1>2, <1>6, <2>1 DEF LifeInv, PumpFollows
  <2>2. CASE q # f
    BY <1>1, <1>2, <1>5, <1>8, <2>2 DEF LifeInv, PumpFollows
  <2> QED
    BY <2>1, <2>2
<1>12. SocketLast'
  BY <1>1, <1>5, <1>6 DEF LifeInv, SocketLast, LifeTypeOK
<1>13. SessionIsAlive'
  <2> SUFFICES ASSUME NEW q \in sess', pc'[q] = "done"
               PROVE  pump'[q] = "on" /\ streaming'
    BY DEF SessionIsAlive
  <2>1. q \in Offers /\ q \notin closed
    BY <1>7 DEF LifeTypeOK
  <2>2. CASE q = f
    <3>1. q \in sess /\ pc[f] = "offer" /\ streaming' = TRUE
      BY <1>2, <1>8, <2>1, <2>2
    <3>2. pump[f] = "on"
      BY <2>1, <2>2, <3>1 DEF LifeInv, PumpFollows
    <3> QED
      BY <1>2, <1>6, <2>1, <2>2, <3>1, <3>2
  <2>3. CASE q # f
    <3>1. pc[q] = "done" /\ q \in sess
      BY <1>1, <1>2, <1>8, <2>1, <2>3
    <3>2. pump[q] = "on" /\ streaming
      BY <3>1 DEF LifeInv, SessionIsAlive
    <3> QED
      BY <1>5, <2>1, <2>3, <3>2
  <2> QED
    BY <2>2, <2>3
<1>14. NoCircularWait'
  BY <1>1, <1>5, <1>6 DEF LifeInv, NoCircularWait, LifeTypeOK
<1>15. StreamingEnds'
  <2>1. CASE streaming' = streaming
    BY <1>8, <2>1 DEF LifeInv, StreamingEnds
  <2>2. CASE f \notin closed /\ pc[f] = "offer" /\ s = "done"
    <3>1. f \in sess /\ sess' = sess
      BY <1>1, <1>4, <1>8, <2>2 DEF LifeInv, HasSession, LifeTypeOK, FetchState
    <3> QED
      BY <3>1 DEF StreamingEnds
  <2> QED
    BY <2>1, <2>2
<1> QED
  BY <1>7, <1>9, <1>10, <1>11, <1>12, <1>13, <1>14, <1>15 DEF LifeInv

(* A task that closes a session goes on, or a pump that was told to ends.  *)
LEMMA ResumeKeepsLife ==
    ASSUME LifeInv, NEW o \in Offers, CloseResumes(o)
    PROVE  LifeInv'
<1>1. LifeTypeOK /\ o \in closed /\ o \notin sess
  BY DEF LifeInv, LifeTypeOK, CloseResumes
<1>2. UNCHANGED <<sess, pc, victim, closed, pump>>
  BY DEF CloseResumes
<1>3. pump[o] # "cancelled"
  BY DEF LifeInv, PumpFollows, CloseResumes
<1>4. ReleaseEffect(o, sess)
  <2>1. CASE Release(o, sess)
    BY <1>1, <2>1, Releases
  <2>2. CASE cl[o] = "ws" /\ CloseDone(o, sess) /\ UNCHANGED <<sub, ws>>
    <3>1. cl' = [cl EXCEPT ![o] = "done"] /\ cl'[o] = "done" /\ ws' = ws /\ sub' = sub
      BY <1>1, <2>2 DEF CloseDone, LifeTypeOK
    <3>2. ws[o] # "open"
      BY <1>1, <2>2 DEF LifeInv, SocketLast, LifeTypeOK
    <3> QED
      BY <1>1, <2>2, <3>1, <3>2 DEF CloseDone, ReleaseEffect, LifeTypeOK
  <2> QED
    BY <2>1, <2>2 DEF CloseResumes
<1>5. /\ cl'[o] \in {"unsub", "ws", "done"}
      /\ cl'[o] \in {"ws", "done"} => ws'[o] # "open"
      /\ \A q \in Offers : q # o => cl'[q] = cl[q] /\ ws'[q] = ws[q]
      /\ cl' \in [Offers -> {"no", "pump", "unsub", "ws", "done"}]
      /\ ws' \in [Offers -> {"none", "open", "closed"}]
  BY <1>1, <1>4 DEF LifeTypeOK, ReleaseEffect
<1>6. sub' \subseteq sub /\ streaming' \in BOOLEAN
  BY <1>1, <1>4 DEF LifeTypeOK, ReleaseEffect
<1>7. /\ streaming' => streaming /\ (cl'[o] = "done" => sess # {})
      /\ sess # {} /\ streaming => streaming'
  BY <1>1, <1>4 DEF LifeTypeOK, ReleaseEffect
<1>8. LifeTypeOK'
  BY <1>1, <1>2, <1>5, <1>6 DEF LifeTypeOK
<1>9. HasSession' /\ AtMostOne'
  BY <1>2 DEF LifeInv, HasSession, AtMostOne
<1>10. PumpFollows'
  BY <1>2, <1>3, <1>5 DEF LifeInv, PumpFollows
<1>11. SocketLast' /\ NoCircularWait'
  BY <1>2, <1>5 DEF LifeInv, SocketLast, NoCircularWait
<1>12. SessionIsAlive'
  BY <1>2, <1>7 DEF LifeInv, SessionIsAlive
<1>13. StreamingEnds'
  BY <1>2, <1>5, <1>7 DEF LifeInv, StreamingEnds
<1> QED
  BY <1>8, <1>9, <1>10, <1>11, <1>12, <1>13 DEF LifeInv

LEMMA PumpEndKeepsLife ==
    ASSUME LifeInv, NEW o \in Offers, PumpEnds(o)
    PROVE  LifeInv'
<1>1. LifeTypeOK /\ o \in closed /\ o \notin sess
  BY DEF LifeInv, LifeTypeOK, PumpFollows, PumpEnds
<1>2. UNCHANGED <<sess, streaming, closed, cl, pc, victim, sub, ws>>
  BY DEF PumpEnds
<1>3. /\ pump' \in [Offers -> {"off", "on", "cancelled", "closing"}]
      /\ pump'[o] = "off" /\ \A q \in Offers : q # o => pump'[q] = pump[q]
  BY <1>1 DEF LifeTypeOK, PumpEnds
<1>4. LifeTypeOK'
  BY <1>1, <1>2, <1>3 DEF LifeTypeOK
<1>5. HasSession' /\ AtMostOne' /\ SocketLast' /\ StreamingEnds'
  BY <1>2 DEF LifeInv, HasSession, AtMostOne, SocketLast, StreamingEnds
<1>6. PumpFollows'
  BY <1>1, <1>2, <1>3 DEF LifeInv, PumpFollows
<1>7. SessionIsAlive'
  BY <1>1, <1>2, <1>3 DEF LifeInv, SessionIsAlive, LifeTypeOK
<1>8. NoCircularWait'
  BY <1>2, <1>3 DEF LifeInv, NoCircularWait
<1> QED
  BY <1>4, <1>5, <1>6, <1>7, <1>8 DEF LifeInv

(* An offer that fails ends, with the session it closes or without.        *)
LEMMA FailKeepsLife ==
    ASSUME LifeInv, NEW f \in Fetchers, pc[f] \notin {"idle", "closing"}, Fails(f),
           victim' = victim
    PROVE  LifeInv'
<1>1. LifeTypeOK /\ Offers \subseteq Fetchers /\ (f \in Preps => f \notin Offers)
  BY CameraAssumption DEF LifeInv, Fetchers, CameraAssumption
<1>2. CASE f \in sess /\ Close(f, FALSE, sess \ {f}) /\ Goto(f, "ending")
  <2>1. sess \ {f} = {} /\ f \in Offers
    BY <1>1, <1>2 DEF LifeInv, AtMostOne, LifeTypeOK
  <2>2. CloseEffect(f, {})
    BY <1>2, <2>1, Closes
  <2>3. /\ pc' = [pc EXCEPT ![f] = "ending"] /\ pc' \in [Fetchers -> OfferState]
        /\ \A p \in Preps : pc'[p] = pc[p]
    BY <1>1, <1>2, <2>1, CameraAssumption
       DEF Goto, LifeTypeOK, Fetchers, OfferState, CameraAssumption
  <2> QED
    BY <1>2, <2>1, <2>2, <2>3, CloseKeepsLife
<1>3. CASE /\ f \notin sess
           /\ Goto(f, IF f \in Preps THEN "idle" ELSE "done")
           /\ sub' = sub \ {f}
           /\ cfg' = [cfg EXCEPT ![f] = None]
           /\ UNCHANGED <<sess, streaming, closed, pump, cl, ws>>
  <2> DEFINE s == IF f \in Preps THEN "idle" ELSE "done"
  <2>1. s \in OfferState /\ s \notin {"closing", "ending", "offer"} /\ (f \in Preps <=> s = "idle")
       /\ (f \notin Preps => s = "done")
    BY DEF OfferState
  <2>2. f \notin Preps => f \in Offers /\ f \in closed
    BY <1>3 DEF LifeInv, HasSession, Fetchers
  <2>3. pc' = [pc EXCEPT ![f] = s] /\ sub' \subseteq sub \cup {f} /\ f \notin sub'
    BY <1>3 DEF Goto
  <2>4. UNCHANGED <<sess, streaming, closed, pump, cl, ws>>
    BY <1>3
  <2>5. s = "done" => f \notin Preps
    BY <2>1
  <2> HIDE DEF s
  <2> QED
    BY <1>1, <2>1, <2>2, <2>3, <2>4, <2>5, MoveKeepsLife
<1> QED
  BY <1>2, <1>3 DEF Fails

lives == <<sess, streaming, pc, victim, closed, sub, ws, pump, cl>>

LEMMA StaysAlive == LifeInv /\ UNCHANGED lives => LifeInv'
BY DEF lives, LifeInv, LifeTypeOK, HasSession, AtMostOne, PumpFollows, SocketLast,
       SessionIsAlive, NoCircularWait, StreamingEnds

(* The one session closes, and no offer moves.                             *)
LEMMA LoneCloseKeepsLife ==
    ASSUME LifeInv, NEW o \in sess, NEW inPump \in BOOLEAN, inPump => pump[o] = "on",
           Close(o, inPump, sess \ {o}), UNCHANGED <<pc, victim>>
    PROVE  LifeInv'
<1>1. sess \ {o} = {} /\ pc' \in [Fetchers -> OfferState]
  BY DEF LifeInv, AtMostOne, LifeTypeOK
<1>2. CloseEffect(o, {})
  BY <1>1, Closes
<1> QED
  BY <1>1, <1>2, CloseKeepsLife

(* The four steps of a fetch, of an offer or a preparation.                *)
LEMMA FetchKeepsLife ==
    ASSUME LifeInv, NEW f \in Fetchers, FetchStep(f)
    PROVE  LifeInv'
<1>1. LifeTypeOK /\ (f \in Preps => f \notin Offers) /\ (f \in Preps \/ f \in Offers)
  BY CameraAssumption DEF LifeInv, Fetchers, CameraAssumption
<1>2. pc[f] \in FetchState /\ pc[f] \notin {"idle", "closing", "connect", "offer", "ending", "done"}
  BY DEF FetchStep, StartReturns, Subscribed, WaitOver, Retry, FetchState
<1>3. f \in Offers => pump[f] = "off"
  BY <1>2 DEF LifeInv, PumpFollows
<1>4. victim' = victim
  BY DEF FetchStep, StartReturns, Subscribed, WaitOver, Retry
<1>5. ASSUME NEW s \in OfferState, pc' = [pc EXCEPT ![f] = s],
             s \in {"start", "subscribe", "wait", "retry", "connect", "idle"},
             f \in Preps => s # "connect", s = "idle" => f \in Preps,
             UNCHANGED <<sess, streaming, closed, pump, cl, ws>>,
             sub' \subseteq sub \cup {f}, f \in sub' => s = "wait"
      PROVE  LifeInv'
  <2>1. s \notin {"closing", "ending", "offer", "done"} /\ (f \in Preps => s \in FetchState \cup {"idle"})
    BY <1>5 DEF FetchState
  <2> QED
    BY <1>1, <1>2, <1>3, <1>4, <1>5, <2>1, MoveKeepsLife
<1>6. CASE Fails(f)
  BY <1>2, <1>4, <1>6, FailKeepsLife
<1>7. ASSUME NEW s \in FetchState \cup {"connect"}, Goto(f, s)
      PROVE  pc' = [pc EXCEPT ![f] = s] /\ s \in OfferState
  BY <1>7 DEF Goto, OfferState, FetchState
<1>8. f \in sub => pc[f] = "wait"
  BY <1>1 DEF LifeTypeOK
<1>9. CASE StartReturns(f)
  <2>1. CASE Goto(f, "subscribe") /\ UNCHANGED <<closers, sub, ws>>
    BY <1>5, <1>7, <1>8, <1>9, <2>1 DEF StartReturns, closers, FetchState
  <2> QED
    BY <1>6, <1>9, <2>1 DEF StartReturns
<1>10. CASE Subscribed(f)
  <2>1. CASE /\ sub' = sub \cup {f} \/ UNCHANGED sub
             /\ Goto(f, "wait") /\ UNCHANGED <<closers, ws>>
    BY <1>5, <1>7, <2>1 DEF closers, FetchState
  <2> QED
    BY <1>6, <1>10, <2>1 DEF Subscribed
<1>11. CASE WaitOver(f)
  <2>1. CASE Goto(f, "retry") /\ sub' = sub \ {f} /\ UNCHANGED <<prepared, closers, ws>>
    BY <1>5, <1>7, <2>1 DEF closers, FetchState
  <2>2. CASE f \in Offers /\ Goto(f, "connect") /\ sub' = sub \ {f} /\ UNCHANGED <<closers, ws>>
    BY <1>1, <1>5, <1>7, <2>2 DEF closers, FetchState
  <2>3. CASE /\ f \in Preps /\ Goto(f, "idle") /\ sub' = sub \ {f}
             /\ UNCHANGED <<sess, streaming, closed, pump, cl, ws>>
    <3>1. pc' = [pc EXCEPT ![f] = "idle"] /\ "idle" \in OfferState
      BY <2>3 DEF Goto, OfferState
    <3> QED
      BY <1>5, <2>3, <3>1
  <2> QED
    BY <1>6, <1>11, <2>1, <2>2, <2>3 DEF WaitOver, UseConfig
<1>12. CASE Retry(f)
  <2>1. pc' = [pc EXCEPT ![f] = "start"] /\ "start" \in OfferState
    BY <1>12 DEF Retry, Fetch, OfferState, FetchState
  <2>2. UNCHANGED <<sess, streaming, closed, pump, cl, ws, sub>> /\ f \notin sub
    BY <1>8, <1>12 DEF Retry
  <2> QED
    BY <1>5, <2>1, <2>2
<1> QED
  BY <1>9, <1>10, <1>11, <1>12 DEF FetchStep

LEMMA PrepareKeepsLife ==
    ASSUME LifeInv, NEW p \in Preps, Prepare(p)
    PROVE  LifeInv'
<1>1. LifeTypeOK /\ p \notin Offers /\ p \in Fetchers
  BY CameraAssumption DEF LifeInv, Fetchers, CameraAssumption
<1>2. pc' = [pc EXCEPT ![p] = "start"] /\ "start" \in OfferState /\ "start" \in FetchState
  BY DEF Prepare, Fetch, OfferState, FetchState
<1>3. UNCHANGED <<sess, streaming, closed, pump, cl, victim, sub, ws>> /\ p \notin sub
  BY <1>1 DEF Prepare, LifeTypeOK
<1> QED
  BY <1>1, <1>2, <1>3, MoveKeepsLife

(* The config is chosen or asked for.                                      *)
LEMMA RunMoves ==
    ASSUME NEW o \in Offers, Run(o)
    PROVE  \E s \in {"connect", "start"} :
               pc' = [pc EXCEPT ![o] = s] /\ victim' = [victim EXCEPT ![o] = None]
BY DEF Run, Goto, Fetch

LEMMA OfferKeepsLife ==
    ASSUME LifeInv, NEW o \in Offers, Offer(o)
    PROVE  LifeInv'
<1>1. LifeTypeOK /\ o \in Fetchers /\ o \notin Preps /\ pc[o] = "idle"
      /\ o \notin sess \cup closed /\ pump[o] = "off"
  BY CameraAssumption DEF LifeInv, HasSession, PumpFollows, Fetchers, CameraAssumption, Offer
<1>2. CASE sess = {} /\ sess' = {o} /\ Run(o) /\ UNCHANGED <<streaming, closed, pump, cl, sub, ws>>
  <2>1. PICK s \in {"connect", "start"} :
            pc' = [pc EXCEPT ![o] = s] /\ victim' = [victim EXCEPT ![o] = None]
    BY <1>2, RunMoves
  <2>2. s \in OfferState /\ s \in FetchState \cup {"connect"} /\ o \notin sub
        /\ s \notin {"closing", "ending", "offer", "done", "idle"}
    BY <1>1 DEF OfferState, FetchState, LifeTypeOK
  <2> QED
    BY <1>1, <1>2, <2>1, <2>2, MoveKeepsLife
<1>3. ASSUME NEW v \in sess, Close(v, FALSE, (sess \ {v}) \cup {o}),
             victim' = [victim EXCEPT ![o] = v], Goto(o, "closing")
      PROVE  LifeInv'
  <2>1. (sess \ {v}) \cup {o} = {o} /\ {o} \in SUBSET Offers
    BY DEF LifeInv, AtMostOne
  <2>2. CloseEffect(v, {o})
    BY <1>3, <2>1, Closes
  <2>3. pc' = [pc EXCEPT ![o] = "closing"] /\ pc' \in [Fetchers -> OfferState]
        /\ \A p \in Preps : pc'[p] = pc[p]
    BY <1>1, <1>3 DEF Goto, LifeTypeOK, OfferState
  <2> QED
    BY <1>1, <1>3, <2>1, <2>2, <2>3, CloseKeepsLife
<1> QED
  BY <1>2, <1>3 DEF Offer

LEMMA OfferStepKeepsLife ==
    ASSUME LifeInv, NEW o \in Offers, OfferStep(o)
    PROVE  LifeInv'
<1>1. LifeTypeOK /\ o \in Fetchers /\ o \notin Preps
  BY CameraAssumption DEF LifeInv, Fetchers, CameraAssumption
<1>2. pc[o] \in {"closing", "connect", "offer", "ending"} /\ pc[o] # "idle" /\ o \notin sub
  BY <1>1 DEF OfferStep, OfferProceeds, Connects, OfferSent, OfferEnds, LifeTypeOK
<1>3. \A s \in {"offer", "done"} : Goto(o, s) => pc' = [pc EXCEPT ![o] = s] /\ s \in OfferState
  BY DEF Goto, OfferState
<1>4. CASE OfferProceeds(o)
  <2>1. UNCHANGED <<sess, streaming, closed, pump, cl, sub, ws>> /\ pump[o] = "off" /\ pc[o] = "closing"
    BY <1>4 DEF OfferProceeds, LifeInv, PumpFollows
  <2>2. CASE Run(o)
    <3>1. PICK s \in {"connect", "start"} :
              pc' = [pc EXCEPT ![o] = s] /\ victim' = [victim EXCEPT ![o] = None]
      BY <2>2, RunMoves
    <3>2. s \in OfferState /\ s \notin {"closing", "ending", "offer", "done", "idle"}
      BY DEF OfferState, FetchState
    <3> QED
      BY <1>1, <1>2, <2>1, <3>1, <3>2, MoveKeepsLife
  <2>3. CASE o \in closed /\ Goto(o, "done") /\ victim' = [victim EXCEPT ![o] = None]
    <3>1. pc' = [pc EXCEPT ![o] = "done"] /\ "done" \in OfferState
      BY <1>3, <2>3
    <3> QED
      BY <1>1, <1>2, <2>1, <2>3, <3>1, MoveKeepsLife
  <2> QED
    BY <1>4, <2>2, <2>3 DEF OfferProceeds
<1>5. ASSUME o \in closed, Goto(o, "done"), victim' = victim, pc[o] # "closing",
             UNCHANGED <<closers, sub, ws>>
      PROVE  LifeInv'
  <2>1. pc' = [pc EXCEPT ![o] = "done"] /\ "done" \in OfferState
    BY <1>3, <1>5
  <2>2. UNCHANGED <<sess, streaming, closed, pump, cl, sub, ws>>
    BY <1>5 DEF closers
  <2> QED
    BY <1>1, <1>2, <1>5, <2>1, <2>2, MoveKeepsLife
<1>6. CASE Connects(o)
  <2>1. pc[o] = "connect" /\ victim' = victim
    BY <1>6 DEF Connects
  <2>2. CASE /\ o \notin closed
             /\ ws' = [ws EXCEPT ![o] = "open"] /\ pump' = [pump EXCEPT ![o] = "on"]
             /\ Goto(o, "offer") /\ UNCHANGED <<sess, streaming, closed, cl, cfg, sub>>
    <3>1. pc' = [pc EXCEPT ![o] = "offer"] /\ "offer" \in OfferState
      BY <1>3, <2>2
    <3> QED
      BY <1>1, <1>2, <2>1, <2>2, <3>1, MoveKeepsLife
  <2>3. CASE Fails(o)
    BY <1>1, <2>1, <2>3, FailKeepsLife
  <2> QED
    BY <1>5, <1>6, <2>1, <2>2, <2>3 DEF Connects
<1>7. CASE OfferSent(o)
  <2>1. pc[o] = "offer" /\ victim' = victim
    BY <1>7 DEF OfferSent
  <2>2. CASE /\ o \notin closed /\ streaming' = TRUE /\ Goto(o, "done")
             /\ UNCHANGED <<sess, closed, pump, cl, cfg, sub, ws>>
    <3>1. pc' = [pc EXCEPT ![o] = "done"] /\ "done" \in OfferState
      BY <1>3, <2>2
    <3> QED
      BY <1>1, <1>2, <2>1, <2>2, <3>1, MoveKeepsLife
  <2>3. CASE Fails(o)
    BY <1>1, <2>1, <2>3, FailKeepsLife
  <2> QED
    BY <1>5, <1>7, <2>1, <2>2, <2>3 DEF OfferSent
<1>8. CASE OfferEnds(o)
  BY <1>5, <1>8 DEF OfferEnds, LifeInv, HasSession
<1> QED
  BY <1>4, <1>6, <1>7, <1>8 DEF OfferStep

LEMMA UpdateKeepsLife ==
    ASSUME LifeInv, NEW c \in Cameras, CoordinatorUpdates(c), UNCHANGED <<pc, victim>>
    PROVE  LifeInv'
<1>1. CASE UNCHANGED <<closers, sub, ws>>
  BY <1>1, StaysAlive DEF closers, lives
<1>2. ASSUME NEW o \in sess, Close(o, FALSE, sess \ {o})
      PROVE  LifeInv'
  BY <1>2, LoneCloseKeepsLife
<1> QED
  BY <1>1, <1>2 DEF CoordinatorUpdates

LEMMA LifeStep == LifeInv /\ chosen \in Cameras /\ [Next]_vars => LifeInv'
<1> SUFFICES ASSUME LifeInv, chosen \in Cameras, [Next]_vars
             PROVE  LifeInv'
  OBVIOUS
<1>1. ASSUME NEW f \in Fetchers, FetchStep(f)
      PROVE  LifeInv'
  BY <1>1, FetchKeepsLife
<1>2. ASSUME NEW p \in Preps, Prepare(p)
      PROVE  LifeInv'
  BY <1>2, PrepareKeepsLife
<1>3. ASSUME NEW o \in Offers,
             \/ Offer(o) \/ OfferStep(o)
             \/ HangUp(o) \/ PumpEnds(o)
             \/ ViewerCloses(o) \/ CloseResumes(o)
      PROVE  LifeInv'
  <2>1. CASE HangUp(o)
    BY <2>1, LoneCloseKeepsLife DEF HangUp
  <2>2. CASE ViewerCloses(o)
    BY <2>2, LoneCloseKeepsLife DEF ViewerCloses
  <2> QED
    BY <1>3, <2>1, <2>2, OfferKeepsLife, OfferStepKeepsLife, PumpEndKeepsLife, ResumeKeepsLife
<1>4. CASE ChooseCamera
  BY <1>4, UpdateKeepsLife DEF ChooseCamera
<1>5. CASE Update
  BY <1>5, UpdateKeepsLife DEF Update
<1>6. CASE SetHold \/ UNCHANGED vars
  BY <1>6, StaysAlive DEF SetHold, vars, closers, lives
<1> QED
  BY <1>1, <1>2, <1>3, <1>4, <1>5, <1>6 DEF Next

-----------------------------------------------------------------------------
(* Where an offer or a preparation is, and at which attempt.               *)
LEMMA GotoTries ==
    ASSUME LifeTypeOK, TryInv, NEW f \in Fetchers, NEW s \in OfferState, Goto(f, s),
           s = "retry" => attempt[f] < Attempts
    PROVE  TryInv'
<1>1. 0 \in 0 .. Attempts
  BY CameraAssumption DEF CameraAssumption
<1>2. attempt'[f] \in {attempt[f], 0} /\ (s = "retry" => attempt'[f] = attempt[f])
  BY DEF Goto, TryInv, FetchState
<1>3. \A g \in Fetchers : g # f => attempt'[g] = attempt[g] /\ pc'[g] = pc[g]
  BY DEF Goto, TryInv, LifeTypeOK
<1>4. pc'[f] = s
  BY DEF Goto, LifeTypeOK
<1>5. attempt' \in [Fetchers -> 0 .. Attempts]
  BY <1>1, <1>2 DEF Goto, TryInv
<1> QED
  BY <1>2, <1>3, <1>4, <1>5 DEF TryInv

LEMMA FetchTries ==
    ASSUME LifeTypeOK, TryInv, NEW f \in Fetchers, NEW n \in 0 .. Attempts, Fetch(f, n)
    PROVE  TryInv'
<1>1. \A g \in Fetchers : g # f => attempt'[g] = attempt[g] /\ pc'[g] = pc[g]
  BY DEF Fetch, TryInv, LifeTypeOK
<1>2. pc'[f] = "start" /\ attempt' \in [Fetchers -> 0 .. Attempts]
  BY DEF Fetch, TryInv, LifeTypeOK
<1> QED
  BY <1>1, <1>2 DEF TryInv

LEMMA TryStep == LifeTypeOK /\ TryInv /\ [Next]_vars => TryInv'
<1> SUFFICES ASSUME LifeTypeOK, TryInv, [Next]_vars
             PROVE  TryInv'
  OBVIOUS
<1>1. ASSUME UNCHANGED <<pc, attempt>>
      PROVE  TryInv'
  BY <1>1 DEF TryInv
<1>2. ASSUME NEW f \in Fetchers, NEW s \in OfferState \ {"retry"}, Goto(f, s)
      PROVE  TryInv'
  BY <1>2, GotoTries
<1>3. Offers \subseteq Fetchers /\ Preps \subseteq Fetchers /\ 1 \in 0 .. Attempts
  BY CameraAssumption DEF Fetchers, CameraAssumption
<1>4. \A s \in {"idle", "done", "ending", "closing", "connect", "offer", "subscribe", "wait"} :
          s \in OfferState \ {"retry"}
  BY DEF OfferState, FetchState
<1>5. ASSUME NEW f \in Fetchers, Fails(f)
      PROVE  TryInv'
  BY <1>2, <1>4, <1>5 DEF Fails
<1>6. ASSUME NEW f \in Fetchers, FetchStep(f)
      PROVE  TryInv'
  <2>1. CASE WaitOver(f)
    <3>1. CASE attempt[f] < Attempts /\ Goto(f, "retry")
      <4>1. "retry" \in OfferState
        BY DEF OfferState, FetchState
      <4> QED
        BY <3>1, <4>1, GotoTries
    <3>2. CASE UseConfig(f)
      BY <1>2, <1>4, <1>5, <3>2 DEF UseConfig
    <3> QED
      BY <1>5, <2>1, <3>1, <3>2 DEF WaitOver
  <2>2. CASE Retry(f)
    <3>1. attempt[f] + 1 \in 0 .. Attempts
      BY <2>2, CameraAssumption DEF TryInv, Retry, CameraAssumption
    <3> QED
      BY <2>2, <3>1, FetchTries DEF Retry
  <2> QED
    BY <1>2, <1>4, <1>5, <1>6, <2>1, <2>2 DEF FetchStep, StartReturns, Subscribed
<1>7. ASSUME NEW o \in Offers, Run(o)
      PROVE  TryInv'
  BY <1>2, <1>3, <1>4, <1>7, FetchTries DEF Run
<1>8. ASSUME NEW o \in Offers, Offer(o) \/ OfferStep(o)
      PROVE  TryInv'
  BY <1>2, <1>3, <1>4, <1>5, <1>7, <1>8
     DEF Offer, OfferStep, OfferProceeds, Connects, OfferSent, OfferEnds
<1>9. ASSUME NEW o \in Offers, HangUp(o) \/ PumpEnds(o) \/ ViewerCloses(o) \/ CloseResumes(o)
      PROVE  TryInv'
  BY <1>1, <1>9 DEF HangUp, PumpEnds, ViewerCloses, CloseResumes
<1>10. ASSUME NEW p \in Preps, Prepare(p)
       PROVE  TryInv'
  BY <1>3, <1>10, FetchTries DEF Prepare
<1>11. CASE ChooseCamera \/ Update \/ SetHold \/ UNCHANGED vars
  BY <1>1, <1>11 DEF ChooseCamera, Update, SetHold, vars
<1> QED
  BY <1>6, <1>8, <1>9, <1>10, <1>11 DEF Next

-----------------------------------------------------------------------------
(* A step that asks for no camera: sessions and preparations go on or end, *)
(* and a preparation that ends well leaves what it asked for.              *)
LEMMA KeepsView ==
    ASSUME ViewInv,
           UNCHANGED <<chosen, camera, astray>>, hold' \in BOOLEAN,
           cfg' \in [Fetchers -> Cameras \cup {None}],
           \A f \in Fetchers : cfg'[f] \in {cfg[f], None},
           sess' \subseteq Offers, \A o \in sess' : o \in sess \/ pc[o] = "idle",
           \A o \in Offers : pc'[o] \in {"idle", "closing"} => pc[o] \in {"idle", "closing"},
           \A p \in Preps : pc'[p] # "idle" => pc[p] # "idle" /\ cfg'[p] = cfg[p],
           \/ prepared' \in {None, prepared}
           \/ \E p \in Preps : pc[p] # "idle" /\ prepared' = [for |-> camera, cam |-> cfg[p]]
    PROVE  ViewInv'
<1>1. ViewTypeOK /\ Offers \subseteq Fetchers /\ Preps \subseteq Fetchers
  BY DEF ViewInv, Fetchers
<1>2. prepared' \in [for : Cameras, cam : Cameras] \cup {None}
  BY <1>1 DEF ViewInv, ViewTypeOK, ConfigFollows
<1>3. ViewTypeOK'
  BY <1>1, <1>2 DEF ViewTypeOK
<1>4. ConfigFollows'
  BY <1>1 DEF ViewInv, ConfigFollows
<1>5. CameraFollows'
  <2> SUFFICES ASSUME ~astray
               PROVE  /\ \A o \in sess' : cfg'[o] # None => camera = cfg'[o]
                      /\ \A p \in Preps : pc'[p] # "idle" => camera = cfg'[p]
                      /\ prepared' # None => prepared'.for = prepared'.cam
    BY DEF CameraFollows
  <2>1. \A o \in sess' : cfg'[o] # None => camera = cfg'[o]
    BY <1>1 DEF ViewInv, ConfigFollows, CameraFollows
  <2>2. \A p \in Preps : pc'[p] # "idle" => camera = cfg'[p]
    BY DEF ViewInv, CameraFollows
  <2>3. prepared' # None => prepared'.for = prepared'.cam
    BY DEF ViewInv, CameraFollows
  <2> QED
    BY <2>1, <2>2, <2>3
<1>6. ShowsChosen'
  BY <1>1 DEF ViewInv, ConfigFollows, ShowsChosen
<1> QED
  BY <1>3, <1>4, <1>5, <1>6 DEF ViewInv

(* A session or a preparation f asks for the camera chosen, or a session   *)
(* takes what was prepared for it.                                         *)
AsksFor(f, c) ==
    /\ camera' = chosen /\ cfg' = [cfg EXCEPT ![f] = c]
    /\ \E s \in {"start", "connect"} : pc' = [pc EXCEPT ![f] = s]
    /\ astray' \in BOOLEAN
    /\ ~astray' => ~astray /\ c = chosen /\ \A p \in Preps \ {f} : pc[p] = "idle"

LEMMA AskKeepsView ==
    ASSUME LifeTypeOK, ViewInv, NEW f \in Fetchers, NEW c \in Cameras, AsksFor(f, c),
           UNCHANGED <<chosen, hold>>, prepared' \in {None, prepared},
           sess' \subseteq sess \cup {f}, sess' \subseteq Offers
    PROVE  ViewInv'
<1>1. ViewTypeOK /\ Offers \subseteq Fetchers /\ Preps \subseteq Fetchers
  BY DEF ViewInv, Fetchers
<1>2. /\ cfg' \in [Fetchers -> Cameras \cup {None}] /\ cfg'[f] = c
      /\ pc'[f] \in {"start", "connect"}
      /\ \A g \in Fetchers : g # f => cfg'[g] = cfg[g] /\ pc'[g] = pc[g]
  BY <1>1 DEF ViewTypeOK, LifeTypeOK, AsksFor
<1>3. ViewTypeOK'
  BY <1>1, <1>2 DEF ViewTypeOK, AsksFor
<1>4. ConfigFollows'
  BY <1>1, <1>2 DEF ViewInv, ViewTypeOK, ConfigFollows, AsksFor
<1>5. ShowsChosen'
  BY <1>1, <1>2 DEF ViewInv, ShowsChosen, AsksFor
<1>6. CameraFollows'
  BY <1>1, <1>2 DEF ViewInv, ShowsChosen, CameraFollows, AsksFor
<1> QED
  BY <1>3, <1>4, <1>5, <1>6 DEF ViewInv

LEMMA FetchAsks ==
    ASSUME ViewTypeOK, NEW f \in Fetchers, NEW n, Fetch(f, n)
    PROVE  AsksFor(f, chosen)
BY DEF Fetch, AsksFor, ViewTypeOK

LEMMA RunKeepsView ==
    ASSUME LifeTypeOK, ViewInv, NEW o \in Offers, Run(o), UNCHANGED <<chosen, hold>>,
           sess' \subseteq sess \cup {o}
    PROVE  ViewInv'
<1>1. ViewTypeOK /\ o \in Fetchers /\ sess' \subseteq Offers /\ o \notin Preps /\ prepared' = None
  BY CameraAssumption DEF ViewInv, Fetchers, LifeTypeOK, Run, CameraAssumption
<1>2. CASE Fetch(o, 1)
  BY <1>1, <1>2, FetchAsks, AskKeepsView DEF ViewTypeOK
<1>3. CASE /\ SuitsOffer /\ camera' = prepared.for
           /\ cfg' = [cfg EXCEPT ![o] = prepared.cam]
           /\ Goto(o, "connect")
           /\ astray' = (astray \/ \E p \in Preps : pc[p] # "idle")
  <2>1. prepared.cam \in Cameras /\ prepared.for = chosen
    BY <1>1, <1>3 DEF ViewTypeOK, SuitsOffer
  <2>2. ~astray => prepared.cam = chosen
    BY <1>3, <2>1 DEF ViewInv, CameraFollows, SuitsOffer
  <2>3. AsksFor(o, prepared.cam)
    BY <1>1, <1>3, <2>1, <2>2 DEF AsksFor, Goto, ViewTypeOK
  <2> QED
    BY <1>1, <2>1, <2>3, AskKeepsView
<1> QED
  BY <1>2, <1>3 DEF Run

LEMMA FailKeepsView ==
    ASSUME LifeInv, ViewInv, NEW f \in Fetchers, pc[f] \notin {"idle", "closing"}, Fails(f),
           UNCHANGED <<chosen, hold, camera, astray>>, prepared' \in {None, prepared}
    PROVE  ViewInv'
<1>1. LifeTypeOK /\ ViewTypeOK /\ hold' \in BOOLEAN
  BY DEF LifeInv, ViewInv, ViewTypeOK
<1>2. \E s \in {"ending", "done", "idle"} :
          pc' = [pc EXCEPT ![f] = s] /\ (s = "idle" <=> f \in Preps)
  BY <1>1, CameraAssumption DEF Fails, Goto, LifeTypeOK, CameraAssumption
<1>3. cfg' = [cfg EXCEPT ![f] = None] /\ sess' \subseteq sess
  BY DEF Fails, Close
<1>4. /\ cfg' \in [Fetchers -> Cameras \cup {None}]
      /\ \A g \in Fetchers : cfg'[g] \in {cfg[g], None} /\ (g # f => cfg'[g] = cfg[g])
  BY <1>1, <1>3 DEF ViewTypeOK
<1>5. /\ \A p \in Preps : pc'[p] # "idle" => p # f /\ pc[p] = pc'[p]
      /\ \A o \in Offers : pc'[o] \in {"idle", "closing"} => pc[o] \in {"idle", "closing"}
  BY <1>1, <1>2, CameraAssumption DEF LifeTypeOK, Fetchers, CameraAssumption
<1>6. Preps \subseteq Fetchers /\ sess' \subseteq Offers
  BY <1>1, <1>3 DEF Fetchers, LifeTypeOK
<1> QED
  BY <1>1, <1>3, <1>4, <1>5, <1>6, KeepsView

(* A session closes, and a newer offer may take its place.                 *)
LEMMA CloseKeepsView ==
    ASSUME LifeInv, ViewInv, NEW v \in sess, NEW inPump, NEW left, Close(v, inPump, left),
           \A o \in left : o \in sess \/ pc[o] = "idle", left \subseteq Offers,
           UNCHANGED <<chosen, hold, camera, prepared, astray>>,
           \A p \in Preps : pc'[p] = pc[p],
           \A o \in Offers : pc'[o] = "idle" => pc[o] = "idle",
           \A o \in Offers : pc'[o] = "closing" => pc[o] \in {"idle", "closing"}
    PROVE  ViewInv'
<1>1. LifeTypeOK /\ ViewTypeOK /\ hold' \in BOOLEAN /\ v \in Offers /\ v \notin Preps
  BY CameraAssumption DEF LifeInv, LifeTypeOK, ViewInv, ViewTypeOK, CameraAssumption
<1>2. cfg' = [cfg EXCEPT ![v] = None] /\ sess' = left
  BY DEF Close
<1>3. /\ cfg' \in [Fetchers -> Cameras \cup {None}]
      /\ \A g \in Fetchers : cfg'[g] \in {cfg[g], None} /\ (g # v => cfg'[g] = cfg[g])
  BY <1>1, <1>2 DEF ViewTypeOK
<1>4. \A p \in Preps : pc'[p] # "idle" => pc[p] # "idle" /\ cfg'[p] = cfg[p]
  BY <1>1, <1>3 DEF Fetchers
<1> QED
  BY <1>1, <1>2, <1>3, <1>4, KeepsView

(* The card, a closing task or a start that goes on touch no camera.       *)
LEMMA GoesOnKeepsView ==
    ASSUME LifeTypeOK, ViewInv, UNCHANGED <<chosen, camera, astray, cfg, sess>>,
           hold' \in BOOLEAN, prepared' \in {None, prepared},
           \/ pc' = pc
           \/ \E f \in Fetchers, s \in {"subscribe", "wait", "retry", "connect", "offer", "done"} :
                 Goto(f, s) /\ (f \in Preps => pc[f] # "idle")
    PROVE  ViewInv'
<1>1. /\ \A p \in Preps : pc'[p] # "idle" => pc[p] # "idle"
      /\ \A o \in Offers : pc'[o] \in {"idle", "closing"} => pc[o] \in {"idle", "closing"}
  BY DEF Goto, LifeTypeOK, Fetchers
<1>2. cfg' \in [Fetchers -> Cameras \cup {None}] /\ sess \subseteq Offers
  BY DEF ViewInv, ViewTypeOK, LifeTypeOK
<1> QED
  BY <1>1, <1>2, KeepsView

LEMMA FetchKeepsView ==
    ASSUME LifeInv, ViewInv, NEW f \in Fetchers, FetchStep(f)
    PROVE  ViewInv'
<1>1. LifeTypeOK /\ ViewTypeOK /\ sess \subseteq Offers /\ (f \in Preps => f \notin Offers)
  BY CameraAssumption DEF LifeInv, LifeTypeOK, ViewInv, CameraAssumption
<1>2. pc[f] \notin {"idle", "closing"}
  BY DEF FetchStep, StartReturns, Subscribed, WaitOver, Retry
<1>3. UNCHANGED <<chosen, hold>> /\ hold' \in BOOLEAN
  BY <1>1 DEF FetchStep, StartReturns, Subscribed, WaitOver, Retry, picker, ViewTypeOK
<1>4. CASE StartReturns(f)
  <2>1. UNCHANGED <<camera, prepared, astray>> /\ prepared' \in {None, prepared}
    BY <1>4 DEF StartReturns
  <2>2. CASE Goto(f, "subscribe") /\ UNCHANGED <<closers, sub, ws>>
    <3>1. UNCHANGED <<cfg, sess>>
      BY <2>2 DEF closers
    <3> QED
      BY <1>1, <1>2, <1>3, <2>1, <2>2, <3>1, GoesOnKeepsView
  <2> QED
    BY <1>2, <1>3, <1>4, <2>1, <2>2, FailKeepsView DEF StartReturns
<1>5. CASE Subscribed(f)
  <2>1. UNCHANGED <<camera, prepared, astray>> /\ prepared' \in {None, prepared}
    BY <1>5 DEF Subscribed
  <2>2. CASE Goto(f, "wait") /\ UNCHANGED <<closers, ws>>
    <3>1. UNCHANGED <<cfg, sess>>
      BY <2>2 DEF closers
    <3> QED
      BY <1>1, <1>2, <1>3, <2>1, <2>2, <3>1, GoesOnKeepsView
  <2> QED
    BY <1>2, <1>3, <1>5, <2>1, <2>2, FailKeepsView DEF Subscribed
<1>6. CASE WaitOver(f)
  <2>1. UNCHANGED <<camera, astray>>
    BY <1>6 DEF WaitOver
  <2>2. CASE Goto(f, "retry") /\ UNCHANGED <<prepared, closers, ws>>
    <3>1. UNCHANGED <<cfg, sess>> /\ prepared' \in {None, prepared}
      BY <2>2 DEF closers
    <3> QED
      BY <1>1, <1>2, <1>3, <2>1, <2>2, <3>1, GoesOnKeepsView
  <2>3. CASE prepared' = None /\ Goto(f, "connect") /\ UNCHANGED <<closers, ws>>
    <3>1. UNCHANGED <<cfg, sess>> /\ prepared' \in {None, prepared}
      BY <2>3 DEF closers
    <3> QED
      BY <1>1, <1>2, <1>3, <2>1, <2>3, <3>1, GoesOnKeepsView
  <2>4. CASE Fails(f) /\ prepared' \in {None, prepared}
    BY <1>2, <1>3, <2>1, <2>4, FailKeepsView
  <2>5. CASE /\ f \in Preps
             /\ prepared' = [for |-> camera, cam |-> cfg[f]]
             /\ Goto(f, "idle")
             /\ cfg' = [cfg EXCEPT ![f] = None]
             /\ UNCHANGED <<sess, streaming, closed, pump, cl, ws>>
    <3>1. /\ cfg' \in [Fetchers -> Cameras \cup {None}]
          /\ \A g \in Fetchers : cfg'[g] \in {cfg[g], None} /\ (g # f => cfg'[g] = cfg[g])
      BY <1>1, <2>5 DEF ViewTypeOK
    <3>2. /\ \A p \in Preps : pc'[p] # "idle" => p # f /\ pc[p] = pc'[p]
          /\ \A o \in Offers : pc'[o] = pc[o]
      BY <1>1, <2>5 DEF Goto, LifeTypeOK, Fetchers
    <3>3. Preps \subseteq Fetchers
      BY DEF Fetchers
    <3> QED
      BY <1>1, <1>2, <1>3, <2>1, <2>5, <3>1, <3>2, <3>3, KeepsView
  <2> QED
    BY <1>6, <2>2, <2>3, <2>4, <2>5 DEF WaitOver, UseConfig
<1>7. CASE Retry(f)
  BY <1>1, <1>3, <1>7, FetchAsks, AskKeepsView DEF Retry, ViewTypeOK
<1> QED
  BY <1>4, <1>5, <1>6, <1>7 DEF FetchStep

LEMMA OfferKeepsView ==
    ASSUME LifeInv, ViewInv, NEW o \in Offers, Offer(o)
    PROVE  ViewInv'
<1>1. LifeTypeOK /\ pc[o] = "idle" /\ UNCHANGED <<chosen, hold>> /\ o \notin Preps /\ o \in Fetchers
  BY CameraAssumption DEF LifeInv, Offer, picker, Fetchers, CameraAssumption
<1>2. CASE sess = {} /\ sess' = {o} /\ Run(o)
  BY <1>1, <1>2, RunKeepsView
<1>3. ASSUME NEW v \in sess, Close(v, FALSE, (sess \ {v}) \cup {o}), Goto(o, "closing"),
             UNCHANGED <<camera, prepared, astray>>
      PROVE  ViewInv'
  <2>1. /\ \A q \in Offers : pc'[q] = pc[q] \/ (q = o /\ pc'[q] = "closing")
        /\ \A p \in Preps : pc'[p] = pc[p]
    BY <1>1, <1>3 DEF Goto, LifeTypeOK, Fetchers
  <2>2. (sess \ {v}) \cup {o} \subseteq Offers
    BY <1>1 DEF LifeTypeOK
  <2> QED
    BY <1>1, <1>3, <2>1, <2>2, CloseKeepsView
<1> QED
  BY <1>2, <1>3 DEF Offer

LEMMA OfferStepKeepsView ==
    ASSUME LifeInv, ViewInv, NEW o \in Offers, OfferStep(o)
    PROVE  ViewInv'
<1>1. LifeTypeOK /\ o \in Fetchers /\ o \notin Preps /\ hold \in BOOLEAN
  BY CameraAssumption DEF LifeInv, ViewInv, ViewTypeOK, Fetchers, CameraAssumption
<1>2. UNCHANGED <<chosen, hold>>
  BY DEF OfferStep, OfferProceeds, Connects, OfferSent, OfferEnds, picker
<1>3. ASSUME NEW s \in {"offer", "done"}, Goto(o, s),
             UNCHANGED <<camera, prepared, astray, cfg, sess>>
      PROVE  ViewInv'
  BY <1>1, <1>2, <1>3, GoesOnKeepsView
<1>4. CASE OfferProceeds(o)
  BY <1>1, <1>2, <1>3, <1>4, RunKeepsView DEF OfferProceeds
<1>5. CASE Connects(o)
  <2>1. UNCHANGED <<camera, prepared, astray>> /\ pc[o] = "connect"
    BY <1>5 DEF Connects
  <2> QED
    BY <1>1, <1>2, <1>3, <1>5, <2>1, FailKeepsView DEF Connects, closers
<1>6. CASE OfferSent(o)
  <2>1. UNCHANGED <<camera, prepared, astray>> /\ pc[o] = "offer"
    BY <1>6 DEF OfferSent
  <2> QED
    BY <1>1, <1>2, <1>3, <1>6, <2>1, FailKeepsView DEF OfferSent, closers
<1>7. CASE OfferEnds(o)
  BY <1>3, <1>7 DEF OfferEnds, closers
<1> QED
  BY <1>4, <1>5, <1>6, <1>7 DEF OfferStep

(* A camera is picked: a session of another one closes, or the card holds  *)
(* the switch, which is astray.                                            *)
LEMMA ChoiceKeepsView ==
    ASSUME LifeInv, ViewInv, ChooseCamera
    PROVE  ViewInv'
<1>1. LifeTypeOK /\ ViewTypeOK /\ UNCHANGED <<hold, camera, prepared, pc>>
  BY DEF LifeInv, ViewInv, ChooseCamera
<1>2. PICK c \in Cameras : /\ chosen' = c
                           /\ astray' = (astray \/ (hold /\ c # chosen))
                           /\ CoordinatorUpdates(c)
  BY DEF ChooseCamera
<1>3. None \notin Cameras /\ Offers \subseteq Fetchers /\ Preps \subseteq Fetchers
      /\ \A p \in Preps : p \notin Offers
  BY CameraAssumption DEF Fetchers, CameraAssumption
<1>4. CASE cfg' = cfg /\ sess' = sess /\ (sess = {} \/ camera \in {None, c} \/ hold)
  <2>1. ViewTypeOK' /\ ConfigFollows'
    BY <1>1, <1>2, <1>4 DEF ViewInv, ViewTypeOK, ConfigFollows
  <2>2. CameraFollows'
    BY <1>1, <1>2, <1>4 DEF ViewInv, CameraFollows
  <2>3. ~astray' /\ sess # {} => c = chosen \/ camera \in {None, c}
    BY <1>2, <1>4
  <2>4. \A o \in sess : cfg[o] \in Cameras \cup {None}
    BY <1>1, <1>3 DEF LifeTypeOK, ViewTypeOK
  <2>5. ~astray' => ~astray
    BY <1>2
  <2>6. ShowsChosen'
    BY <1>2, <1>3, <1>4, <2>3, <2>4, <2>5 DEF ViewInv, CameraFollows, ShowsChosen
  <2> QED
    BY <2>1, <2>2, <2>6 DEF ViewInv
<1>5. ASSUME NEW o \in sess, Close(o, FALSE, sess \ {o})
      PROVE  ViewInv'
  <2>1. o \in Offers /\ sess' = {} /\ cfg' = [cfg EXCEPT ![o] = None]
    BY <1>1, <1>5 DEF LifeInv, LifeTypeOK, AtMostOne, Close
  <2>2. \A g \in Fetchers : cfg'[g] \in {cfg[g], None} /\ (g # o => cfg'[g] = cfg[g])
    BY <1>1, <2>1 DEF ViewTypeOK
  <2>3. ViewTypeOK'
    BY <1>1, <1>2, <2>1 DEF ViewTypeOK
  <2>4. ConfigFollows'
    BY <1>1, <1>3, <2>1, <2>2 DEF ViewInv, ConfigFollows
  <2>5. CameraFollows'
    BY <1>1, <1>2, <1>3, <2>1, <2>2 DEF ViewInv, CameraFollows
  <2>6. ShowsChosen'
    BY <2>1 DEF ShowsChosen
  <2> QED
    BY <2>3, <2>4, <2>5, <2>6 DEF ViewInv
<1> QED
  BY <1>2, <1>4, <1>5 DEF CoordinatorUpdates, closers

LEMMA ViewStep == LifeInv /\ ViewInv /\ [Next]_vars => ViewInv'
<1> SUFFICES ASSUME LifeInv, ViewInv, [Next]_vars
             PROVE  ViewInv'
  OBVIOUS
<1>1. LifeTypeOK /\ ViewTypeOK /\ sess \subseteq Offers
  BY DEF LifeInv, LifeTypeOK, ViewInv
<1>2. ASSUME NEW o \in sess, NEW inPump, Close(o, inPump, sess \ {o}),
             UNCHANGED <<chosen, hold, camera, prepared, pc, astray>>
      PROVE  ViewInv'
  BY <1>1, <1>2, CloseKeepsView
<1>3. ASSUME UNCHANGED <<chosen, camera, prepared, pc, astray, cfg, sess>>, hold' \in BOOLEAN
      PROVE  ViewInv'
  BY <1>1, <1>3, GoesOnKeepsView
<1>4. ASSUME NEW f \in Fetchers, FetchStep(f)
      PROVE  ViewInv'
  BY <1>4, FetchKeepsView
<1>5. ASSUME NEW p \in Preps, Prepare(p)
      PROVE  ViewInv'
  BY <1>1, <1>5, FetchAsks, AskKeepsView DEF Prepare, picker, ViewTypeOK, Fetchers
<1>6. ASSUME NEW o \in Offers,
             \/ Offer(o) \/ OfferStep(o)
             \/ HangUp(o) \/ PumpEnds(o)
             \/ ViewerCloses(o) \/ CloseResumes(o)
      PROVE  ViewInv'
  <2>1. CASE HangUp(o)
    BY <1>2, <2>1 DEF HangUp, picker
  <2>2. CASE ViewerCloses(o)
    BY <1>2, <2>2 DEF ViewerCloses, picker
  <2>3. CASE PumpEnds(o)
    BY <1>1, <1>3, <2>3 DEF PumpEnds, picker, ViewTypeOK
  <2>4. CASE CloseResumes(o)
    BY <1>1, <1>3, <2>4 DEF CloseResumes, picker, ViewTypeOK
  <2> QED
    BY <1>6, <2>1, <2>2, <2>3, <2>4, OfferKeepsView, OfferStepKeepsView
<1>7. CASE ChooseCamera
  BY <1>7, ChoiceKeepsView
<1>8. CASE Update
  <2>1. CASE UNCHANGED <<closers, sub, ws>>
    BY <1>1, <1>3, <1>8, <2>1 DEF Update, picker, closers, ViewTypeOK
  <2> QED
    BY <1>2, <1>8, <2>1 DEF Update, CoordinatorUpdates, picker
<1>9. CASE SetHold \/ UNCHANGED vars
  BY <1>1, <1>3, <1>9 DEF SetHold, closers, vars, ViewTypeOK
<1> QED
  BY <1>4, <1>5, <1>6, <1>7, <1>8, <1>9 DEF Next

-----------------------------------------------------------------------------
LEMMA CameraInvariant == Spec => []CameraInv
<1>1. Init => CameraInv
  <2> SUFFICES ASSUME Init
               PROVE  CameraInv
    OBVIOUS
  <2>1. 0 \in 0 .. Attempts /\ \A p \in Preps : p \in Fetchers
    BY CameraAssumption DEF CameraAssumption, Fetchers
  <2>2. Offers \subseteq Fetchers
    BY DEF Fetchers
  <2>3. LifeTypeOK
    BY <2>1, <2>2 DEF Init, LifeTypeOK, OfferState
  <2>4. LifeInv
    BY <2>2, <2>3 DEF Init, LifeInv, HasSession, AtMostOne, PumpFollows, SocketLast,
                SessionIsAlive, NoCircularWait, StreamingEnds
  <2>5. TryInv
    BY <2>1 DEF Init, TryInv
  <2>6. ViewInv
    BY <2>1, <2>2 DEF Init, ViewInv, ViewTypeOK, ConfigFollows, CameraFollows, ShowsChosen
  <2> QED
    BY <2>4, <2>5, <2>6 DEF CameraInv
<1>2. CameraInv /\ [Next]_vars => CameraInv'
  BY LifeStep, TryStep, ViewStep DEF CameraInv, ViewInv, ViewTypeOK, LifeInv
<1> QED
  BY <1>1, <1>2, PTL DEF Spec

(* At most one session is listed; the one that stays after its offer has   *)
(* returned has a pump that runs, and the entity streams; and no close     *)
(* waits for the pump that runs it.                                        *)
THEOREM OneSessionLives == Spec => []OneLiveSession
<1>1. CameraInv => OneLiveSession
  <2> SUFFICES ASSUME CameraInv
               PROVE  OneLiveSession
    OBVIOUS
  <2>1. TypeOK
    <3>1. /\ {chosen} \cup {cfg[f] : f \in Fetchers} \subseteq Cameras \cup {None}
          /\ camera \in Cameras \cup {None} /\ chosen # None
          /\ {hold, streaming, astray} \subseteq BOOLEAN
      BY CameraAssumption DEF CameraInv, LifeInv, LifeTypeOK, ViewInv, ViewTypeOK, CameraAssumption
    <3>2. \A o \in Offers : pc[o] \in OfferState
      BY DEF CameraInv, LifeInv, LifeTypeOK, Fetchers
    <3>3. attempt \in [Fetchers -> 0 .. Attempts] /\ prepared \in [for : Cameras, cam : Cameras] \cup {None}
      BY DEF CameraInv, TryInv, ViewInv, ViewTypeOK
    <3> QED
      BY <3>1, <3>2, <3>3 DEF TypeOK, CameraInv, LifeInv, LifeTypeOK
  <2>2. OneSession
    <3>1. CASE sess = {}
      BY <3>1, FS_EmptySet DEF OneSession
    <3>2. ASSUME NEW o \in sess
          PROVE  OneSession
      <4>1. sess = {o}
        BY DEF CameraInv, LifeInv, AtMostOne
      <4>2. Cardinality({o}) = 1
        BY FS_Singleton
      <4> QED
        BY <4>1, <4>2 DEF OneSession
    <3> QED
      BY <3>1, <3>2
  <2> QED
    BY <2>1, <2>2 DEF OneLiveSession, CameraInv, LifeInv
<1> QED
  BY <1>1, CameraInvariant, PTL

(* What is closed leaves nothing behind, wherever its offer was: no socket,*)
(* pump or subscription, and no entity that says it streams.               *)
THEOREM NothingIsLeft == Spec => []ClosedForGood
<1>1. CameraInv => ClosedForGood
  <2> SUFFICES ASSUME CameraInv
               PROVE  ClosedForGood
    OBVIOUS
  <2>1. ASSUME NEW o \in Offers, pc[o] = "done", cl[o] = "done", pump[o] # "closing"
        PROVE  ws[o] # "open" /\ pump[o] = "off" /\ o \notin sub
    <3>1. o \in closed /\ o \notin sub
      BY <2>1 DEF CameraInv, LifeInv, LifeTypeOK
    <3> QED
      BY <2>1, <3>1 DEF CameraInv, LifeInv, LifeTypeOK, PumpFollows, SocketLast
  <2> QED
    BY <2>1 DEF ClosedForGood, NothingLeftOver, CameraInv, LifeInv
<1> QED
  BY <1>1, CameraInvariant, PTL

(* A session shows the camera picked, whatever was prepared, unless a      *)
(* preparation ran while it chose or the card held the switch.             *)
THEOREM ShownIsPicked == Spec => []ShowsChosen
<1>1. CameraInv => ShowsChosen
  BY DEF CameraInv, ViewInv
<1> QED
  BY <1>1, CameraInvariant, PTL
=============================================================================
