------------------------------ MODULE LiveCamera ------------------------------
(***************************************************************************)
(* The Gear Guard live view of one vehicle: RivianLiveCameraEntity and     *)
(* _LiveSession (camera.py), with the camera picker (select.py) and the    *)
(* prepare and hold commands (camera_ws.py).  The processes are asyncio    *)
(* tasks: the offers that viewers send, the preparations that the card     *)
(* asks for, a pump per signalling socket, and the tasks that close a      *)
(* session.  A step runs from one await that may suspend to the next.  The *)
(* vehicle, the gateway and the signalling service are external.  ICE      *)
(* candidates, the messages a pump relays and SDP are left out.            *)
(***************************************************************************)
EXTENDS Naturals, FiniteSets

CONSTANTS Offers,    \* offers; an offer is also its session id and its session
          Preps,     \* tasks that run async_prepare_live again and again
          Cameras,
          Attempts,  \* LIVE_START_ATTEMPTS
          None

ASSUME CameraAssumption ==
    /\ Offers \cap Preps = {} /\ None \notin Offers \cup Cameras
    /\ Attempts \in Nat \ {0} /\ Cameras # {}

Fetchers == Offers \cup Preps

VARIABLES
    chosen,     \* _vas_camera: the camera picked
    hold,       \* _live_switch_hold
    camera,     \* _session_camera
    prepared,   \* _prepared: its camera, and the one its START asked for; or None
    sess,       \* the keys of _sessions
    streaming,  \* _attr_is_streaming
    pc,         \* where each offer and preparation is suspended
    attempt,    \* the attempt its _async_fetch_live_config is at, 0 outside it
    cfg,        \* the camera its last START asked for, or the config it took
                \* shows; None again when the session or the preparation is over
    victim,     \* the session an offer waits for, which it closes first
    closed,     \* the sessions with closed
    sub,        \* external: live-config subscriptions in the client, each an offer
                \* or a preparation
    ws,         \* external: each session's signalling socket
    pump,       \* each session's pump task
    cl,         \* where the task that closes a session is suspended
    astray      \* history: a session chose its camera during a preparation,
                \* or a camera was picked during a hold

vars == <<chosen, hold, camera, prepared, sess, streaming, pc, attempt, cfg,
          victim, closed, sub, ws, pump, cl, astray>>
picker  == <<chosen, hold>>
closers == <<sess, streaming, closed, pump, cl, cfg>>

FetchState == {"start", "subscribe", "wait", "retry"}
OfferState == FetchState \cup {"idle", "closing", "connect", "offer", "ending", "done"}

TypeOK ==
    /\ {chosen} \cup {cfg[f] : f \in Fetchers} \subseteq Cameras \cup {None}
    /\ camera \in Cameras \cup {None} /\ chosen # None
    /\ {hold, streaming, astray} \subseteq BOOLEAN
    /\ prepared \in [for : Cameras, cam : Cameras] \cup {None}
    /\ \A o \in Offers : pc[o] \in OfferState
    /\ \A p \in Preps : pc[p] \in FetchState \cup {"idle"}
    /\ attempt \in [Fetchers -> 0..Attempts]
    /\ \A o \in Offers : victim[o] # None <=> pc[o] = "closing"
    /\ victim \in [Offers -> Offers \cup {None}]
    /\ sess \in SUBSET Offers /\ closed \in SUBSET Offers /\ sess \cap closed = {}
    /\ sub \in SUBSET {f \in Fetchers : pc[f] = "wait"}
    /\ ws \in [Offers -> {"none", "open", "closed"}]
    /\ pump \in [Offers -> {"off", "on", "cancelled", "closing"}]
    /\ cl \in [Offers -> {"no", "pump", "unsub", "ws", "done"}]
    /\ \A o \in Offers : cl[o] = "no" <=> o \notin closed

Init ==
    /\ chosen \in Cameras /\ hold = FALSE /\ camera = None
    /\ prepared = None
    /\ sess = {} /\ streaming = FALSE
    /\ pc = [f \in Fetchers |-> "idle"]
    /\ attempt = [f \in Fetchers |-> 0]
    /\ cfg = [f \in Fetchers |-> None]
    /\ victim = [o \in Offers |-> None]
    /\ closed = {} /\ sub = {}
    /\ ws = [o \in Offers |-> "none"] /\ pump = [o \in Offers |-> "off"]
    /\ cl = [o \in Offers |-> "no"]
    /\ astray = FALSE

Goto(f, s) ==
    /\ pc' = [pc EXCEPT ![f] = s]
    /\ attempt' = [attempt EXCEPT ![f] = IF s \in FetchState THEN @ ELSE 0]

-----------------------------------------------------------------------------
(* Closing a session: _async_close_session and aclose.                     *)

(* aclose is over: the entity streams no more if no session is left.       *)
CloseDone(o, left) ==
    /\ cl' = [cl EXCEPT ![o] = "done"]
    /\ streaming' = (streaming /\ left # {})

(* aclose after the pump: the config subscription goes, then the socket.   *)
Release(o, left) ==
    /\ sub' = sub \ {o}
    /\ \/ /\ o \in sub
          /\ cl' = [cl EXCEPT ![o] = "unsub"]
          /\ UNCHANGED <<ws, streaming>>
       \/ /\ o \notin sub /\ ws[o] = "open"
          /\ ws' = [ws EXCEPT ![o] = "closed"]
          /\ cl' = [cl EXCEPT ![o] = "ws"]
          /\ UNCHANGED streaming
       \/ /\ o \notin sub /\ ws[o] # "open"
          /\ CloseDone(o, left)
          /\ UNCHANGED ws

CloseAwaitingPump(o, inPump, left) ==   \* mutant: a pump waits for itself
    /\ sess' = left /\ closed' = closed \cup {o}
    /\ cfg' = [cfg EXCEPT ![o] = None]
    /\ \/ /\ pump[o] = "on"
          /\ pump' = [pump EXCEPT ![o] = "closing"]
          /\ cl' = [cl EXCEPT ![o] = "pump"]
          /\ UNCHANGED <<sub, ws, streaming>>
       \/ /\ pump[o] # "on"
          /\ Release(o, left)
          /\ UNCHANGED pump

(* The session leaves _sessions, of which left remain, and a task begins   *)
(* to close it; when that is not its own pump, the pump is cancelled and   *)
(* waited for.                                                             *)
Close(o, inPump, left) ==
    /\ sess' = left /\ closed' = closed \cup {o}
    /\ cfg' = [cfg EXCEPT ![o] = None]
    /\ \/ /\ pump[o] = "on" /\ ~inPump
          /\ pump' = [pump EXCEPT ![o] = "cancelled"]
          /\ cl' = [cl EXCEPT ![o] = "pump"]
          /\ UNCHANGED <<sub, ws, streaming>>
       \/ /\ pump[o] # "on" \/ inPump
          /\ pump' = [pump EXCEPT ![o] = IF inPump THEN "closing" ELSE @]
          /\ Release(o, left)

CloseResumes(o) ==
    /\ \/ cl[o] = "pump" /\ pump[o] = "off" /\ Release(o, sess)
       \/ cl[o] = "unsub" /\ Release(o, sess)
       \/ cl[o] = "ws" /\ CloseDone(o, sess) /\ UNCHANGED <<sub, ws>>
    /\ UNCHANGED <<picker, camera, prepared, sess, pc, attempt, cfg, victim, closed,
                   pump, astray>>

-----------------------------------------------------------------------------
(* The offer or the fetch of f fails: an offer tells its viewer and closes *)
(* its own session, unless another task has; a preparation is given up.    *)
Fails(f) ==
    \/ /\ f \in sess
       /\ Close(f, FALSE, sess \ {f})
       /\ Goto(f, "ending")
    \/ /\ f \notin sess
       /\ Goto(f, IF f \in Preps THEN "idle" ELSE "done")
       /\ sub' = sub \ {f}
       /\ cfg' = [cfg EXCEPT ![f] = None]
       /\ UNCHANGED <<sess, streaming, closed, pump, cl, ws>>

(* One attempt of _async_fetch_live_config: START for the camera picked.   *)
Fetch(f, n) ==
    /\ camera' = chosen
    /\ cfg' = [cfg EXCEPT ![f] = chosen]
    /\ attempt' = [attempt EXCEPT ![f] = n]
    /\ pc' = [pc EXCEPT ![f] = "start"]
    /\ astray' = (astray \/ \E p \in Preps \ {f} : pc[p] # "idle")

(* START returned an id, none, or raised.                                  *)
StartReturns(f) ==
    /\ pc[f] = "start"
    /\ \/ /\ f \notin closed
          /\ Goto(f, "subscribe")
          /\ UNCHANGED <<closers, sub, ws>>
       \/ Fails(f)
    /\ UNCHANGED <<picker, camera, prepared, victim, astray>>

(* subscribe_gear_guard_live_config returned a handle, dropped at once if  *)
(* the session is closed; or None; or it raised.                           *)
Subscribed(f) ==
    /\ pc[f] = "subscribe"
    /\ \/ /\ f \notin closed
          /\ \/ sub' = sub \cup {f}
             \/ UNCHANGED sub
          /\ Goto(f, "wait")
          /\ UNCHANGED <<closers, ws>>
       \/ Fails(f)
    /\ UNCHANGED <<picker, camera, prepared, victim, astray>>

(* A config is there: the relays are cached, and an offer connects, if the *)
(* endpoint is a legal one; a preparation keeps it with _session_camera.   *)
UseConfig(f) ==
    /\ \/ /\ f \in Offers
          /\ prepared' = None
          /\ \/ Goto(f, "connect") /\ sub' = sub \ {f} /\ UNCHANGED <<closers, ws>>
             \/ Fails(f)
       \/ /\ f \in Preps
          /\ prepared' = [for |-> camera, cam |-> cfg[f]]
          /\ Goto(f, "idle") /\ sub' = sub \ {f}
          /\ cfg' = [cfg EXCEPT ![f] = None]
          /\ UNCHANGED <<sess, streaming, closed, pump, cl, ws>>

WaitForgetsHandle(f) ==   \* mutant: clears the handle before it unsubscribes
    /\ pc[f] = "wait"
    /\ \/ f \notin closed /\ f \in sub /\ UseConfig(f)
       \/ /\ f \notin closed /\ attempt[f] < Attempts
          /\ Goto(f, "retry")
          /\ UNCHANGED <<prepared, closers, sub, ws>>
       \/ Fails(f) /\ UNCHANGED prepared
    /\ UNCHANGED <<picker, camera, victim, astray>>

(* The wait is over, and the unsubscribing after it: the config is there;  *)
(* or the vehicle answered STREAMING_UNAVAILABLE; or it answered another   *)
(* code, the wait timed out, or the session was closed.                    *)
WaitOver(f) ==
    /\ pc[f] = "wait"
    /\ \/ /\ f \notin closed /\ f \in sub
          /\ UseConfig(f)
       \/ /\ f \notin closed /\ attempt[f] < Attempts
          /\ Goto(f, "retry") /\ sub' = sub \ {f}
          /\ UNCHANGED <<prepared, closers, ws>>
       \/ /\ Fails(f)
          /\ UNCHANGED prepared
    /\ UNCHANGED <<picker, camera, victim, astray>>

(* The delay before the next attempt is over: START is sent again, for a   *)
(* session that was closed meanwhile as well.                              *)
Retry(f) ==
    /\ pc[f] = "retry"
    /\ Fetch(f, attempt[f] + 1)
    /\ UNCHANGED <<picker, prepared, sess, streaming, closed, pump, cl, victim,
                   sub, ws>>

-----------------------------------------------------------------------------
SuitsAnyCamera == prepared # None   \* mutant: does not compare the cameras

(* _suits_offer of what is prepared, while it is less than 60 s old.       *)
SuitsOffer == prepared # None /\ prepared.for = chosen

(* async_prepare_live, under its lock: a fetch, as nothing is prepared, or *)
(* it is for another camera, or it or its relays are too old by now; the   *)
(* call that finds it usable does nothing.                                 *)
Prepare(p) ==
    /\ \A q \in Preps : pc[q] = "idle"
    /\ Fetch(p, 1)
    /\ UNCHANGED <<picker, prepared, sess, streaming, closed, pump, cl, victim,
                   sub, ws>>

-----------------------------------------------------------------------------
(* async_handle_async_webrtc_offer when no other session is left: what is  *)
(* prepared is taken, and used if it suits; else, or when it is too old, a *)
(* config is fetched.                                                      *)
Run(o) ==
    /\ prepared' = None
    /\ victim' = [victim EXCEPT ![o] = None]
    /\ \/ /\ SuitsOffer
          /\ camera' = prepared.for
          /\ cfg' = [cfg EXCEPT ![o] = prepared.cam]
          /\ Goto(o, "connect")
          /\ astray' = (astray \/ \E p \in Preps : pc[p] # "idle")
       \/ Fetch(o, 1)

OfferRegisters(o) ==   \* mutant: leaves the other sessions alone
    /\ pc[o] = "idle"
    /\ sess' = sess \cup {o}
    /\ Run(o)
    /\ UNCHANGED <<picker, streaming, closed, pump, cl, sub, ws>>

(* An offer is registered and every other session closed; there is at most *)
(* one (OneSession).                                                       *)
Offer(o) ==
    /\ pc[o] = "idle"
    /\ \/ /\ sess = {}
          /\ sess' = {o}
          /\ Run(o)
          /\ UNCHANGED <<streaming, closed, pump, cl, sub, ws>>
       \/ \E v \in sess :
             /\ Close(v, FALSE, (sess \ {v}) \cup {o})
             /\ victim' = [victim EXCEPT ![o] = v]
             /\ Goto(o, "closing")
             /\ UNCHANGED <<camera, prepared, astray>>
    /\ UNCHANGED picker

(* The other session is closed.                                            *)
OfferProceeds(o) ==
    /\ pc[o] = "closing" /\ cl[victim[o]] = "done"
    /\ \/ /\ o \notin closed
          /\ Run(o)
       \/ /\ o \in closed
          /\ Goto(o, "done")
          /\ victim' = [victim EXCEPT ![o] = None]
          /\ UNCHANGED <<camera, prepared, cfg, astray>>
    /\ UNCHANGED <<picker, sess, streaming, closed, pump, cl, sub, ws>>

ConnectsAnyway(o) ==   \* mutant: does not look at closed after the connect
    /\ pc[o] = "connect"
    /\ ws' = [ws EXCEPT ![o] = "open"] /\ pump' = [pump EXCEPT ![o] = "on"]
    /\ Goto(o, "offer")
    /\ UNCHANGED <<picker, camera, prepared, cfg, victim, astray, sess,
                   streaming, closed, cl, sub>>

(* ws_connect returns, to be closed at once if the session was; or raises. *)
Connects(o) ==
    /\ pc[o] = "connect"
    /\ \/ /\ o \notin closed
          /\ ws' = [ws EXCEPT ![o] = "open"]
          /\ pump' = [pump EXCEPT ![o] = "on"]
          /\ Goto(o, "offer")
          /\ UNCHANGED <<sess, streaming, closed, cl, cfg, sub>>
       \/ o \in closed /\ Goto(o, "done") /\ UNCHANGED <<closers, sub, ws>>
       \/ Fails(o)
    /\ UNCHANGED <<picker, camera, prepared, victim, astray>>

StreamsAnyway(o) ==   \* mutant: does not look at closed after the send
    /\ pc[o] = "offer"
    /\ streaming' = TRUE /\ Goto(o, "done")
    /\ UNCHANGED <<picker, camera, prepared, cfg, victim, astray, sess,
                   closed, pump, cl, sub, ws>>

(* The SDP offer is sent: the entity streams, unless the session is closed *)
(* by now; or the send raised.                                             *)
OfferSent(o) ==
    /\ pc[o] = "offer"
    /\ \/ /\ o \notin closed
          /\ streaming' = TRUE /\ Goto(o, "done")
          /\ UNCHANGED <<sess, closed, pump, cl, cfg, sub, ws>>
       \/ o \in closed /\ Goto(o, "done") /\ UNCHANGED <<closers, sub, ws>>
       \/ Fails(o)
    /\ UNCHANGED <<picker, camera, prepared, victim, astray>>

(* The offer's own session is closed, after a failure.                     *)
OfferEnds(o) ==
    /\ pc[o] = "ending" /\ cl[o] = "done"
    /\ Goto(o, "done")
    /\ UNCHANGED <<picker, camera, prepared, closers, victim, sub, ws, astray>>

-----------------------------------------------------------------------------
HangUpUnnoticed(o) ==   \* mutant: the pump ends and leaves its session there
    /\ pump[o] = "on" /\ pump' = [pump EXCEPT ![o] = "off"]
    /\ UNCHANGED <<picker, camera, prepared, sess, streaming, closed, cl, cfg, pc,
                   attempt, victim, sub, ws, astray>>

(* The service hangs up, or reading fails: the pump closes the session.    *)
HangUp(o) ==
    /\ pump[o] = "on" /\ o \in sess
    /\ Close(o, TRUE, sess \ {o})
    /\ UNCHANGED <<picker, camera, prepared, pc, attempt, victim, astray>>

(* A cancelled pump ends; one that closed its session ends with that.      *)
PumpEnds(o) ==
    /\ pump[o] = "cancelled" \/ (pump[o] = "closing" /\ cl[o] = "done")
    /\ pump' = [pump EXCEPT ![o] = "off"]
    /\ UNCHANGED <<picker, camera, prepared, sess, streaming, closed, cl, pc,
                   attempt, cfg, victim, sub, ws, astray>>

(* close_webrtc_session: the viewer has gone.  The removal of the entity   *)
(* closes its session the same way.                                        *)
ViewerCloses(o) ==
    /\ o \in sess
    /\ Close(o, FALSE, sess \ {o})
    /\ UNCHANGED <<picker, camera, prepared, pc, attempt, victim, astray>>

-----------------------------------------------------------------------------
(* _handle_coordinator_update, with the camera c picked: a session of      *)
(* another camera is closed, unless the card holds the switch.             *)
CoordinatorUpdates(c) ==
    \/ /\ sess = {} \/ camera \in {None, c} \/ hold
       /\ UNCHANGED <<closers, sub, ws>>
    \/ \E o \in sess :
          /\ camera \notin {None, c} /\ ~hold
          /\ Close(o, FALSE, sess \ {o})

ChooseCamera ==
    /\ \E c \in Cameras : /\ chosen' = c
                          /\ astray' = (astray \/ (hold /\ c # chosen))
                          /\ CoordinatorUpdates(c)
    /\ UNCHANGED <<hold, camera, prepared, pc, attempt, victim>>

(* Any update of the coordinator, a frame or a command's state.            *)
Update ==
    /\ CoordinatorUpdates(chosen)
    /\ UNCHANGED <<picker, camera, prepared, pc, attempt, victim, astray>>

SetHold ==
    /\ hold' = ~hold
    /\ UNCHANGED <<chosen, camera, prepared, closers, pc, attempt, cfg,
                   victim, sub, ws, astray>>

-----------------------------------------------------------------------------
FetchStep(f) == StartReturns(f) \/ Subscribed(f) \/ WaitOver(f) \/ Retry(f)
OfferStep(o) == OfferProceeds(o) \/ Connects(o) \/ OfferSent(o) \/ OfferEnds(o)

Next ==
    \/ \E f \in Fetchers : FetchStep(f)
    \/ \E p \in Preps : Prepare(p)
    \/ \E o \in Offers : \/ Offer(o) \/ OfferStep(o)
                         \/ HangUp(o) \/ PumpEnds(o)
                         \/ ViewerCloses(o) \/ CloseResumes(o)
    \/ ChooseCamera \/ Update \/ SetHold

Spec == Init /\ [][Next]_vars

-----------------------------------------------------------------------------
(* _sessions never holds two sessions: a newer offer supersedes the older  *)
(* one, also one whose own start is still under way.                       *)
OneSession == Cardinality(sess) <= 1

(* A session that is closed, wherever its offer was then, leaves nothing   *)
(* behind: no socket, no pump and no subscription.                         *)
NothingLeftOver ==
    \A o \in Offers :
        pc[o] = "done" /\ cl[o] = "done" /\ pump[o] # "closing"
            => ws[o] # "open" /\ pump[o] = "off" /\ o \notin sub

(* A session that stays in _sessions after its offer has returned has a    *)
(* pump, which closes it when its socket ends, and the entity streams.     *)
SessionIsAlive ==
    \A o \in sess : pc[o] = "done" => pump[o] = "on" /\ streaming

(* No close waits for the pump that runs it: aclose would await its own    *)
(* task, and an offer that waits for that close would never go on.         *)
NoCircularWait ==
    \A o \in Offers : cl[o] = "pump" => pump[o] # "closing"

(* The entity streams no more once the last session is closed.             *)
StreamingEnds ==
    streaming => sess # {} \/ \E o \in Offers : cl[o] \in {"pump", "unsub", "ws"}

(* A session shows the camera picked, whatever was prepared before, unless *)
(* the card held the switch or a session chose its camera while a          *)
(* preparation was under way: a config prepared for another camera is not  *)
(* used, and a session of another camera is closed when one is picked.     *)
ShowsChosen == ~astray => \A o \in sess : cfg[o] \in {None, chosen}

-----------------------------------------------------------------------------
(* What docs and tests say of this code, and the code does not do.         *)

(* test_camera.py: another camera picked between a preparation and the     *)
(* play does not stream the one that was prepared.                         *)
PlaysTheCameraPicked ==
    [][\A o \in Offers : pc[o] \in {"idle", "closing"} /\ pc'[o] = "connect"
                             => cfg'[o] = chosen]_vars

(* At most one session lives, the one that is listed is alive, and none    *)
(* waits for its own end.                                                  *)
OneLiveSession ==
    /\ TypeOK
    /\ OneSession
    /\ SessionIsAlive
    /\ NoCircularWait

(* A session that is over leaves nothing behind: no socket, task or        *)
(* subscription, and no entity that says it streams.                       *)
ClosedForGood ==
    /\ NothingLeftOver
    /\ StreamingEnds
=============================================================================
