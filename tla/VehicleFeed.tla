----------------------------- MODULE VehicleFeed -----------------------------
(***************************************************************************)
(* The subscriptions of one VehicleCoordinator (coordinator.py): how they  *)
(* are made by a refresh, renewed by the watchdog, dropped on bad frames   *)
(* and at shutdown.  The processes are asyncio tasks: the 15-minute poll,  *)
(* the debounced refresh, the watchdog loop, _unsubscribe tasks started by *)
(* bad frames, and async_shutdown.  A step runs from one await that may    *)
(* suspend to the next.  Home Assistant (the poll timer, the debouncer)    *)
(* and the server are external.  The module starts where a successful      *)
(* first refresh leaves the coordinator, so self.data is never empty.      *)
(***************************************************************************)
EXTENDS Naturals, Sequences, FiniteSets

CONSTANTS Unsubscribers,  \* bound: the _unsubscribe tasks that bad frames start
          MaxIds,         \* bound: the ids one feed has in _subscriptions
          MaxRaises,      \* bound: the writes of a message that raise
          MaxSuspended,   \* bound: the writes suspended at a time
          BackendFails,   \* bound: whether the backend ends streams
          Followed        \* bound: the feeds that are subscribed; to another
                          \* one the client answers as if not connected

ASSUME FeedAssumption ==
    /\ "vehicle" \in Followed
    /\ Unsubscribers \cap {"poll", "request", "watchdog", "shutdown"} = {}
    /\ MaxIds \in Nat /\ MaxIds >= 2 /\ MaxRaises \in Nat
    /\ MaxSuspended \in Nat /\ BackendFails \in BOOLEAN

SubOrder   == <<"vehicle", "tpms", "parallax", "cloud">>
UnsubOrder == <<"parallax", "tpms", "vehicle", "cloud">>
Feeds == {"vehicle", "tpms", "parallax", "cloud"}
Ids   == 1..MaxIds
None  == 0

Refreshes == {"poll", "request"}
Tasks     == Refreshes \cup {"watchdog", "shutdown"} \cup Unsubscribers

VARIABLES
    handle,    \* per feed: the id its unsubscribe handle removes, or None
    reg,       \* per feed: its ids in the client's _subscriptions
    mute,      \* external: the vehicle ids whose stream the server has ended
    initial,   \* _initial.is_set()
    lastOk,    \* last_update_success
    stale,     \* _last_update_time is more than 5 minutes ago
    tpmsAge,   \* the same of _tpms_last_update_time, which may be None
    asleep,    \* powerState in self.data is "sleep"
    pc,        \* where each task is suspended
    debounce,  \* external: the debouncer is ready, cooling down, or cooling
               \* down with a call to make at the end
    down,      \* async_shutdown: "no", "begun" or "done"
    raised,    \* history: the number of writes that have raised
    framed,    \* history: a vehicle frame was applied after the last
               \* vehicle subscription was made
    lost       \* history: per feed, the registered ids whose handle an
               \* _unsubscribe cleared though it had ended another one

vars == <<handle, reg, mute, initial, lastOk, stale, tpmsAge, asleep, pc,
          debounce, down, raised, framed, lost>>

At(s, n) == [at |-> s, n |-> n]
Off      == At("off", 0)

TypeOK ==
    /\ handle \in [Feeds -> Ids \cup {None}]
    /\ reg \in [Feeds -> SUBSET Ids] /\ mute \in SUBSET Ids
    /\ lost \in [Feeds -> SUBSET Ids]
    /\ {initial, lastOk, stale, asleep, framed} \subseteq BOOLEAN
    /\ tpmsAge \in {"never", "fresh", "stale"}
    /\ raised \in 0..MaxRaises
    /\ debounce \in {"ready", "cooldown", "pending"}
    /\ down \in {"no", "begun", "done"}
    /\ pc \in [Tasks -> [at : {"off", "sleep", "schedule", "unsub", "sub", "wait",
                               "woken", "tpmsUnsub", "tpmsSub", "commands"}, n : 0..4]]
    /\ \A t \in Refreshes : pc[t].at \in {"off", "schedule", "unsub", "sub", "wait",
                                      "woken"}
    /\ \A t \in Unsubscribers : pc[t].at \in {"off", "unsub"}
    /\ pc["shutdown"].at \in {"off", "commands", "unsub"}
    /\ pc["watchdog"].at \in {"off", "sleep", "unsub", "tpmsUnsub", "tpmsSub"}
    /\ \A t \in Tasks : pc[t].n > 0 <=> pc[t].at \in {"unsub", "sub"}

(* What a successful first refresh leaves; the tire-pressure and Parallax  *)
(* subscriptions may have failed, and cloud's may have returned None.      *)
Init ==
    /\ handle \in {h \in [Feeds -> {1, None}] :
                    \A f \in Feeds : /\ f = "vehicle" => h[f] = 1
                                     /\ h[f] = 1 => f \in Followed}
    /\ reg = [f \in Feeds |-> {handle[f]} \ {None}]
    /\ mute = {}
    /\ initial = TRUE /\ lastOk = TRUE /\ stale = FALSE
    /\ tpmsAge = IF handle["tpms"] = None THEN "never" ELSE "fresh"
    /\ asleep \in BOOLEAN
    /\ pc = [t \in Tasks |-> IF t = "watchdog" THEN At("sleep", 0) ELSE Off]
    /\ debounce = "ready" /\ down = "no"
    /\ raised = 0 /\ framed = TRUE /\ lost = [f \in Feeds |-> {}]

-----------------------------------------------------------------------------
(* Tasks suspended in the write of a "complete" message.  Others may write *)
(* and return meanwhile: a drain is awaited only now and then, and a       *)
(* reconnection writes to another transport.                               *)
Suspended == {t \in Tasks : pc[t].at \in {"unsub", "tpmsUnsub"}}

MaySuspend(t) == Cardinality(Suspended \ {t}) < MaxSuspended
WriteRaises == raised < MaxRaises /\ raised' = raised + 1

(* async_request_refresh (Home Assistant): dropped while a debounced       *)
(* refresh runs, deferred during the cooldown, else run at once up to its  *)
(* first await.  The value is the debouncer's state and the tasks' pc.     *)
Requested(pcs) ==
    IF pcs["request"] # Off THEN [d |-> debounce, pc |-> pcs]
    ELSE IF debounce = "ready"
         THEN [d |-> "ready", pc |-> [pcs EXCEPT !["request"] = At("schedule", 0)]]
         ELSE [d |-> "pending", pc |-> pcs]

(* A refresh ends with an exception or a timeout.                          *)
Ended(t) == IF t = "request" THEN "cooldown" ELSE debounce
RefreshFails(t) ==
    /\ lastOk' = FALSE
    /\ pc' = [pc EXCEPT ![t] = Off]
    /\ debounce' = Ended(t)

(* _tpms_watchdog_tick and _resubscribe_tpms up to the first suspension,   *)
(* from handles h, registrations r and tasks pcs.                          *)
TpmsTick(h, r, pcs) ==
    LET Next1(s) == pc' = [pcs EXCEPT !["watchdog"] = s]
        Writes == h["tpms"] \in r["tpms"]
        gone == [r EXCEPT !["tpms"] = @ \ {h["tpms"]}]
    IN  \/ /\ tpmsAge # "stale"
           /\ handle' = h /\ reg' = r
           /\ Next1(At("sleep", 0)) /\ UNCHANGED raised
        \/ /\ tpmsAge = "stale"
           /\ handle' = [h EXCEPT !["tpms"] = None] /\ reg' = gone
           /\ Next1(At("tpmsSub", 0)) /\ UNCHANGED raised
        \/ /\ tpmsAge = "stale" /\ Writes
           /\ handle' = h /\ reg' = gone
           /\ \/ MaySuspend("watchdog") /\ Next1(At("tpmsUnsub", 0)) /\ UNCHANGED raised
              \/ Next1(Off) /\ WriteRaises             \* unsub() raised

(* What task t does when its _unsubscribe has returned, in the same step.  *)
Unsubscribed(t, h, r) ==
    \/ /\ t \in Refreshes
       /\ handle' = h /\ reg' = r
       /\ pc' = [pc EXCEPT ![t] = At("sub", 1)]
       /\ UNCHANGED <<debounce, down, raised>>
    \/ /\ t = "watchdog"
       /\ debounce' = Requested(pc).d
       /\ TpmsTick(h, r, Requested(pc).pc)
       /\ UNCHANGED down
    \/ /\ t \in Unsubscribers \cup {"shutdown"}
       /\ handle' = h /\ reg' = r
       /\ pc' = [pc EXCEPT ![t] = Off]
       /\ down' = IF t = "shutdown" THEN "done" ELSE down
       /\ debounce' = IF t = "shutdown" THEN "ready" ELSE debounce
       /\ UNCHANGED raised

(* _unsubscribe raised in task t: it ends t.                               *)
UnsubscribeRaised(t) ==
    /\ pc' = [pc EXCEPT ![t] = Off]
    /\ WriteRaises
    /\ debounce' = Ended(t)
    /\ UNCHANGED down

InitialKept(ini, ran, h) == ini   \* mutant: the event is never cleared

(* _initial after the handles h of the feeds in ran were run through.      *)
InitialAfter(ini, ran, h) == ini /\ ("vehicle" \in ran => h["vehicle"] = None)

(* _unsubscribe in task t, from the i-th feed of UnsubOrder, handles h and *)
(* event ini: it runs through the feeds before the j-th one; there it      *)
(* returns (j = 5), or the handle has deleted its id and the write of the  *)
(* "complete" message suspends or raises.                                  *)
Unsubscribe(t, i, h, ini) ==
    \E j \in i..5 :
       LET ran == {UnsubOrder[m] : m \in i..(j - 1)}
           deleted == {UnsubOrder[m] : m \in i..(IF j = 5 THEN 4 ELSE j)}
           Writes(f) == h[f] \in reg[f]
           left == [f \in Feeds |-> IF f \in ran THEN None ELSE h[f]]
           kept == [f \in Feeds |-> IF f \in deleted THEN reg[f] \ {h[f]} ELSE reg[f]]
       IN  /\ initial' = InitialAfter(ini, ran, h)
           /\ \/ /\ j = 5
                 /\ Unsubscribed(t, left, kept)
                 /\ UNCHANGED lastOk
              \/ /\ j < 5 /\ Writes(UnsubOrder[j])
                 /\ handle' = left /\ reg' = kept
                 /\ \/ /\ MaySuspend(t) /\ pc' = [pc EXCEPT ![t] = At("unsub", j)]
                       /\ UNCHANGED <<debounce, down, raised, lastOk>>
                    \/ /\ UnsubscribeRaised(t)
                       /\ lastOk' = (lastOk /\ t \notin Refreshes)

(* What clearing the handle of feed f loses: an id that a subscription     *)
(* made since the write began has left there.                              *)
Overwritten(f) == IF f = "tpms" THEN lost ELSE [lost EXCEPT ![f] = @ \cup ({handle[f]} \cap reg[f])]

(* The suspended write returns: the handle is cleared, whatever it is by   *)
(* now (with _initial, for the vehicle feed), and _unsubscribe goes on; or *)
(* it raises.                                                              *)
UnsubscribeResumes(t) ==
    /\ pc[t].at = "unsub"
    /\ LET f == UnsubOrder[pc[t].n]
       IN  \/ /\ Unsubscribe(t, pc[t].n + 1, [handle EXCEPT ![f] = None],
                             initial /\ f # "vehicle")
              /\ lost' = Overwritten(f)
           \/ /\ UnsubscribeRaised(t)
              /\ lastOk' = (lastOk /\ t \notin Refreshes)
              /\ UNCHANGED <<handle, reg, initial, lost>>
    /\ UNCHANGED <<mute, stale, tpmsAge, asleep, framed>>

-----------------------------------------------------------------------------
(* A refresh, _async_update_data.  The poll is due 15 minutes after the    *)
(* last publication or refresh: by then the feed is stale, and a running   *)
(* watchdog has restarted it unless the vehicle sleeps.                    *)
PollStarts ==
    /\ down = "no" /\ stale /\ (asleep \/ pc["watchdog"] = Off)
    /\ \A r \in Refreshes : pc[r] = Off
    /\ pc' = [pc EXCEPT !["poll"] = At("schedule", 0)]
    /\ debounce' = "ready"
    /\ UNCHANGED <<handle, reg, mute, initial, lastOk, stale, tpmsAge, asleep,
                   down, raised, framed, lost>>

CurrentIfUpdated == lastOk   \* mutant: does not look at the handle

Current == lastOk /\ handle["vehicle"] # None

RefreshDecidesAtOnce(t) ==   \* mutant: subscribes without unsubscribing
    /\ pc[t].at = "schedule"
    /\ pc' = [pc EXCEPT ![t] = IF Current THEN Off ELSE At("sub", 1)]
    /\ debounce' = IF Current THEN Ended(t) ELSE debounce
    /\ UNCHANGED <<handle, reg, mute, initial, lastOk, stale, tpmsAge, asleep,
                   down, raised, framed, lost>>

(* The charging schedule was fetched (its errors are caught): nothing is   *)
(* renewed while the last update succeeded and a handle is held.           *)
RefreshDecides(t) ==
    /\ pc[t].at = "schedule"
    /\ \/ /\ Current
          /\ pc' = [pc EXCEPT ![t] = Off]
          /\ debounce' = Ended(t)
          /\ UNCHANGED <<handle, reg, initial, lastOk, down, raised>>
       \/ /\ ~Current
          /\ Unsubscribe(t, 1, handle, initial)
    /\ UNCHANGED <<mute, stale, tpmsAge, asleep, framed, lost>>

(* The id of a new subscription: one not in use (when the bound leaves     *)
(* none, an id no handle holds).                                           *)
NewId(f) == CHOOSE i \in Ids \ {handle[f]} :
                i \notin reg[f] \/ Ids \ {handle[f]} \subseteq reg[f]

(* A subscription of feed f took: its handle is kept, over whatever handle *)
(* was there.  A client that is not connected returns None for a handle.   *)
Subscribed(f) ==
    /\ \/ /\ f \in Followed
          /\ handle' = [handle EXCEPT ![f] = NewId(f)]
          /\ reg' = [reg EXCEPT ![f] = @ \cup {NewId(f)}]
          /\ mute' = IF f = "vehicle" THEN mute \ {NewId(f)} ELSE mute
       \/ /\ handle' = [handle EXCEPT ![f] = None]
          /\ UNCHANGED <<reg, mute>>
    /\ tpmsAge' = IF f = "tpms" THEN "fresh" ELSE tpmsAge

(* It raised: no connection or no ack, or the write failed after the id    *)
(* was registered.                                                         *)
SubscriptionRaised(f) ==
    \/ UNCHANGED <<reg, raised>>
    \/ f \in Followed /\ reg' = [reg EXCEPT ![f] = @ \cup {NewId(f)}] /\ WriteRaises

AfterSubscribingAll(n) == At("sub", n + 1)   \* mutant: one too many

AfterSubscribing(n) ==
    IF n < 4 THEN At("sub", n + 1)
    ELSE IF initial THEN At("woken", 0) ELSE At("wait", 0)

RefreshSubscribes(t) ==
    /\ pc[t].at = "sub"
    /\ Subscribed(SubOrder[pc[t].n])
    /\ pc' = [pc EXCEPT ![t] = AfterSubscribing(@.n)]
    /\ stale' = (stale /\ pc[t].n # 4)
    /\ framed' = (framed /\ pc[t].n # 1)
    /\ UNCHANGED <<initial, lastOk, asleep, debounce, down, raised, lost>>

(* A failed tire-pressure or Parallax subscription is only logged; the     *)
(* others fail the refresh.                                                *)
RefreshSubscriptionFails(t) ==
    /\ pc[t].at = "sub"
    /\ LET f == SubOrder[pc[t].n]
       IN  /\ SubscriptionRaised(f)
           /\ \/ /\ f \in {"tpms", "parallax"}
                 /\ handle' = [handle EXCEPT ![f] = None]
                 /\ pc' = [pc EXCEPT ![t] = At("sub", @.n + 1)]
                 /\ UNCHANGED <<lastOk, debounce>>
              \/ /\ f \in {"vehicle", "cloud"}
                 /\ RefreshFails(t)
                 /\ UNCHANGED handle
    /\ UNCHANGED <<mute, initial, stale, tpmsAge, asleep, down, framed, lost>>

(* _initial was set: _start_watchdog and success.                          *)
RefreshSucceeds(t) ==
    /\ pc[t].at = "woken"
    /\ lastOk' = TRUE
    /\ pc' = [pc EXCEPT ![t] = Off,
                        !["watchdog"] = IF @ = Off THEN At("sleep", 0) ELSE @]
    /\ debounce' = Ended(t)
    /\ UNCHANGED <<handle, reg, mute, initial, stale, tpmsAge, asleep, down,
                   raised, framed, lost>>

RefreshTimesOut(t) ==
    /\ pc[t].at = "wait"
    /\ RefreshFails(t)
    /\ UNCHANGED <<handle, reg, mute, initial, stale, tpmsAge, asleep, down,
                   raised, framed, lost>>

(* External: the debouncer's 10-second timer.                              *)
CooldownEnds ==
    /\ debounce # "ready" /\ pc["request"] = Off
    /\ debounce' = "ready"
    /\ pc' = [pc EXCEPT !["request"] = IF debounce = "pending"
                                      THEN At("schedule", 0) ELSE Off]
    /\ UNCHANGED <<handle, reg, mute, initial, lastOk, stale, tpmsAge, asleep,
                   down, raised, framed, lost>>

-----------------------------------------------------------------------------
WatchdogRequests ==   \* mutant: asks for a refresh without unsubscribing
    /\ debounce' = Requested(pc).d
    /\ TpmsTick(handle, reg, Requested(pc).pc)
    /\ UNCHANGED <<initial, lastOk, down>>

(* _watchdog_tick of a stale feed; the request follows in Unsubscribed.    *)
WatchdogRestarts == Unsubscribe("watchdog", 1, handle, initial)

(* One minute of the watchdog loop: _watchdog_tick (not while the vehicle  *)
(* sleeps), then _tpms_watchdog_tick.  When both are stale the refresh and *)
(* the tire-pressure tick subscribe that feed at once: the first of the    *)
(* two subscriptions loses its handle to the second.                       *)
WatchdogTicks ==
    /\ pc["watchdog"].at = "sleep"
    /\ \/ /\ stale /\ ~asleep
          /\ WatchdogRestarts
       \/ /\ ~stale \/ asleep
          /\ TpmsTick(handle, reg, pc)
          /\ UNCHANGED <<initial, lastOk, debounce, down>>
    /\ UNCHANGED <<mute, stale, tpmsAge, asleep, framed, lost>>

TpmsUnsubscribedKept ==   \* mutant: the handle is not cleared
    /\ pc["watchdog"].at = "tpmsUnsub"
    /\ pc' = [pc EXCEPT !["watchdog"] = At("tpmsSub", 0)]
    /\ UNCHANGED <<handle, reg, mute, initial, lastOk, stale, tpmsAge, asleep,
                   debounce, down, raised, framed, lost>>

(* unsub() of _resubscribe_tpms returns or raises after a suspension.      *)
TpmsUnsubscribed ==
    /\ pc["watchdog"].at = "tpmsUnsub"
    /\ \/ /\ handle' = [handle EXCEPT !["tpms"] = None]
          /\ pc' = [pc EXCEPT !["watchdog"] = At("tpmsSub", 0)]
          /\ UNCHANGED raised
       \/ /\ pc' = [pc EXCEPT !["watchdog"] = Off]
          /\ WriteRaises
          /\ UNCHANGED handle
    /\ UNCHANGED <<reg, mute, initial, lastOk, stale, tpmsAge, asleep, debounce,
                   down, framed, lost>>

TpmsSubscribed ==
    /\ pc["watchdog"].at = "tpmsSub"
    /\ \/ /\ Subscribed("tpms")
          /\ UNCHANGED raised
       \/ /\ SubscriptionRaised("tpms")
          /\ handle' = [handle EXCEPT !["tpms"] = None]
          /\ UNCHANGED <<mute, tpmsAge>>
    /\ pc' = [pc EXCEPT !["watchdog"] = At("sleep", 0)]
    /\ UNCHANGED <<initial, lastOk, stale, asleep, debounce, down, framed, lost>>

(* Time: 5 minutes without a frame.  No refresh and no suspended write     *)
(* lasts that long.                                                        *)
FeedAges ==
    /\ ~stale /\ Suspended = {} /\ \A r \in Refreshes : pc[r] = Off
    /\ stale' = TRUE
    /\ UNCHANGED <<handle, reg, mute, initial, lastOk, tpmsAge, asleep, pc,
                   debounce, down, raised, framed, lost>>

TpmsAges ==
    /\ tpmsAge = "fresh"
    /\ tpmsAge' = "stale"
    /\ UNCHANGED <<handle, reg, mute, initial, lastOk, stale, asleep, pc,
                   debounce, down, raised, framed, lost>>

-----------------------------------------------------------------------------
(* async_set_updated_data (Home Assistant): the update counts as a success *)
(* and a deferred refresh is cancelled.                                    *)
Published == lastOk' = TRUE /\ debounce' = "ready"

VehicleFrame ==
    /\ reg["vehicle"] \ mute # {}
    /\ Published
    /\ initial' = TRUE /\ stale' = FALSE /\ framed' = TRUE
    /\ asleep' \in BOOLEAN
    /\ pc' = [t \in Tasks |-> IF pc[t].at = "wait" THEN At("woken", 0) ELSE pc[t]]
    /\ UNCHANGED <<handle, reg, mute, tpmsAge, down, raised, lost>>

(* A vehicle frame without data, before _initial is set or after five      *)
(* others (their count is left out): _unsubscribe is started as a task.    *)
BadVehicleFrame(u) ==
    /\ reg["vehicle"] \ mute # {}
    /\ pc[u] = Off
    /\ Unsubscribe(u, 1, handle, initial)
    /\ UNCHANGED <<mute, stale, tpmsAge, asleep, framed, lost>>

PushFrame(f) ==
    /\ f \in {"tpms", "parallax"} /\ reg[f] # {}
    /\ Published
    /\ tpmsAge' = IF f = "tpms" THEN "fresh" ELSE tpmsAge
    /\ UNCHANGED <<handle, reg, mute, initial, stale, asleep, pc, down, raised,
                   framed, lost>>

(* External: a backend error (502, 504) ends a vehicle stream.  The server *)
(* tells so in a message of type "error", and the client's receiver hands  *)
(* only type "next" to callbacks: the coordinator does not learn of it.    *)
BackendError ==
    /\ BackendFails /\ reg["vehicle"] \ mute # {}
    /\ mute' = reg["vehicle"]
    /\ UNCHANGED <<handle, reg, initial, lastOk, stale, tpmsAge, asleep, pc,
                   debounce, down, raised, framed, lost>>

(* External: a reconnection has resubscribed every id (see WsMonitor).     *)
Reconnected ==
    /\ mute # {} /\ mute' = {}
    /\ UNCHANGED <<handle, reg, initial, lastOk, stale, tpmsAge, asleep, pc,
                   debounce, down, raised, framed, lost>>

(* async_shutdown: the watchdog is stopped and everything unsubscribed;    *)
(* Home Assistant's own part shuts the debouncer down.  It runs when the   *)
(* entry is unloaded, which also cancels the poll, a background task.      *)
ShutdownBegins ==
    /\ down = "no"
    /\ down' = "begun"
    /\ pc' = [pc EXCEPT !["watchdog"] = Off, !["poll"] = Off,
                        !["shutdown"] = At("commands", 0)]
    /\ UNCHANGED <<handle, reg, mute, initial, lastOk, stale, tpmsAge, asleep,
                   debounce, raised, framed, lost>>

(* The command-state subscriptions are gone (left out): _unsubscribe.      *)
ShutdownUnsubscribes ==
    /\ pc["shutdown"].at = "commands"
    /\ Unsubscribe("shutdown", 1, handle, initial)
    /\ UNCHANGED <<mute, stale, tpmsAge, asleep, framed, lost>>

-----------------------------------------------------------------------------
RefreshMakes(t, n) == pc[t].n = n /\ RefreshSubscribes(t) /\ handle'[SubOrder[n]] # None
RefreshStep(t) == RefreshDecides(t) \/ RefreshSubscribes(t)
                  \/ RefreshSubscriptionFails(t) \/ RefreshSucceeds(t)
                  \/ RefreshTimesOut(t)
WatchdogStep == WatchdogTicks \/ TpmsUnsubscribed \/ TpmsSubscribed

Next ==
    \/ PollStarts \/ CooldownEnds
    \/ \E t \in Refreshes : RefreshStep(t)
    \/ \E t \in Tasks : UnsubscribeResumes(t)
    \/ WatchdogStep
    \/ FeedAges \/ TpmsAges
    \/ VehicleFrame \/ BackendError \/ Reconnected
    \/ \E u \in Unsubscribers : BadVehicleFrame(u)
    \/ \E f \in Feeds : PushFrame(f)
    \/ ShutdownBegins \/ ShutdownUnsubscribes

Spec == Init /\ [][Next]_vars

(* asyncio resumes every task, timers fire and time passes; a subscription *)
(* tried again and again is made in the end.  Frames, errors of the        *)
(* backend, reconnections and a shutdown are not promised.                 *)
Fairness ==
    /\ WF_vars(PollStarts) /\ WF_vars(CooldownEnds) /\ WF_vars(WatchdogStep)
    /\ SF_vars(FeedAges) /\ WF_vars(ShutdownUnsubscribes)
    /\ \A t \in Tasks : WF_vars(UnsubscribeResumes(t))
    /\ SF_vars(\E t \in Refreshes : RefreshStep(t))
    /\ \A n \in {1, 4} : SF_vars(\E t \in Refreshes : RefreshMakes(t, n))
FairSpec == Spec /\ Fairness

-----------------------------------------------------------------------------
(* Every registered subscription is held by the coordinator's handle,      *)
(* whatever refreshes, restarts and bad frames were under way together,    *)
(* but for one per write that raised and those whose handle a resuming     *)
(* _unsubscribe cleared: by no other way does one go on delivering with    *)
(* nothing left to end it.  The tire-pressure feed is left out: see        *)
(* WatchdogTicks.                                                          *)
NoOrphanFeed ==
    \A f \in Feeds \ {"tpms"} :
        Cardinality(reg[f] \ ({handle[f]} \cup lost[f])) <= raised

(* Unless a write raised or is suspended, or the entry unloads, a handle   *)
(* that is held belongs to a registered subscription: a refresh that sees  *)
(* a handle and renews nothing is right.                                   *)
HandleIsLive ==
    raised = 0 /\ Suspended = {} /\ down = "no" =>
        \A f \in Feeds : handle[f] # None => handle[f] \in reg[f]

(* Unless a write raised or a vehicle subscription lost its handle, a      *)
(* refresh succeeds only on a vehicle frame that came after its own        *)
(* subscription: _initial does not survive the subscription it was set     *)
(* for.  (One that is left without a handle sets it meanwhile.)            *)
FreshStart ==
    raised = 0 /\ lost["vehicle"] = {} => \A t \in Refreshes : pc[t].at = "woken" => framed

(* A vehicle feed that was dropped comes back, unless the entry unloads.   *)
DroppedFeedReturns ==
    handle["vehicle"] = None ~> (handle["vehicle"] # None \/ down # "no")

(* A vehicle feed that the backend ended, without a word to the            *)
(* coordinator, is restarted while the vehicle is awake, the watchdog runs *)
(* and the entry is loaded.                                                *)
Served == ~(reg["vehicle"] \subseteq mute)
SilentFeedRestarts ==
    ~Served ~> (Served \/ asleep \/ pc["watchdog"] = Off \/ down # "no")

(* Handles and subscriptions stay paired: each subscription has the handle *)
(* that can end it, and each handle a subscription.                        *)
FeedHeld ==
    /\ TypeOK
    /\ NoOrphanFeed
    /\ HandleIsLive

(* A vehicle feed that is gone comes back, whether its end was noticed or  *)
(* not.                                                                    *)
FeedReturns ==
    /\ DroppedFeedReturns
    /\ SilentFeedRestarts
=============================================================================
