---------------------------- MODULE ChargingFeed -----------------------------
(***************************************************************************)
(* The charging subscription of one ChargingCoordinator (coordinator.py).  *)
(* VehicleCoordinator switches it and its watchdog on and off when a       *)
(* vehicle frame brings a new chargerState.  No poll exists: the refresh   *)
(* is debounced and comes from the switch or the watchdog.  The processes  *)
(* are asyncio tasks: that refresh, the watchdog loop, async_shutdown, and *)
(* the _unsubscribe tasks of switches and bad frames.  A step runs from    *)
(* one await that may suspend to the next.  Home Assistant's debouncer and *)
(* the server are external.  The module starts after the first refresh.    *)
(***************************************************************************)
EXTENDS Naturals, FiniteSets

CONSTANTS Helpers,    \* bound: tasks of switches and bad frames that unsubscribe
          MaxIds,     \* bound: the feed's ids in _subscriptions
          MaxRaises   \* bound: the writes of a message that raise

ASSUME ChargingAssumption ==
    /\ Helpers \cap {"request", "watchdog", "shutdown"} = {}
    /\ MaxIds \in Nat /\ MaxIds >= 2 /\ MaxRaises \in Nat

Tasks == {"request", "watchdog", "shutdown"} \cup Helpers
Ids   == 1..MaxIds
None  == 0

VARIABLES
    enabled,   \* _subscription_enabled
    handle,    \* the id that _unsub_handler removes, or None
    reg,       \* the feed's ids in the client's _subscriptions
    initial,   \* _initial.is_set()
    hasData,   \* self.data is not empty
    lastOk,    \* last_update_success
    age,       \* of _last_update_time, which may be None
    pc,        \* where each task is suspended
    debounce,  \* external: the debouncer is ready, cooling down, or cooling
               \* down with a call to make at the end
    down,      \* async_shutdown has begun
    raised,    \* history: the number of writes that have raised
    overtaken, \* history: the feed was switched off during a refresh
    lost       \* history: the registered ids whose handle an _unsubscribe
               \* cleared though it had ended another one

vars == <<enabled, handle, reg, initial, hasData, lastOk, age, pc, debounce,
          down, raised, overtaken, lost>>

TypeOK ==
    /\ {enabled, initial, hasData, lastOk, down, overtaken} \subseteq BOOLEAN
    /\ handle \in Ids \cup {None} /\ {reg, lost} \subseteq SUBSET Ids
    /\ age \in {"never", "fresh", "stale"}
    /\ debounce \in {"ready", "cooldown", "pending"}
    /\ raised \in 0..MaxRaises
    /\ DOMAIN pc = Tasks
    /\ pc["request"] \in {"off", "unsub", "sub", "wait", "woken"}
    /\ pc["watchdog"] \in {"off", "sleep", "unsub"}
    /\ pc["shutdown"] \in {"off", "unsub"}
    /\ \A u \in Helpers : pc[u] \in {"off", "unsub"}

(* The first refresh succeeded.  Before it a vehicle frame may have        *)
(* reported the charger connected (the watchdog runs), not connected (the  *)
(* feed is off and the refresh did nothing) or nothing.                    *)
Init ==
    /\ enabled \in BOOLEAN
    /\ pc \in {[t \in Tasks |-> IF t = "watchdog" THEN s ELSE "off"]
                  : s \in IF enabled THEN {"off", "sleep"} ELSE {"off"}}
    /\ handle \in IF enabled THEN {1, None} ELSE {None}
    /\ reg = {handle} \ {None}
    /\ age = IF enabled THEN "fresh" ELSE "never"
    /\ initial = enabled
    /\ hasData \in IF enabled THEN BOOLEAN ELSE {FALSE}
    /\ lastOk = TRUE /\ debounce = "ready" /\ down = FALSE
    /\ raised = 0 /\ overtaken = FALSE /\ lost = {}

-----------------------------------------------------------------------------
(* Tasks suspended in the write of a "complete" message.  Others may write *)
(* and return meanwhile: a drain is awaited only now and then, and a       *)
(* reconnection writes to another transport.                               *)
Suspended == {t \in Tasks : pc[t] = "unsub"}

(* A refresh asked for when no handle is held (async_request_refresh):     *)
(* dropped while one runs, deferred during the debouncer's cooldown; else  *)
(* it runs at once, up to the await of its subscription if enabled.        *)
Requested(pcs) ==
    IF pcs["request"] # "off" THEN [d |-> debounce, pc |-> pcs]
    ELSE IF debounce # "ready" THEN [d |-> "pending", pc |-> pcs]
    ELSE IF enabled THEN [d |-> "ready", pc |-> [pcs EXCEPT !["request"] = "sub"]]
    ELSE [d |-> "cooldown", pc |-> pcs]

AfterReturnSubscribing(t) == "sub"   \* mutant: every task subscribes next
AfterReturn(t) == IF t = "request" THEN "sub"
                  ELSE IF t = "watchdog" THEN "sleep" ELSE "off"

Running(t) == IF t = "request" THEN "ready" ELSE debounce

(* _unsubscribe has returned in task t; the watchdog then asks for a       *)
(* refresh.                                                                *)
Returned(t, pcs) ==
    LET next == [pcs EXCEPT ![t] = AfterReturn(t)]
    IN  IF t = "watchdog"
        THEN pc' = Requested(next).pc /\ debounce' = Requested(next).d
        ELSE pc' = next /\ debounce' = Running(t)

(* A write of task t raised: the task ends, a refresh as a failed one.     *)
Raises(t, pcs) ==
    /\ raised < MaxRaises /\ raised' = raised + 1
    /\ pc' = [pcs EXCEPT ![t] = "off"]
    /\ lastOk' = (lastOk /\ t # "request")
    /\ debounce' = IF t = "request" THEN "cooldown" ELSE debounce
    /\ UNCHANGED <<handle, initial>>

HandleKept == initial' = FALSE /\ UNCHANGED handle   \* mutant: it stays
HandleDropped == handle' = None /\ initial' = FALSE

(* _unsubscribe in task t, where pcs is the pc of the tasks: without a     *)
(* handle it returns.  Else the handle deletes its id and, if it was       *)
(* there, writes "complete", a write that may suspend or raise.            *)
Unsubscribe(t, pcs) ==
    LET Writes == handle # None /\ handle \in reg
    IN  /\ reg' = reg \ {handle}
        /\ \/ /\ IF handle = None THEN UNCHANGED <<handle, initial>> ELSE HandleDropped
              /\ Returned(t, pcs)
              /\ UNCHANGED <<raised, lastOk>>
           \/ /\ Writes
              /\ pc' = [pcs EXCEPT ![t] = "unsub"]
              /\ debounce' = Running(t)
              /\ UNCHANGED <<handle, initial, raised, lastOk>>
           \/ Writes /\ Raises(t, pcs)

(* The suspended write returns: the handle is cleared, whatever it is by   *)
(* now, which loses an id that a subscription made meanwhile left there;   *)
(* or it raises.                                                           *)
UnsubscribeResumes(t) ==
    /\ pc[t] = "unsub"
    /\ \/ /\ HandleDropped /\ Returned(t, pc)
          /\ lost' = lost \cup ({handle} \cap reg)
          /\ UNCHANGED <<raised, lastOk>>
       \/ Raises(t, pc) /\ UNCHANGED lost
    /\ UNCHANGED <<enabled, reg, hasData, age, down, overtaken>>

-----------------------------------------------------------------------------
CurrentIfUpdated == hasData /\ lastOk   \* mutant: does not look at the handle
Current == hasData /\ lastOk /\ handle # None

RefreshSubscribesAlways(on, pcs) ==   \* mutant: ignores _subscription_enabled
    Unsubscribe("request", pcs)
RefreshSubscribesOver(on, pcs) ==   \* mutant: does not unsubscribe first
    /\ pc' = [pcs EXCEPT !["request"] = IF on /\ ~Current THEN "sub" ELSE "off"]
    /\ UNCHANGED <<handle, reg, initial, lastOk, raised, debounce>>

(* _async_update_data from its start, on being the value of                *)
(* _subscription_enabled: nothing is renewed while the feed is off or is   *)
(* current; such a refresh counts as a success.                            *)
RefreshStarts(on, pcs) ==
    \/ /\ ~on \/ Current
       /\ lastOk' = TRUE /\ debounce' = "cooldown"
       /\ pc' = pcs
       /\ UNCHANGED <<handle, reg, initial, raised>>
    \/ /\ on /\ ~Current
       /\ Unsubscribe("request", pcs)

NewId == CHOOSE i \in Ids \ {handle} : i \notin reg \/ Ids \ {handle} \subseteq reg

(* The subscription is made, or the client is not connected and returns    *)
(* None; then up to 5 seconds are waited for data.                         *)
RefreshSubscribes ==
    /\ pc["request"] = "sub"
    /\ \/ handle' = NewId /\ reg' = reg \cup {NewId}
       \/ handle' = None /\ UNCHANGED reg
    /\ age' = "fresh"
    /\ pc' = [pc EXCEPT !["request"] = IF initial THEN "woken" ELSE "wait"]
    /\ UNCHANGED <<enabled, initial, hasData, lastOk, debounce, down, raised,
                   overtaken, lost>>

(* It raised: no connection or no ack, or the write failed after the id    *)
(* was registered.                                                         *)
RefreshSubscriptionFails ==
    /\ pc["request"] = "sub"
    /\ \/ UNCHANGED <<reg, raised>>
       \/ /\ raised < MaxRaises /\ raised' = raised + 1
          /\ reg' = reg \cup {NewId}
    /\ lastOk' = FALSE /\ debounce' = "cooldown"
    /\ pc' = [pc EXCEPT !["request"] = "off"]
    /\ UNCHANGED <<enabled, handle, initial, hasData, age, down, overtaken, lost>>

(* The wait ends, with data or with a timeout that sets _initial.          *)
RefreshEnds ==
    /\ pc["request"] \in {"wait", "woken"}
    /\ initial' = (initial \/ pc["request"] = "wait")
    /\ lastOk' = TRUE /\ debounce' = "cooldown"
    /\ pc' = [pc EXCEPT !["request"] = "off"]
    /\ UNCHANGED <<enabled, handle, reg, hasData, age, down, raised, overtaken,
                   lost>>

(* External: the debouncer's 10-second timer.                              *)
CooldownEnds ==
    /\ debounce = "cooldown" /\ pc["request"] = "off"
    /\ debounce' = "ready"
    /\ UNCHANGED <<enabled, handle, reg, initial, hasData, lastOk, age, pc, down,
                   raised, overtaken, lost>>

(* The same with a deferred refresh to run, which ends or subscribes.      *)
DeferredRefresh ==
    /\ debounce = "pending" /\ pc["request"] = "off"
    /\ RefreshStarts(enabled, pc)
    /\ UNCHANGED <<enabled, hasData, age, down, overtaken, lost>>

-----------------------------------------------------------------------------
(* One minute of the watchdog loop.                                        *)
WatchdogTicks ==
    /\ pc["watchdog"] = "sleep" /\ age = "stale"
    /\ Unsubscribe("watchdog", pc)
    /\ UNCHANGED <<enabled, hasData, age, down, overtaken, lost>>

(* Time: 5 minutes without a frame.  No refresh and no suspended write     *)
(* lasts that long.                                                        *)
FeedAges ==
    /\ age = "fresh" /\ Suspended = {} /\ pc["request"] = "off"
    /\ age' = "stale"
    /\ UNCHANGED <<enabled, handle, reg, initial, hasData, lastOk, pc, debounce,
                   down, raised, overtaken, lost>>

(* The charger was connected: the watchdog is started, the feed switched   *)
(* on and a refresh requested, which may find a handle that an             *)
(* _unsubscribe under way has yet to drop.                                 *)
SwitchOn ==
    /\ ~down /\ ~enabled
    /\ enabled' = TRUE /\ overtaken' = FALSE
    /\ LET pcs == [pc EXCEPT !["watchdog"] = IF @ = "off" THEN "sleep" ELSE @]
       IN  \/ /\ pc["request"] # "off"
              /\ pc' = pcs
              /\ UNCHANGED <<handle, reg, initial, lastOk, debounce, raised>>
           \/ /\ pc["request"] = "off" /\ debounce # "ready"
              /\ pc' = pcs /\ debounce' = "pending"
              /\ UNCHANGED <<handle, reg, initial, lastOk, raised>>
           \/ /\ pc["request"] = "off" /\ debounce = "ready"
              /\ RefreshStarts(TRUE, pcs)
    /\ UNCHANGED <<hasData, age, down, lost>>

(* Connected, but the feed is on already: only the watchdog is started.    *)
WatchdogStarts ==
    /\ ~down /\ enabled /\ pc["watchdog"] = "off"
    /\ pc' = [pc EXCEPT !["watchdog"] = "sleep"]
    /\ UNCHANGED <<enabled, handle, reg, initial, hasData, lastOk, age, debounce,
                   down, raised, overtaken, lost>>

(* It was disconnected: the watchdog is cancelled, wherever it is, the     *)
(* feed switched off and, if a handle is held, unsubscribed in a task.  A  *)
(* refresh that is subscribing goes on.                                    *)
SwitchOff(u) ==
    /\ ~down /\ enabled /\ pc[u] = "off"
    /\ enabled' = FALSE
    /\ overtaken' = (pc["request"] \in {"unsub", "sub"})
    /\ Unsubscribe(u, [pc EXCEPT !["watchdog"] = "off"])
    /\ UNCHANGED <<hasData, age, down, lost>>

-----------------------------------------------------------------------------
(* async_set_updated_data (Home Assistant): the update counts as a success *)
(* and a deferred refresh is cancelled.                                    *)
Published == lastOk' = TRUE /\ debounce' = "ready"

(* A frame of the subscription; an empty session may leave no data.        *)
SessionFrame ==
    /\ reg # {}
    /\ Published
    /\ initial' = TRUE /\ age' = "fresh" /\ hasData' \in BOOLEAN
    /\ pc' = [t \in Tasks |-> IF pc[t] = "wait" THEN "woken" ELSE pc[t]]
    /\ UNCHANGED <<enabled, handle, reg, down, raised, overtaken, lost>>

(* A frame without data, before _initial is set or after five others       *)
(* (their count is left out): _unsubscribe is started as a task.           *)
BadFrame(u) ==
    /\ reg # {} /\ pc[u] = "off"
    /\ Unsubscribe(u, pc)
    /\ UNCHANGED <<enabled, hasData, age, down, overtaken, lost>>

(* update_from_parallax, called by VehicleCoordinator at any time.         *)
ParallaxUpdate ==
    /\ ~down
    /\ Published /\ hasData' = TRUE
    /\ UNCHANGED <<enabled, handle, reg, initial, age, pc, down, raised, overtaken,
                   lost>>

(* async_shutdown: the watchdog is cancelled and the feed unsubscribed.    *)
Shutdown ==
    /\ ~down /\ down' = TRUE
    /\ Unsubscribe("shutdown", [pc EXCEPT !["watchdog"] = "off"])
    /\ UNCHANGED <<enabled, hasData, age, overtaken, lost>>

-----------------------------------------------------------------------------
Next ==
    \/ DeferredRefresh \/ RefreshSubscribes \/ RefreshSubscriptionFails
    \/ RefreshEnds \/ CooldownEnds
    \/ \E t \in Tasks : UnsubscribeResumes(t)
    \/ WatchdogTicks \/ FeedAges \/ WatchdogStarts
    \/ SwitchOn \/ ParallaxUpdate \/ SessionFrame \/ Shutdown
    \/ \E u \in Helpers : SwitchOff(u) \/ BadFrame(u)

Spec == Init /\ [][Next]_vars

(* asyncio resumes every task, timers fire and time passes; a subscription *)
(* tried again and again is made in the end.  Frames, switches and a       *)
(* shutdown are not promised.                                              *)
Fairness ==
    /\ WF_vars(DeferredRefresh) /\ WF_vars(RefreshEnds) /\ WF_vars(CooldownEnds)
    /\ SF_vars(RefreshSubscribes \/ RefreshSubscriptionFails)
    /\ SF_vars(RefreshSubscribes /\ handle' # None)
    /\ WF_vars(WatchdogTicks) /\ SF_vars(FeedAges)
    /\ \A t \in Tasks : WF_vars(UnsubscribeResumes(t))
FairSpec == Spec /\ Fairness

-----------------------------------------------------------------------------
(* Every registered subscription is held by the handle, but for one per    *)
(* write that raised and those whose handle a resuming _unsubscribe        *)
(* cleared: whatever switches, restarts and bad frames were under way      *)
(* together, none goes on with nothing left to end it in any other way.    *)
NoOrphanFeed == Cardinality(reg \ ({handle} \cup lost)) <= raised

(* Unless a write raised or is suspended, or the entry unloads, a handle   *)
(* that is held belongs to a registered subscription.                      *)
HandleIsLive ==
    raised = 0 /\ Suspended = {} /\ ~down /\ handle # None => handle \in reg

(* A feed that is off has a subscription only when a refresh was under way *)
(* as it was switched off, a write raised or its handle was lost: no       *)
(* deferred refresh and no restart of the watchdog brings it back.         *)
OffUnlessOvertaken == ~enabled /\ reg \ lost # {} => overtaken \/ raised > 0

(* A feed that is on, was subscribed before and has no subscription left   *)
(* gets one again while the watchdog runs.                                 *)
DroppedFeedReturns ==
    (enabled /\ reg = {} /\ age # "never" /\ pc["watchdog"] # "off")
        ~> (reg # {} \/ ~enabled \/ pc["watchdog"] = "off" \/ down)

(* Handles and subscriptions stay paired: a subscription has the handle    *)
(* that can end it, and a handle its subscription.                         *)
FeedHeld ==
    /\ TypeOK
    /\ NoOrphanFeed
    /\ HandleIsLive
=============================================================================
