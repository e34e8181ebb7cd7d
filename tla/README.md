# A verification development of the Rivian integration

The repository is a Home Assistant integration for Rivian vehicles: a vendored
asynchronous client (`rivian_client/`) that speaks GraphQL over HTTP and over one
websocket, coordinators that turn subscriptions and polls into records, entities that
read the records and send commands, and a WebRTC live view of the vehicle's cameras.
Everything runs in one asyncio loop. There is no shared-memory parallelism; what is hard
is that every `await` lets other tasks, frames, timers and failures in, and that most
handlers test a field, await, and then assign it.

All paths below are relative to `src/custom_components/rivian/` unless they name another
directory.

## 1. Inventory

| Component | State | Operations | Modules |
|---|---|---|---|
| Websocket client: `rivian_client/ws_monitor.py`, `rivian_client/rivian.py:674-719` | `_ws`, `_connection_ack`, `_subscriptions`, `_receiver_task`, `_monitor_task`, `_disconnect` | connect, subscribe, unsubscribe, resubscribe, receive, monitor, close | WsMonitor, SubscriptionService |
| Vehicle feed: `coordinator.py:120-380, 660-931, 1178-1212` | `_unsub_handler` and three further handles, `_initial`, `last_update_success`, `_last_update_time`, `_tpms_last_update_time`, `_watchdog_task` | poll, debounced refresh, watchdog, frames, `_unsubscribe`, shutdown | VehicleFeed |
| Charging feed: `coordinator.py:382-575` | `_subscription_enabled`, `_unsub_handler`, `_initial`, watchdog | switch on and off, refresh, watchdog, frames, shutdown | ChargingFeed |
| Commands: `entity.py:80-214`, `coordinator.py:1211-1407` | `_command_states`, `_command_state_subscriptions`, the 60 s timers, `_command_in_progress` | execute (with a nested wake), frames, prune, unsubscribe, shutdown | CommandTracking |
| Live camera: `camera.py`, `camera_ws.py`, `select.py:247-277` | `_sessions`, `_session_camera`, `_prepared`, `_live_switch_hold`, `_attr_is_streaming`; per session `closed`, `ws`, `pump_task` | offer, prepare, close, pump, camera picker, hold | LiveCamera |
| Live signalling: `kvs_signaling.py`, `sdp.py`, `camera.py:540-609` | per session `client_id`, `pending_ice`, `recipient_client_id` | candidates, flush, pump, trim the offer | LiveSignalling, OfferTrimming |
| Vehicle record: `coordinator.py:951-1176` | `data`, `_subscription_keys` | subscription, tire pressure, Parallax | VehicleRecord |
| Charging data: `coordinator.py:447-540`, `parallax/energy_edge_compute.py` | one record with two writers, `_synthetic_start_time` | session frames, Parallax frames | ChargingData, CoordinatorData, ChargingGraph |
| Charging schedule: `coordinator.py:809-853`, `time.py`, `number.py` | `_charging_schedule`, `_last_schedule_fetch` | read, modify, write, poll | ChargingSchedule |
| Requests: `rivian_client/rivian.py`, `coordinator.py:120-181` | tokens, `data`, `_error_count`, `_option_codes_available` | poll, retry, refusal, back-off | CloudRequests |
| Config entry: `__init__.py`, `config_flow.py:188-303` | the client and the coordinators of an entry, `hass.data`, the one service | login, setup, reload, unload, remove, reauthenticate | ConfigEntry |
| Vehicle control: `config_flow.py:80-170`, `__init__.py:354-370` | the entry's options, the phones at the server | enrol, disenrol, remove | PhoneEnrolment |
| Phone pairing: `rivian_client/ble*.py`, `button.py` | `BleTrace`, the handshake | press, two handshakes, bonding | PhonePairing |
| Parallax decoders: `rivian_client/parallax/` | none | one decoder per topic | ParallaxTopics, ChargingGraph |
| Entities: `sensor.py`, `binary_sensor.py`, `lock.py`, `cover.py`, `climate.py`, `entity.py`, `connectivity.py`, `next_action_states.py`, with the tables of `const.py` | options of a sensor, `_available`, `_is_online` | show, offer, heat | SensorViews, ClosureViews, CabinClimate, ControlAccess |
| Dashboard card, scripts, selects, tracker, images, diagnostics | forms and tables | one read of a record | not modelled |

**How they interact.** The coordinators, the commands and the live view all subscribe
through one websocket client, shared by every vehicle of the account: an unsubscribe
handle is a closure over `_subscriptions`. A frame runs a coordinator's callback inside the
client's receiver task, so a callback that raises ends that task. A vehicle frame whose
`chargerState` changed calls `ChargingCoordinator.toggle_subscription`; a Parallax message is
decoded once and written to the vehicle's record, the charging record, or both. An entity's command
goes through `VehicleCoordinator.send_vehicle_command`, which subscribes to the command's
state and is signed with the identity that the entry's setup found for its key. The live
view sends its START the same way, subscribes to a configuration of its own, and is told of
a picked camera by the coordinator's listeners. A refused token closes the client of all of them.

**Hard behaviours.** Two tasks in `new_connection` at once; a shared event for the acks
of different sockets; a dict iterated across awaits; a handle tested, awaited and cleared
while a refresh assigns a new one; a feed switched off while it is being subscribed; a
watchdog whose own write fails; a command's end that comes before the handle of its
subscription; a table at capacity; a live session closed at any await of its own start; a
candidate that three tasks may send; two writers of one key whose frames come apart; an
empty payload that means a default for one topic and nothing for another; a read and a
write of a whole schedule with a cache between; a setup that fails half-way; a phone that
one request of several enrolled; a handshake that another vehicle answers. `PROJECT.json`
lists them with their lines (`hazards`) and names the properties that would catch each.

**What makes each component correct.**
- *Websocket client*: no unsubscribed feed is served again; one socket; no subscribe before
  its connection's ack; a closed socket is replaced.
- *Feeds*: a subscription has a handle that can end it, and a handle a subscription; a
  dropped or silent feed comes back; nothing is subscribed while the feed is off.
- *Commands*: the answer someone waits for is there; an end is not forgotten; every
  subscription and the "in progress" mark end. A control is offered when the vehicle may answer.
- *Live camera*: one session; what is closed leaves nothing; the viewer sees the camera
  picked; the offer comes first, each candidate once; a trimmed offer means what it meant.
- *Records*: a key keeps its writer; no value of an earlier session shows through; totals go forward.
- *Schedule*: no lost update, and a cache that heals. *Requests*: what is reported as current
  is recent; a refused token asks for a login, and nothing else does.
- *Entry*: what is set up is torn down, once; the options say what is enrolled.
- *Pairing*: a bond only after an answer of this vehicle to this attempt.
- *Entities*: an error code is never a value; what reassures was said; a lock is shown locked if it is known to be.

## 2. What is modelled

Every module is a next-state relation over asyncio tasks. A step runs from one await that
may suspend to the next; a call that Home Assistant starts eagerly (`async_create_task`)
runs up to its first suspension in its caller's step. Names of variables are those of the
fields, without the underscore; the comment at each variable names the field, and
`PROJECT.json` maps each definition to its lines. Components that share no state are checked
side by side: an MC module extends several and its variable `part` picks the one a behaviour
is about, the others staying in one initial state; fairness of a component is stated for its own part.

### WsMonitor
Tasks: one per call of `_start_subscription` (a call is also its uuid), the monitor, one
receiver per socket, one `close()`. `pc` says where each is suspended, `loop` how far a
`_resubscribe_all` iteration is, including Python's rule that a dict that changed size
raises at the next step. External: `sock`, a socket's state, and `live`, what the server
serves on it. `NewConnection`, `Opened`, `Ready` are `new_connection` cut at its two
awaits; `Call...` is `_start_subscription`; `Receive...` the receiver; `Monitor...` the
loop; `CloseBegins`, `CloseEnds` the two halves of `close()`.

Simplifications: aiohttp's autoclose and the receiver's exit are one step; a cancelled
task ends at once; a closed socket's identifier may stand for a later socket; tasks that
an event woke run before a new handshake ends, and a suspended send ends before one.
`recvTask` is `Done` for a receiver that has ended, which the monitor replaces, and `None` as long as
none was created, which it leaves (`ws_monitor.py:171`): an open first socket whose `connection_init`
could not be sent has no reader.

### VehicleFeed
Tasks: the 15-minute poll, the debounced refresh, the watchdog, `_unsubscribe` tasks of bad
frames, `async_shutdown`. Per feed `handle` is the identifier its handle removes and `reg`
the feed's identifiers in the client. `Refresh...` follows `_async_update_data` through its
four subscriptions in order; `UnsubscribeResumes` follows `_unsubscribe` through its four
handles in its own order; `debounce` is Home Assistant's debouncer. The 502/504 branch
of `_frame_data` is not an action: `_receiver` hands over only messages of type `next`, so
no server message reaches it.

Nothing orders the writes: while one `_unsubscribe` is suspended in its `complete`, a refresh may
subscribe and another task may unsubscribe, since aiohttp waits for a drain only now and then and a
reconnecting caller (`rivian.py:695`) changes the transport. The task that resumes then clears a handle
that is not the one it ended (`coordinator.py:1194-1195`): the new subscription goes on and nobody can end
it. The code does lose subscriptions so; `lost` counts the ones that this resumption clears, and
`NoOrphanFeed` says that this, and a write that raised, is the only way.

Simplifications: the module begins after a successful first refresh, so `data` is never
empty; the error count only widens an interval and is left out; a refresh or a suspended write
lasts less than the 5 minutes of staleness; the poll is taken where it can matter, when the feed is stale and the vehicle asleep or the
watchdog gone; unloading cancels the background poll; identifiers are reused when all
`MaxIds` are taken.

### ChargingFeed
The same shape for the charging subscription: no poll, one handle, an `enabled` switch
whose helper tasks unsubscribe, and a watchdog that starts and stops with the switch. A refresh may
subscribe while a switch-off's write is suspended, and loses its handle when that write returns
(`coordinator.py:550-551`), as above.

### CommandTracking
An execution goes post, subscribe, write, poll; one that finds the vehicle asleep runs a
nested wake first, with an identifier, a subscription and records of its own. `rec`,
`terminal` and `old` are the command records; `Prune` evicts only expired ones, as many
as the table is over its capacity (which of them is a choice).
Timers, early unsubscriptions and the shutdown are actions of their own because they are
tasks of their own. Left out: `_command_tracking_started`, `_last_command_id`, listener
refreshes, and "Already subscribed" (the gateway's ids are unique).

### LiveCamera
Tasks: the offers (an offer is its session), `async_prepare_live` under its lock, a pump
per signalling socket, and whoever closes a session. `pc` is where an offer or preparation
is suspended, `cl` where a close is, `pump` what the pump does. Every await of an offer has
a step for success, one for failure and one for a session closed meanwhile. `camera` is
`_session_camera`; `cfg` is history-like: which camera the configuration in use was asked
for. Age (60 s of a preparation, the relays' time to live) is a choice: a suitable
preparation may always be too old.

Left out here: ICE candidates, relayed messages and SDP (see LiveSignalling, OfferTrimming), the
refusals before a session exists, cancellation of an offer. A
close that does not suspend and the offer that waits for it are two steps here.

### SubscriptionService
The abstract specification of the client: `owned` and `served`, `Register`, `Drop`, `Serve`,
`Disconnect`. `WsMonitor!ServiceSpec` is its instance under the refinement `owned <- subs`,
`served <- IF Connected THEN live[ws] ELSE {}`, a property of the run WsMonitor. It is what
the other modules rely on when they hold a feed's identifiers in `reg` (VehicleFeed,
ChargingFeed) or a subscription in `subs` (CommandTracking).

### ChargingData, VehicleRecord, CoordinatorData
ChargingData is the charging record: a session frame is a snapshot, Parallax messages
accumulate, a real start time clears what came before, `Invented` is the start time the code
makes up for a session it met under way. A value is the number of the session it was measured
in. VehicleRecord is the vehicle's record with its writers; four keys stand for the ways a
key is handled. CoordinatorData composes both: one Parallax message may be written to both,
and `chargerStatus` clears the time to the end of charge. Histories are left out.

### ChargingGraph
`decode_charging_graph_global`, a function of a list (its sum is `Total` of Lists), over the lists a growing session
sends: start, charged time and power. Rounding and the range rate are left out. That a session
only appends segments and moves the last end is assumed of the vehicle.

### ChargingSchedule
The server's schedule, the cache, and tasks that read, change and write: a start, a duration
computed from an end, a switch, the amperage, the poll. Time is quiet steps: ten seconds, a
quarter of an hour, longer; the day has `Day` hours, so that a window wraps at midnight. While a
task is busy the cache does not age: a request is shorter than ten seconds. The poll is not promised:
every frame the vehicle publishes puts Home Assistant's timer off for another fifteen minutes, so a vehicle
that keeps publishing may show a wrong schedule until an entity asks. `CacheHeals` says what happens
if refreshes go on (`RefreshesGoOn`).

### CloudRequests
The client's request with its order of tests (status, errors, the classes of error), the retry
of the account's query without option codes, and the coordinator above it. Refreshes may
overlap: `config_flow.py:89` and `button.py:236` refresh beside the timer. A coordinator is one of
three per behaviour. Left out: null data, and the handler of any other exception. The
back-off is in the code but never changes an interval: every concrete coordinator has a base of
900 or 0 (`tests/test_coordinator_base.py:37` tests an artificial one).

### ConfigEntry, PhoneEnrolment
ConfigEntry is the life of entries: the login form with its second factor, setup through its
first refreshes in order, what each failure leaves, unload, reload, the shared service, and the
reauthentication. Home Assistant's own rules (setup and unload of an entry are serialised, a
failed setup is retried, coordinators are shut down in any order) are external.
PhoneEnrolment is vehicle control: an options form holds the options of when it was opened,
enrols and disenrols one phone per vehicle, and writes the options back; removal takes back
what the account lists.

### PhonePairing
The button, its walk over the advertisements, both handshakes step by step, the trace and the
repair issue. A peer's answer is an identity, a signer and a nonce that is this attempt's or not.
In the first generation the vehicle's nonce is not verified; the model has that too.

### LiveSignalling, OfferTrimming
LiveSignalling is a session after its configuration: the offer, the candidates of the viewer,
the flush that two tasks may run, the pump and the vehicle's frames. An event of the vehicle is under
its name (`"signal"`), under none (`"unnamed"`, `kvs_signaling.py:104`, `tests/test_camera.py:709`: it is relayed and
flushes, and leaves the recipient alone) or no signal (`"junk"`). A send that raises is not modelled, and an empty
candidate, which `send_ice` drops, is not given. OfferTrimming is
`trim_offer_for_kvs` over offers of two sections; sizes count sections, payloads and extensions.

### ParallaxTopics, SensorViews
ParallaxTopics holds every topic of the table of decoders, with a rule per key (the few ways a field
is read), and the messages: sent, lost, empty. Of keys that a decoder reads alike it lists some, and the keys of a
list's elements are one. SensorViews holds the tables of `const.py`: each
sensor with its transformation and options, each binary sensor with its words, the fields the
subscription asks for, and for each decoder the words it gives. The record keeps its writers as in
VehicleRecord. A behaviour follows one field, or two members of an aggregate; a number or text
is the word "value". A table is written as the set of its entries, group by group as the code lists them, and
`Table` makes the function of it. Both modules are long because the tables are; they hold no prose.
A few values are never cleared because nothing sends their absence: `climateHoldEndTime`,
`otaOneTimeInstallTime`, the streaming limit's reset time, `tripTargetSoc`. `SkipsEmpty` names the three
topics whose decoder takes an empty payload for no message though fields of theirs may be 0; one is the estimation
of the time, of which `charging.proto:169` says that empty means zero when not charging: the last estimate stays in
that record, until the session's frames replace it or a new `chargerStatus` clears it.

### ClosureViews, CabinClimate, ControlAccess
ClosureViews: the enumerations of next actions, `is_closed`, `is_opening`, `is_closing`, and the
lock made of several closures. A frame may bring an unusable value, which is not taken, or a null, which
wipes the value (`coordinator.py:1124-1131`): a closure that was unlocked counts no more then, and the lock may show
locked (`lock.py:27`); any word but "unlocked" counts as locked (`lock.py:35`). CabinClimate: a call of the climate entity is one to three
commands with reads of the record between them; occupants who change the climate themselves
are left out. ControlAccess: `available` of a control, fed by the vehicle's frames, by the
cloud connection and by the poll of the drivers' phones, which changes `_available` without
writing the state.

## 3. Runs

| Run | Instance | Distinct states | Shows |
|---|---|---|---|
| WsMonitor | 2 callers, 2 sockets, symmetry | 2,208,749 | no unsubscribed id is served; while calm one socket, an event that speaks for it, no subscribe before the ack; the client implements SubscriptionService |
| WsMonitorLive | 1 caller, 2 sockets, fairness | 49,118 | a closed socket is replaced unless the client was stopped or the monitor died |
| VehicleFeed | 2 ids per feed, 1 bad-frame task, 1 write suspended at a time, 1 raising write, vehicle and tire pressure followed | 2,233,366 | handles and subscriptions stay paired but for a handle a late resumption clears, a refresh succeeds only on a frame of its own |
| VehicleFeedLive | no bad-frame task, no raise, streams that end, vehicle, tire pressure and cloud followed, fairness | 214,123 | a dropped feed comes back, a silent one is restarted |
| ChargingFeed | feed: 2 helpers, 3 ids, 1 raising write; schedule: 2 tasks, of which one polls, days of 2 hours, 1 write of the phone; fairness | 74,305 | the same pairing; off means off unless a refresh was overtaken; no update is lost, times are as asked, the cache heals if refreshes go on |
| CommandTracking | 1 execution and its wake, capacity 1, 1 raising write; climate: 2 calls; pairing: 3 addresses, 2 attempts, 1 reload; access: 3 controls; fairness | 161,273 | answers are kept, ends are remembered, subscriptions end; the climate ends as asked; a bond is with this vehicle; what is shown of a control is what it would answer |
| LiveCamera | 2 offers, 1 preparation task, 2 cameras, 2 attempts | 2,160,848 | one session, nothing left over, no circular wait, the camera picked |
| LiveCameraPrepared | the same, 1 attempt | *violated* | a preparation may be kept under the wrong camera's label |
| ConfigEntry | entry: 1 or 2 entries, 2 vehicles, 1 failure; forms: 2 vehicles, 2 keys, 2 forms; fairness | 704,766 | nothing stays open, the service is there with an entry, a lapse is recovered; options and enrolled phones agree |
| CoordinatorData | 3 phases of charging, 2 usable values, 2 of 4 keys per behaviour | 417,696 | a key keeps its writer, no older session shows, totals go forward, both records agree |
| DataPaths | requests: 2 refreshes, 1 change, 1 error; topics: every key; closures: all, 2 locks; signalling: 2 candidates, 2 events; offers: 3 and 2 payloads; sensors: every field; graph: 3 segments, 2 times; fairness | 370,466 | seven paths between the vehicle or the cloud and the owner, see the properties |
| SensorWords | every field with a decoder | *violated* | some decoders give words that are no option of their sensors |

**Bounds.** *Two sockets, two callers*: each hazard of the client is between a socket and
its predecessor and between two tasks that connect; closed identifiers are reused, so the
number of reconnections is not bounded. *Two identifiers per feed* are the held one and a
second that a race could lose; `NoOrphanFeed` counts them, and the charging feed has a third. *One bad-frame task* beside
poll, request, watchdog and shutdown makes five tasks that unsubscribe; *one write suspended at a time* (`MaxSuspended`)
is enough for a refresh to subscribe meanwhile, which is how a handle is lost, and ChargingFeed has no such bound. `Followed`
names the feeds an instance subscribes: of the others the client answers as if it were not connected; the vehicle's
and the tire pressure's are the two that renewals and the watchdog treat apart. `BackendFails` lets the backend end
streams, in the run about their return. The proofs have every value of these bounds. *One
raising write* is enough for each property's excuse `raised` to be used once; behaviours with
none are contained in it. *Capacity 1* makes the table overflow at the second command: an
execution's own wake is that second command. *Two offers, one preparation* that repeats:
an offer superseded, one that supersedes, and any number of preparations around
them. *Two attempts*, where the code has three, are a first and a last one. *Two vehicles*
are one that fails or shuts down and one that does not; two entries are the service's owner
and another. *Two refreshes, calls or forms* are what overlapping needs. *Three phases* are a
session, a pause and the next one. *Three segments* are charging, a pause and charging. *Days of two
hours* let a window end before it starts, at its start and after it. *Three and two payloads*
are the wanted codec, its retransmission and one that must go. Where an instance narrows
more, the MC module says so: two presses that overlap find one address each, two forms that
overlap know one vehicle, and one frame names two keys at most. Deadlock checking is off
where the bounded tasks of an instance may all have ended.

**Fairness.** Weak fairness of a task's own step: asyncio resumes what is
ready, and every external wait of the code has a timeout. Strong fairness appears where
something may be tried and fail any number of times and the property is only about a world
that recovers: a reconnection that finally opens (`Opened(Monitor)`), a subscription that
is finally made (`RefreshMakes`, `RefreshSubscribes`), a request of the schedule that is finally
answered (`Answers`), time that passes between two frames (`FeedAges`), and a server that closes a
socket it was abandoned on. CloudRequests has a server that is `well` from some point on, and its
liveness speaks of nothing before. Frames are promised in two places, where the property is
only that one is shown (`ViewFed`) or that the next one shows a change (`PairingFollows`). Bad frames,
errors of the backend, switches, new commands, shutdown and the schedule's poll are never promised
(`CacheHeals` has the poll as a premise).
`Reconnects` and `SilentFeedRestarts` (a part of `FeedReturns`) except a dead monitor and a dead watchdog.

**Vocabulary of the excuses.** `calm`: no two connection attempts ever overlapped and
`close()` was not called. `raised`: writes to the socket that raised after the registration. `lost`
(VehicleFeed, ChargingFeed): the subscriptions whose handle a resuming `_unsubscribe` cleared though it had
ended another. `overtaken`: the charging feed was switched off during a refresh. `astray`:
a live session chose its camera during a preparation, or a camera was picked while the
card held the switch. `orphaned`, `adopted`: a session reported over, or values gathered, under an
invented start time. `disturbed`: in the last quiet ten seconds tasks overlapped, a request
failed or the phone wrote. `outlived`: a refresh went on after its coordinator's shutdown.
`together`: two entries were loaded at once. `limited`, `overlapped`, `failed`, `lapsed`, `stuck`: what
went wrong with the phones. `crossed`: two presses at once. `alone`, `smooth`: a climate call overlapped
none, and its commands worked on what it saw. `apart`: no refreshes overlapped. `late` (ControlAccess): the poll
changed the flag and no frame followed. Each is a history variable that guards a property in exactly the case
where the code gives no such promise.

### Where documents and code disagree
The violation runs, with the quoted line, are in `PROJECT.json` (`findings`). Met while
modelling and not kept as runs, first those that a document or test of the repository speaks of:
- `tests/test_parallax_single_subscription.py:7` has a reconnection restore the subscriptions; a
  caller that reconnects before the monitor does (`rivian.py:695`) resubscribes nothing.
- `WEBSOCKET_STALENESS_FIX.md:105`: the watchdog catches what fails; its own failing
  `_unsubscribe` ends it (`coordinator.py:230`).
- `WEBSOCKET_STALENESS_FIX.md:63` promises an immediate resubscription at a 502 or 504; the
  branch is never reached (`ws_monitor.py:150`), so the watchdog is what restarts the feed.
- `CHANGES_SUMMARY.md:81`: the charging subscription is only active while charging; a refresh
  overtaken by the switch leaves one (`coordinator.py:574`).
- `README.md:124`: a finished command fires an event; one that ends in an integer state fires none
  (`coordinator.py:1315`).
- `README.md:152`: the action `rivian.set_charging_schedule` calls a client method of that name
  (`__init__.py:302`, `coordinator.py:1427`) and the client has only `set_charging_schedules`
  (`rivian.py:440`): every call fails. `tests/test_init.py:1016` replaces the coordinator's method.
- `tests/test_next_action_states.py:219`: a cover with an unavailable first action, or a liftgate being
  processed, shows "open" (`cover.py:159-165`).

The client and the feeds:
- An `_unsubscribe` whose write returns after a refresh has subscribed clears the new handle
  (`coordinator.py:550-551`, `1194-1195`): that subscription delivers until the client closes, and a next refresh
  makes another beside it.
- The monitor never starts a receiver on a socket that had none (`ws_monitor.py:171`): when the first caller cannot
  send `connection_init` on a socket that stays open, every later call on it waits for an ack nobody reads.
- A poll that every published frame postpones leaves the schedule's cache as it is (`coordinator.py:846`).
- A 4401 or 4403 stops the monitor for good until the next caller, whose `new_connection`
  clears the stop (`ws_monitor.py:82`).
- `start_subscription` may return None for a socket that closed after its ack
  (`ws_monitor.py:96`); the Parallax subscription is then recorded as full (`rivian.py:610`). One whose
  send raises stays registered beside the smaller one made next (`rivian.py:596-608`).
- A debounced refresh in flight at shutdown restarts the watchdog (`coordinator.py:931`).
- A charging subscription that raises the first time is never retried by the watchdog (`coordinator.py:190`).
- A command may be reported as a timeout although its frame arrived in the last half second
  (`entity.py:183`); of two commands of one entity the first to end clears the mark of both (`entity.py:213`).
- A live session closed during the retry delay sends one more START (`camera.py:328`).

The records and what shows them:
- An invented start time stays after the list of sessions was empty
  (`coordinator.py:511`; `tests/test_charging_two_writers.py:231`).
- A frame with `{"value": null}` wipes a value that Parallax filled, and a closure that was last unlocked: the lock
  may show locked then (`coordinator.py:1124`, `lock.py:27`); a mileage that is null when an
  odometer comes raises, which ends the receiver (`coordinator.py:985`).
- `gearGuardVideoStatus` is "disabled" from Parallax and compared with "Disabled" (`switch.py:52`).
- The failure statuses of `security.py:29-32` are "unspecified" and "set"; their binary sensors wait for
  "detected" (`const.py:1848-1901`). A frunk that is ajar is open on its own sensor only.
- A stale next action wins over a newer closure value (`cover.py:164`).
- An unknown key counts as on: defrost, cabin heat, steering wheel heat, Gear Guard's video; a climate call on such
  a record skips the enabling (`climate.py:107-115`), and goes on when a command failed.
- The update entity adds a text to a version it does not know (`update.py:74`).
- `_handle_driver_update` raises when the account does not list the phone: the entity is not
  added, or keeps its controls (`entity.py:230-236`); it never writes the state it changes.

The schedule, the entry and the phones:
- An end time is computed from a cached start (`time.py:45`); a default schedule is posted over the owner's when none was read.
- The service is bound to the first entry; a wrong password or one-time password is not caught in the form.
- With a new key at the limit of phones, the first phone is left; the limit met on a second vehicle after
  another was disenrolled, and the form closed, leaves options that claim control; overlapping forms lose a key.
- An advertisement with a second-generation name and without its service is not bounded by
  `GEN2_MAX_ATTEMPTS`; a connection that fails to close after the bonding reports failure; a reload during a
  press shares and resets the trace; the first generation does not verify the vehicle's nonce.

## 4. Theorems

Eight modules prove 29 theorems, `THEOREM Spec => []Property` (`Spec => Property` for an action property),
for every value of the constants; the runs check the same properties on small instances. Every invariant and
action property of the passing runs is the property of a theorem. Each module
states the inductive invariant of what it is about, shows that the initial states have it and that every
action keeps it, one lemma or one step per action, and ends with the theorems. The assumptions are those
of the modelled modules, each named there and evaluated by TLC: that sets of tasks are finite where sizes
are compared, that sentinels (`None`, `Absent`, `Nothing`, `Unknown`, `NoKey`, `Unsaid`) are none of the
values they stand beside, and that bounds are natural numbers. None restricts what the code may do.

| Module | Theorem | Inductive invariant, and why the property needs it |
|---|---|---|
| WsMonitorProofs | `TypeCorrect` | `TypeOK` itself |
| | `NoOrphan` | `ServedInv`: a reconnection makes an arbitrary non-open socket the current one, so a closed socket must serve no id (`ClosedServesNothing`) |
| | `CalmSafety` | `CalmInv`: one socket, the event and the ack need each other and who may be connecting (`OneHandshake`, `HandshakeAlone`, `WokenFindsAck`) |
| | `ImplementsService` | refinement: under `ServedInv` each step of the client is a step of SubscriptionService or a stutter |
| VehicleFeedProofs | `VehicleFeedIsHeld` | `FeedInv`: a handle whose subscription is gone is one whose end is being written (`LiveOrWritten`); a feed that a refresh is past has no handle left when it subscribes it (`BareBehind`), so the only handles cleared over a subscription are the `lost` ones |
| | `RefreshesStartFresh` | the same, unless a vehicle subscription lost its handle: at most one refresh runs (`OneRefresh`), and an initial frame is newer than its subscription (`InitialIsFresh`) |
| ChargingFeedProofs | `ChargingFeedIsHeld`, `OffStaysOff` | `FeedInv`: no handle is left when a refresh subscribes (`BareBeforeSub`), and nothing is about to be subscribed while the feed is off (`OffMeansOff`) |
| | `UpdatesAreAsAsked` | `ScheduleInv`: undisturbed, a task has read what the server holds and sends that with its change (`Undisturbed`), and the cache stands for the server (`CacheStands`); an action property |
| ControlsProofs | `PruningLosesNothing` | `TrackingInv`: an awaited command is young, its handle is kept, a subscription whose record is old is past its write (`OldIsHeld`), a start is announced before anything ends |
| | `ControlsAreOffered` | `AccessInv`: inductive with its types |
| | `CallsLeaveItAsAsked` | `ClimateInv`: which command each stage of a call is at and what the earlier ones did (`StageCommands`, `StagesDone`), one call at a time (`OneCall`) |
| | `PairsWithVehicle` | `PairInv`: a peer that has answered rightly is the vehicle (`PeerIsVehicle`), attempts left by generation (`SecondFirst`, `AttemptsLeft`), one press at a time unless crossed (`OnePress`) |
| LiveCameraProofs | `OneSessionLives`, `NothingIsLeft`, `ShownIsPicked` | `CameraInv`: what a session has at each await (`HasSession`, `PumpFollows`, `SocketLast`), the attempts, and the camera each configuration was asked for (`ConfigFollows`, `CameraFollows`) |
| CoordinatorDataProofs | `OwnerIsShown` | `RecordInv`: the owner of a key is who reported it last (`OwnerIsLastUsable`), a filled gap is one (`FilledIsGap`); with it `EtaAgrees` across the two records |
| | `OneSessionShown` | `ChargingInv`: what is shown is resolved from the two writers (`ShownIsResolved`), an invented start is marked (`InventedIsMarked`) |
| | `RecordsGoOn` | an action property, from `DataInv` |
| EntryProofs | `NothingIsLeftOpen` | `EntryInv`: what an entry owns at each place of its setup (`Local`), and what entries share (`Shared`) |
| | `OptionsMatchPhones` | `PhoneInv`: a form that is alone knows what the server has (`Alone`, `Agreed`), keys are used once (`KeysUsed`) |
| DataPathsProofs | `CloudIsTold` | `CloudInv`: an answer is not older than its refresh, only bad tokens are refused, and while no refreshes overlapped there is at most one (`OneAtATime`); a request without codes follows a rejection (`PlainOnceRejected`) |
| | `ClosuresAreShown` | `ClosureInv`: the record's next action is one the vehicle reports at its position (`InStepIsReported`), and each lock says what it last said, a null too (`LocksAsStated`) |
| | `SessionsAreRelayed` | `SignalInv`: a candidate is with one task or in the frames, never twice (`OneHolder`), frames begin with the offer, are unique and named in order (`FramesInOrder`, `NamesAreKnown`), a cancelled pump stays done (`PumpEnds`) |
| | `TopicIsTold` | `TopicTells` is inductive; its step needs that every rule of the table is sound (`TopicsAreSound`): a message that is as good as empty is decoded, or says nothing of the key, or a 0 that the key makes nothing of |
| | `TrimmedOfferMeansTheSame` | `TrimInv`: the offer is the viewer's, well formed, and what was sent is its trimming; what a trimmed section keeps is a lemma of its own |
| | `ChargeIsCounted`, `ChargeGoesOn` | the types; a list with one segment more has the same sum before it, and a last segment that ends later adds no less; the second is an action property |
| | `SensorsTellTheSame` | `SensorInv`: which fields an entity follows (`Followed`), that the record holds words the writers use, and before the first frame only the decoders' (`HeldIsGiven`), and that what was appended is no error (`AddedIsNoError`) |

`TopicsAreSound` is a fact about the code's own table, all its topics and keys: each lemma of
a group (`ChargingIsSound`, ...) says why its rules lose nothing with an empty payload: the field is
explicit, 0 is not in its mapping, the topic is registered with `empty_payload`, a condition keeps the key out, or the
topic is one of `SkipsEmpty`. A topic added without one of these would fail the proof.

`SensorEntry`, `BinaryEntry` and `DecodedEntry` are the like for the tables of `const.py` and the words of the
decoders: what every row has that the sensors rely on (how its value is made, that its options take the words its
decoder gives, that a word it is on for is no error code). The lemmas of a group (`CabinEntries`, `BodyGiven`, ...)
find it in the rows, `SensorRows`, `BinaryRows` and `DecodedRows` put the groups together, and the proof about
the steps uses nothing else of the tables. A field added to both platforms, an option left out, or a decoder
with a word its sensor lacks would fail there, except for the three fields that `DecodersFitOptions` names,
which are the finding of the run SensorWords.

**Lists.** The offer and the charging graph are about loops over lists of any length. `Lists` has the two loops as
recursive functions of the position reached, and DataPathsProofs proves what they return. The library's induction
theorems take an operator as parameter, which the provers cannot instantiate, so `Induction` gets it from
the well-founded order of the natural numbers: a set of naturals that is not empty has a least element (`LeastNat`,
from `WFMin`), so a set of naturals with 0 that is closed under successor has them all. `RecursionExists` shows with
it that a function defined by recursion on the position exists, without which the CHOOSE it stands for says nothing.
Then `TotalIsSum` gives the sum's recursion, and `ThoseAreKept` that the filtered list has
just the elements wanted, in the order of positions that grow.

**Only model-checked**, and why. The liveness properties (`Reconnects`, `FeedReturns`, `FeedAndCacheHeal`,
`TrackingEnds`, `CallsEnd`, `PressEnds`, `PairingFollows`, `ReauthRecovers`, `CandidatesArrive`, `CloudHeals`,
`SensorFed`) need fairness and ENABLED, out of the prover's reach. So are RECURSIVE operators: a module that is
proved about has recursive functions or none. The properties of the two violation runs are false.

## 5. Not modelled, and why

- The dashboard card (`www/`) drives the camera's prepare, hold and play, which LiveCamera has; the
  scripts run once, by hand or in continuous integration, on files.
- Selects, switches, numbers beyond the schedule, the tracker, notifications, updates, images and
  diagnostics read one record; their commands go through CommandTracking.
- Protocol buffers, base64, SigV4, ECDH, HMAC and AES are library calls: a message decodes or does not,
  a signature is right or not. Rounding, units and number formats are left out.
- The network, the gateway, the server, Home Assistant's timers, debouncer and config
  entries, aiohttp's sockets and the Bluetooth adapter are external and appear as what the code can
  observe of them.
- ICE relays' lifetimes and `_wire.py`'s readers of bytes are small pure functions whose tests cover them.

## 6. Plan

The model stands, and every safety property that a run checks is proved. What would extend it, in this order:
1. The selects, switches and numbers that read a record and send a command: stale records there, as in CabinClimate.
2. A caller's reconnection in WsMonitor for a session of any kind of subscription (`rivian.py:695`), once the code
   says what such a caller should get back.
3. A null `data` in a response, and a handler of other exceptions, in CloudRequests.

## 7. Running

In this directory: `tlc -workers 2 -config <Run>.cfg <module of the run>` (MC<name>, or SensorViews for
SensorWords), and `tlapm <module>Proofs.tla` for each of the eight proof modules; each is one to a few minutes. A property that a run checks is often a conjunction
of named parts, each with its comment. Each property of a passing run, and each part but the types, has a mutant in
`PROJECT.json`: a definition with a plausible bug (kept in the module before the
definition, marked `mutant`) under which TLC finds the property violated.
