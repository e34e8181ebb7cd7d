--------------------------- MODULE CommandTracking ----------------------------
(***************************************************************************)
(* The commands a control entity sends (entity.py) and how one             *)
(* VehicleCoordinator tracks them (coordinator.py).  An execution posts    *)
(* its command (after a wake of its own when the vehicle sleeps), follows  *)
(* its state by a subscription and looks for a first record every half     *)
(* second.  The processes are asyncio tasks: the executions, the receiver  *)
(* that brings frames, a 60-second timer and early unsubscriptions per     *)
(* command, and async_shutdown.  A step runs from one await that may       *)
(* suspend to the next.  The gateway that answers a post and the server    *)
(* that sends frames are external.                                         *)
(***************************************************************************)
EXTENDS Naturals, FiniteSets

CONSTANTS Calls,      \* executions of _execute_command, all of one entity
          Sleepers,   \* bound: those that may find the vehicle asleep
          Capacity,   \* COMMAND_STATE_CAPACITY
          MaxRaises,  \* bound: the subscriptions whose write raises
          None

ASSUME CommandAssumption ==
    /\ IsFiniteSet(Calls) /\ None \notin Calls /\ Sleepers \subseteq Calls
    /\ Capacity \in Nat /\ MaxRaises \in Nat

(* Command ids: that of a call's own command and that of its wake.         *)
Main(c) == <<c, "main">>
Wake(c) == <<c, "wake">>
Ids     == {Main(c) : c \in Calls} \cup {Wake(c) : c \in Sleepers}

VARIABLES
    pc,          \* where each execution is suspended
    waking,      \* the executions inside their nested send of a wake
    inProgress,  \* _command_in_progress: the call that set it, or None
    status,      \* _last_command_status: of the last execution to set it
    reg,         \* ids with a subscription in the client
    held,        \* the keys of _command_state_subscriptions
    timer,       \* ids whose _auto_unsubscribe sleeps
    dropping,    \* ids with a created _unsubscribe_command_state task
    rec,         \* the keys of _command_states
    terminal,    \* those whose record has terminal_reached
    old,         \* those whose first frame is COMMAND_STATE_WINDOW ago
    leaving,     \* the ids async_shutdown has still to unsubscribe
    down,        \* async_shutdown has begun
    initiated,   \* history: ids with a command_initiated event
    outcome,     \* history: ids with a command_success or _failed event
    seen,        \* history: ids that ever had a record
    ended,       \* history: ids ever reported in a terminal state
    lost         \* history: ids whose subscription's write raised

vars == <<pc, waking, inProgress, status, reg, held, timer, dropping, rec,
          terminal, old, leaving, down, initiated, outcome, seen, ended, lost>>
execution == <<pc, waking, inProgress, status>>
tracking  == <<reg, held, timer, dropping, leaving, down>>
records   == <<rec, terminal, old>>
history   == <<initiated, outcome, seen, ended, lost>>

TypeOK ==
    /\ pc \in [Calls -> {"idle", "post", "sub", "write", "poll", "done"}]
    /\ waking \in SUBSET {c \in Sleepers : pc[c] \in {"post", "sub", "write"}}
    /\ inProgress \in Calls \cup {None}
    /\ status \in {"none", "answered", "timeout"}
    /\ {reg, held, timer, dropping, rec, terminal, old, leaving,
        initiated, outcome, seen, ended, lost} \subseteq SUBSET Ids
    /\ terminal \cup old \subseteq rec /\ held \subseteq timer
    /\ down \in BOOLEAN

Init ==
    /\ pc = [c \in Calls |-> "idle"] /\ waking = {}
    /\ inProgress = None /\ status = "none"
    /\ reg = {} /\ held = {} /\ timer = {} /\ dropping = {}
    /\ rec = {} /\ terminal = {} /\ old = {}
    /\ leaving = {} /\ down = FALSE
    /\ initiated = {} /\ outcome = {} /\ seen = {} /\ ended = {} /\ lost = {}

Goto(c, s) == pc' = [pc EXCEPT ![c] = s]
Current(c) == IF c \in waking THEN Wake(c) ELSE Main(c)

-----------------------------------------------------------------------------
(* _execute_command up to its post; a sleeping vehicle is sent a wake      *)
(* first, by a nested send_vehicle_command.                                *)
Start(c) ==
    /\ pc[c] = "idle"
    /\ Goto(c, "post")
    /\ \/ UNCHANGED waking
       \/ c \in Sleepers /\ waking' = waking \cup {c}
    /\ inProgress' = c
    /\ UNCHANGED <<status, tracking, records, history>>

ReturnsBusy(c) ==   \* mutant: _command_in_progress stays
    Goto(c, "done") /\ waking' = waking \ {c} /\ UNCHANGED inProgress

(* The finally of _execute_command, on every way out of it.                *)
Returns(c) ==
    /\ Goto(c, "done")
    /\ inProgress' = None
    /\ waking' = waking \ {c}

(* send_vehicle_command is over in c: a wake is followed by the command    *)
(* itself, whatever came of it; the command by a first look at its record  *)
(* if it has an id.                                                        *)
Sent(c, hasId, r) ==
    \/ /\ c \in waking
       /\ Goto(c, "post") /\ waking' = waking \ {c}
       /\ UNCHANGED <<inProgress, status>>
    \/ /\ c \notin waking
       /\ \/ ~hasId /\ Returns(c) /\ UNCHANGED status
          \/ /\ hasId /\ Main(c) \notin r
             /\ Goto(c, "poll")
             /\ UNCHANGED <<waking, inProgress, status>>
          \/ /\ hasId /\ Main(c) \in r
             /\ status' = "answered"
             /\ Returns(c)

PostReturnsSilently(c) ==   \* mutant: the event is fired once subscribed
    /\ pc[c] = "post" /\ Goto(c, "sub")
    /\ UNCHANGED <<waking, inProgress, status, tracking, records, history>>

(* The post returned an id (an event is fired), none, or raised, which     *)
(* ends the execution, that of a wake the whole of it.                     *)
PostReturns(c) ==
    /\ pc[c] = "post"
    /\ \/ /\ initiated' = initiated \cup {Current(c)}
          /\ Goto(c, "sub")
          /\ UNCHANGED <<waking, inProgress, status>>
       \/ Sent(c, FALSE, rec) /\ UNCHANGED initiated
       \/ Returns(c) /\ UNCHANGED <<status, initiated>>
    /\ UNCHANGED <<tracking, records, outcome, seen, ended, lost>>

(* subscribe_for_command_state: the id is registered and its message       *)
(* written; or the client is not connected and None is kept for a handle;  *)
(* or it raised, which is only logged, in the end after registering.       *)
Subscribe(c) ==
    /\ pc[c] = "sub"
    /\ \/ /\ reg' = reg \cup {Current(c)}
          /\ Goto(c, "write")
          /\ UNCHANGED <<waking, inProgress, status, held, timer, lost>>
       \/ /\ held' = held \cup {Current(c)} /\ timer' = timer \cup {Current(c)}
          /\ Sent(c, TRUE, rec)
          /\ UNCHANGED <<reg, lost>>
       \/ /\ Sent(c, TRUE, rec)
          /\ UNCHANGED <<reg, held, timer, lost>>
       \/ /\ Cardinality(lost) < MaxRaises /\ lost' = lost \cup {Current(c)}
          /\ reg' = reg \cup {Current(c)}
          /\ Sent(c, TRUE, rec)
          /\ UNCHANGED <<held, timer>>
    /\ UNCHANGED <<dropping, leaving, down, records, initiated, outcome, seen,
                   ended>>

SubscribedUntimed(c) ==   \* mutant: no _auto_unsubscribe is started
    /\ pc[c] = "write"
    /\ held' = held \cup {Current(c)}
    /\ Sent(c, TRUE, rec)
    /\ UNCHANGED <<reg, timer, dropping, leaving, down, records, history>>

(* The write is done: the handle is kept and the 60-second timer started.  *)
(* Frames may have come before.                                            *)
Subscribed(c) ==
    /\ pc[c] = "write"
    /\ held' = held \cup {Current(c)} /\ timer' = timer \cup {Current(c)}
    /\ Sent(c, TRUE, rec)
    /\ UNCHANGED <<reg, dropping, leaving, down, records, history>>

(* A look at the record, half a second after the last one.                 *)
PollFinds(c) ==
    /\ pc[c] = "poll" /\ Main(c) \in rec
    /\ status' = "answered"
    /\ Returns(c)
    /\ UNCHANGED <<tracking, records, history>>

(* The time is up.  It is looked at before the record, so a frame of the   *)
(* last half second is not seen.                                           *)
PollTimesOut(c) ==
    /\ pc[c] = "poll"
    /\ status' = "timeout"
    /\ Returns(c)
    /\ UNCHANGED <<tracking, records, history>>

-----------------------------------------------------------------------------
ExpiredAnyAge(r) == r \ held        \* mutant: does not look at the age
ExpiredThoughHeld(r) == old \cap r  \* mutant: does not look at the handles

(* The records _prune_command_states may evict: of r, those without a      *)
(* handle whose first frame is COMMAND_STATE_WINDOW ago.                   *)
Expired(r) == (old \cap r) \ held

(* _prune_command_states: the overflow goes as far as records have         *)
(* expired, the oldest first (which is left out).                          *)
Prune(r, t) ==
    LET overflow == IF Cardinality(r) > Capacity THEN Cardinality(r) - Capacity ELSE 0
    IN  \E gone \in SUBSET Expired(r) :
           /\ \/ Cardinality(gone) = overflow
              \/ Cardinality(gone) < overflow /\ gone = Expired(r)
           /\ rec' = r \ gone
           /\ terminal' = t \ gone
           /\ old' = old \ gone

TerminalNow(i, ends) == IF ends THEN terminal \cup {i} ELSE terminal \ {i}  \* mutant
Terminal(i, ends) == IF ends THEN terminal \cup {i} ELSE terminal

(* A frame of i with a state: one of the integers that go on or an unknown *)
(* string ("open"), another integer ("number"), or one of the strings that *)
(* end a command, which fires the outcome's event and creates a task that  *)
(* unsubscribes.                                                           *)
Frame(i, kind) ==
    /\ i \in reg
    /\ Prune(rec \cup {i}, Terminal(i, kind # "open"))
    /\ seen' = seen \cup {i}
    /\ ended' = IF kind # "open" THEN ended \cup {i} ELSE ended
    /\ outcome' = IF kind = "string" THEN outcome \cup {i} ELSE outcome
    /\ dropping' = IF kind = "string" THEN dropping \cup {i} ELSE dropping
    /\ UNCHANGED <<execution, reg, held, timer, leaving, down, initiated, lost>>

(* A frame of i without a state.                                           *)
NullFrame(i) ==
    /\ i \in reg
    /\ dropping' = dropping \cup {i}
    /\ UNCHANGED <<execution, reg, held, timer, leaving, down, records, history>>

(* _unsubscribe_command_state: the key goes first, then, if there is a     *)
(* handle, the client's id; the write after that changes nothing here.     *)
Drop(i) ==
    /\ held' = held \ {i}
    /\ reg' = IF i \in held THEN reg \ {i} ELSE reg

DropRuns(i) ==
    /\ i \in dropping /\ dropping' = dropping \ {i}
    /\ Drop(i)
    /\ UNCHANGED <<execution, timer, leaving, down, records, history>>

(* 60 seconds after the subscription.                                      *)
AutoUnsubscribe(i) ==
    /\ i \in timer /\ timer' = timer \ {i}
    /\ Drop(i)
    /\ UNCHANGED <<execution, dropping, leaving, down, records, history>>

(* Time: COMMAND_STATE_WINDOW after the first frame.  No write lasts that  *)
(* long, and an execution looks for a record far sooner.                   *)
RecordAges(i) ==
    /\ i \in rec \ old
    /\ \A c \in Calls : i = Current(c) => pc[c] \notin {"write", "poll"}
    /\ old' = old \cup {i}
    /\ UNCHANGED <<execution, tracking, rec, terminal, history>>

(* async_shutdown: the commands it finds are unsubscribed one by one.      *)
ShutdownBegins ==
    /\ ~down /\ down' = TRUE
    /\ leaving' = held
    /\ UNCHANGED <<execution, reg, held, timer, dropping, records, history>>

ShutdownDrops(i) ==
    /\ i \in leaving /\ leaving' = leaving \ {i}
    /\ Drop(i)
    /\ UNCHANGED <<execution, timer, dropping, down, records, history>>

-----------------------------------------------------------------------------
ExecutionStep(c) == PostReturns(c) \/ Subscribe(c) \/ Subscribed(c)
                    \/ PollFinds(c) \/ PollTimesOut(c)
EndsTracking(i)  == DropRuns(i) \/ AutoUnsubscribe(i) \/ ShutdownDrops(i)

Next ==
    \/ \E c \in Calls : Start(c) \/ ExecutionStep(c)
    \/ \E i \in Ids : \/ \E kind \in {"open", "number", "string"} : Frame(i, kind)
                      \/ NullFrame(i)
                      \/ EndsTracking(i)
                      \/ RecordAges(i)
    \/ ShutdownBegins

Spec == Init /\ [][Next]_vars

(* asyncio resumes every task, requests time out and timers fire; frames,  *)
(* new executions and a shutdown are not promised.                         *)
Fairness == /\ \A c \in Calls : WF_vars(ExecutionStep(c))
            /\ \A i \in Ids : WF_vars(DropRuns(i)) /\ WF_vars(AutoUnsubscribe(i))
                              /\ WF_vars(ShutdownDrops(i))
FairSpec == Spec /\ Fairness

-----------------------------------------------------------------------------
(* A record is evicted for good: unless its subscription's write raised,   *)
(* no frame can bring back a command that _command_states has forgotten    *)
(* and count it from the start.                                            *)
EvictedForGood == seen \ rec \subseteq Ids \ (reg \ lost)

(* The record an execution waits for is there from its first frame until   *)
(* the execution has looked, however full _command_states is.              *)
AnswerIsKept == \A c \in Calls : pc[c] = "poll" /\ Main(c) \in seen => Main(c) \in rec

(* Once a command was reported in a terminal state its record says so,     *)
(* whatever frames follow, unless the subscription's write raised.         *)
EndIsRemembered == ended \cap rec \subseteq terminal \cup lost

(* No outcome is announced of a command whose start was not.               *)
OutcomeAfterStart == outcome \subseteq initiated

(* Every subscription ends, also one whose last frame came before its      *)
(* handle was kept, unless its write raised.                               *)
SubscriptionEnds == \A i \in Ids : (i \in reg /\ i \notin lost) ~> i \notin reg

(* The entity does not show a command in progress for ever.                *)
ProgressEnds == inProgress # None ~> inProgress = None

(* The table of command records is pruned without loss: what goes is over  *)
(* for good, what someone waits for stays. What a command came to is told  *)
(* after its start, and no later frame takes it back.                      *)
RecordsKept ==
    /\ TypeOK
    /\ EvictedForGood
    /\ AnswerIsKept
    /\ EndIsRemembered
    /\ OutcomeAfterStart

(* The tracking of a command ends, its subscription and its mark on the    *)
(* entity.                                                                 *)
TrackingEnds ==
    /\ SubscriptionEnds
    /\ ProgressEnds
=============================================================================
