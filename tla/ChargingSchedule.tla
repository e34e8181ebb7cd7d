-------------------------- MODULE ChargingSchedule --------------------------
(***************************************************************************)
(* The charging schedule of one vehicle: the copy at the server, the cache *)
(* of VehicleCoordinator, and what reads and writes them.  The poll reads, *)
(* as does every other refresh; the schedule's entities (time, number,     *)
(* switch) read, change a field, and send all of it back.  A read within   *)
(* ten seconds of the last (fifteen minutes, for the poll and the first    *)
(* read of a time entity) is answered by the cache.                        *)
(***************************************************************************)
EXTENDS Naturals

CONSTANTS Users,     \* the tasks: the poll is one that asks for nothing
          Day,       \* MINUTES_PER_DAY
          DefaultStart, DefaultDuration,
          Unread,    \* _charging_schedule is None
          MaxWrites  \* bound: the schedules the owner's phone writes

ASSUME ScheduleAssumption ==
    /\ Day \in Nat \ {0} /\ DefaultStart \in 0 .. Day - 1
    /\ DefaultDuration \in 1 .. Day /\ MaxWrites \in Nat
    /\ Unread \notin [start : Nat, duration : Nat, enabled : BOOLEAN]

VARIABLES
    server,     \* external: the schedule the server holds
    cache,      \* _charging_schedule
    sinceRead,  \* time since _last_schedule_fetch: 0 within ten seconds,
                \* 1 within fifteen minutes, 2 longer
    user,       \* what each task does: see Idle
    writes,     \* external: how often the phone wrote
    disturbed   \* history: since the last ten quiet seconds two tasks
                \* overlapped, a request failed, or the phone wrote

scheduleVars == <<server, cache, sinceRead, user, writes, disturbed>>

Minutes == 0 .. Day - 1
Schedules == [start : Minutes, duration : 1 .. Day, enabled : BOOLEAN]
Default == [start |-> DefaultStart, duration |-> DefaultDuration, enabled |-> TRUE]
EndOf(s) == (s.start + s.duration) % Day

Requests == [do : {"poll"}, to : {0}] \cup [do : {"start", "end"}, to : Minutes]
            \cup [do : {"enable"}, to : {0, 1}]

(* A task: the request it serves, where it is suspended (the first read of *)
(* a time entity or poll, the read of an update, the write), the answer of *)
(* the server, the fields to change, and (history) whether they follow a   *)
(* schedule that the server did not hold.                                  *)
Idle == [at |-> "idle", ask |-> [do |-> "poll", to |-> 0], got |-> Unread,
         patch |-> Unread, blind |-> FALSE]
Busy == {u \in Users : user[u].at # "idle"}

ScheduleTypeOK ==
    /\ server \in Schedules /\ cache \in Schedules \cup {Unread}
    /\ sinceRead \in 0 .. 2 /\ writes \in 0 .. MaxWrites
    /\ disturbed \in BOOLEAN
    /\ user \in [Users -> [at : {"idle", "reading", "rereading", "writing", "written"},
                           ask : Requests, got : Schedules \cup {Unread},
                           patch : Schedules \cup {Unread}, blind : BOOLEAN]]

ScheduleInit ==
    /\ server = Default /\ cache = Unread /\ sinceRead = 2
    /\ user = [u \in Users |-> Idle] /\ writes = 0
    /\ disturbed = FALSE

-----------------------------------------------------------------------------
WrappedOnlyNegative(d) == IF d < 0 THEN d + Day ELSE d   \* mutant: < 0

(* A duration: never zero or negative.                                     *)
Wrapped(d) == IF d <= 0 THEN d + Day ELSE d

ChangedStartOnly(ask, s) ==   \* mutant: a new start moves the end as well
    CASE ask.do = "start"  -> [s EXCEPT !.start = ask.to]
      [] ask.do = "end"    -> [s EXCEPT !.duration = Wrapped(ask.to - s.start)]
      [] ask.do = "enable" -> [s EXCEPT !.enabled = (ask.to = 1)]

(* The schedule s with what was asked for: a new start keeps the end.      *)
Changed(ask, s) ==
    CASE ask.do = "start"  -> [s EXCEPT !.start = ask.to,
                                        !.duration = Wrapped(EndOf(s) - ask.to)]
      [] ask.do = "end"    -> [s EXCEPT !.duration = Wrapped(ask.to - s.start)]
      [] ask.do = "enable" -> [s EXCEPT !.enabled = (ask.to = 1)]

(* The fields that an update sends of patch, over those of the copy s.     *)
Updated(ask, patch, s) ==
    CASE ask.do = "start"  -> [s EXCEPT !.start = patch.start, !.duration = patch.duration]
      [] ask.do = "end"    -> [s EXCEPT !.duration = patch.duration]
      [] ask.do = "enable" -> [s EXCEPT !.enabled = patch.enabled]

FetchDueOnce(forced) == cache = Unread   \* mutant: the cache is never renewed
FetchDueAfterQuarter(forced) == cache = Unread \/ sinceRead > 1   \* mutant: not forced

(* get_charging_schedule_data asks the server.                             *)
FetchDue(forced) == cache = Unread \/ sinceRead > (IF forced THEN 0 ELSE 1)

-----------------------------------------------------------------------------
(* update_charging_schedule_data for the task u, once it has its copy s.   *)
Send(u, t, s) ==
    user' = [user EXCEPT ![u] = [t EXCEPT !.at = "writing", !.got = Unread,
                                          !.patch = Updated(t.ask, t.patch, s)]]

(* The task t has read s at first.  An update reads again: from the server *)
(* or, if one was asked within ten seconds, from the cache.                *)
FirstReadDone(u, t, s, due) ==
    IF t.ask.do = "poll" THEN user' = [user EXCEPT ![u] = Idle] /\ UNCHANGED sinceRead
    ELSE LET patched == [t EXCEPT !.patch = Changed(t.ask, s), !.got = Unread,
                                  !.blind = s # server]
         IN  \/ /\ due /\ sinceRead' = 0
                /\ user' = [user EXCEPT ![u] = [patched EXCEPT !.at = "rereading"]]
             \/ ~due /\ Send(u, patched, s) /\ UNCHANGED sinceRead

(* A task begins: the poll, or an entity's service call.  A switch changes *)
(* a field whatever it was, so only its update reads.                      *)
Call(u, ask) ==
    LET t == [Idle EXCEPT !.ask = ask]
    IN  /\ user[u].at = "idle"
        /\ \/ /\ ask.do # "enable" /\ FetchDue(FALSE)
              /\ user' = [user EXCEPT ![u] = [t EXCEPT !.at = "reading"]]
              /\ sinceRead' = 0
           \/ /\ ask.do # "enable" /\ ~FetchDue(FALSE)
              /\ FirstReadDone(u, t, cache, FetchDue(TRUE))
           \/ /\ ask.do = "enable"
              /\ FirstReadDone(u, t, IF cache = Unread THEN Default ELSE cache, FetchDue(TRUE))
        /\ disturbed' = (disturbed \/ Busy # {})
        /\ UNCHANGED <<server, cache, writes>>

(* External: the server reads its schedule for the task u.                 *)
Answers(u) ==
    /\ user[u].at \in {"reading", "rereading"} /\ user[u].got = Unread
    /\ user' = [user EXCEPT ![u].got = server]
    /\ UNCHANGED <<server, cache, sinceRead, writes, disturbed>>

(* The read of the task u returns; without an answer it failed, or there   *)
(* was no schedule in it.                                                  *)
ReadReturns(u) ==
    LET t == user[u]
        s == IF t.got # Unread THEN t.got
             ELSE IF cache # Unread THEN cache ELSE Default
    IN  /\ cache' = s
        /\ \/ t.at = "reading" /\ FirstReadDone(u, t, s, sinceRead > 0)
           \/ t.at = "rereading" /\ Send(u, t, s) /\ UNCHANGED sinceRead
        /\ disturbed' = (disturbed \/ t.got = Unread)
        /\ UNCHANGED <<server, writes>>

(* External: the server takes the schedule the task u sends.               *)
Takes(u) ==
    /\ user[u].at = "writing"
    /\ server' = user[u].patch
    /\ user' = [user EXCEPT ![u].at = "written"]
    /\ UNCHANGED <<cache, sinceRead, writes, disturbed>>

(* The write of the task u returns.  One that failed, taken or not, is     *)
(* logged, and shown as if it had been taken.                              *)
WriteReturns(u) ==
    /\ user[u].at \in {"writing", "written"}
    /\ cache' = user[u].patch
    /\ user' = [user EXCEPT ![u] = Idle]
    /\ disturbed' = (disturbed \/ user[u].at = "writing")
    /\ UNCHANGED <<server, sinceRead, writes>>

-----------------------------------------------------------------------------
(* Ten seconds and fifteen minutes pass.  A task lasts less than the rest  *)
(* of fifteen minutes: each of its requests ends within ten seconds.       *)
TimePasses ==
    /\ sinceRead < 2 /\ Busy = {}
    /\ sinceRead' = sinceRead + 1
    /\ disturbed' = FALSE
    /\ UNCHANGED <<server, cache, user, writes>>

(* External: the owner's phone writes a schedule.                          *)
PhoneWrites ==
    /\ writes < MaxWrites /\ writes' = writes + 1
    /\ server' \in Schedules \ {server}
    /\ disturbed' = (disturbed \/ Busy # {} \/ sinceRead = 0)
    /\ UNCHANGED <<cache, sinceRead, user>>

Poll(u) == Call(u, [do |-> "poll", to |-> 0])

ScheduleNext ==
    \/ \E u \in Users : \/ \E ask \in Requests : Call(u, ask)
                        \/ Answers(u) \/ ReadReturns(u) \/ Takes(u) \/ WriteReturns(u)
    \/ TimePasses \/ PhoneWrites

ScheduleSpec == ScheduleInit /\ [][ScheduleNext]_scheduleVars

(* Requests end and time passes; a read that is tried again and again      *)
(* succeeds in the end.  The poll is not promised: each frame the vehicle  *)
(* publishes puts it off for another fifteen minutes.                      *)
ScheduleFairness ==
    /\ WF_scheduleVars(TimePasses)
    /\ \A u \in Users : /\ WF_scheduleVars(ReadReturns(u)) /\ WF_scheduleVars(WriteReturns(u))
                        /\ SF_scheduleVars(Answers(u))

-----------------------------------------------------------------------------
(* An update changes what was asked for and nothing else, of the schedule  *)
(* as the server held it at that moment, unless in the same ten seconds    *)
(* tasks overlapped, a request failed or the phone wrote: within them the  *)
(* cache stands for the server.                                            *)
NoLostUpdate ==
    [][\A u \in Users :
         user[u].at = "writing" /\ user'[u].at = "written" /\ ~disturbed
           => /\ user[u].ask.do # "enable" =>
                   server'.enabled = server.enabled
              /\ user[u].ask.do # "start" => server'.start = server.start
              /\ user[u].ask.do = "enable" => server'.duration = server.duration]_scheduleVars

(* The time that was asked for is the time the server then holds, and a    *)
(* new start keeps the end the server held, unless the duration was        *)
(* computed from a cached schedule that the server no longer held.         *)
TimeAsAsked ==
    [][\A u \in Users :
         user[u].at = "writing" /\ user'[u].at = "written" /\ ~disturbed /\ ~user[u].blind
           => CASE user[u].ask.do = "end" -> EndOf(server') = user[u].ask.to
                [] user[u].ask.do = "start" -> /\ server'.start = user[u].ask.to
                                               /\ EndOf(server') = EndOf(server)
                [] OTHER -> TRUE]_scheduleVars

(* The coordinator refreshes again and again: the vehicle does not publish *)
(* frame after frame, which puts the poll off, or falls silent and the     *)
(* watchdog restarts its feed.                                             *)
RefreshesGoOn == \A u \in Users : WF_scheduleVars(Poll(u))

(* A write that failed, or a read that a write overtook, shows a schedule  *)
(* the server does not hold only until a later refresh: if refreshes go on *)
(* and nobody else asks any more, the cache agrees with the server again   *)
(* and again.                                                              *)
CacheHeals ==
    RefreshesGoOn /\ <>[](cache # Unread /\ \A u \in Users : user[u].ask.do = "poll")
        => []<>(cache = server)

(* An update of the schedule does what was asked for, to the minute, and   *)
(* nothing else; a window is never empty or negative.                      *)
UpdatesAsAsked ==
    /\ []ScheduleTypeOK
    /\ NoLostUpdate
    /\ TimeAsAsked
=============================================================================
