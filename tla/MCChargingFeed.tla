--------------------------- MODULE MCChargingFeed ----------------------------
(* The instance of ChargingFeed and of ChargingSchedule that TLC checks.  The *)
(* two share no state, so a behaviour is one of the feed or of the schedule.  *)
EXTENDS ChargingFeed, ChargingSchedule

CONSTANTS u1, u2
MCHelpers == {u1, u2}
MCUsers == {u1, u2}

VARIABLE part
mcVars == <<vars, scheduleVars, part>>

MCInit ==
    /\ Init /\ ScheduleInit
    /\ part \in {"feed", "schedule"} /\ (part = "schedule" => ~enabled)
(* u2 is the poll; two updates that overlap are told of by disturbed only.  *)
MCNext ==
    /\ UNCHANGED part
    /\ \/ part = "feed" /\ Next /\ UNCHANGED scheduleVars
       \/ /\ part = "schedule" /\ ScheduleNext /\ UNCHANGED vars
          /\ user'[u2].ask.do = "poll"
MCSpec ==
    /\ MCInit /\ [][MCNext]_mcVars
    /\ part = "feed" => Fairness
    /\ part = "schedule" => ScheduleFairness

(* A subscription that was dropped comes back, in the behaviours of the feed, *)
(* and a cache that is wrong becomes right as refreshes go on, in those of    *)
(* the schedule (_watchdog_loop, get_charging_schedule_data).                 *)
FeedAndCacheHeal == DroppedFeedReturns /\ CacheHeals
=============================================================================
