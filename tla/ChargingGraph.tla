---------------------------- MODULE ChargingGraph ----------------------------
(***************************************************************************)
(* What the integration makes of a charging graph (energy_edge_compute.py, *)
(* decode_charging_graph_global).  The vehicle sends the segments of the   *)
(* session again and again, as the session grows; times are small numbers  *)
(* and may be missing, or an end may be before its start (a clock that was *)
(* set back).                                                              *)
(***************************************************************************)
EXTENDS Integers, SequencesExt, FiniteSetsExt, Lists

CONSTANTS MaxSegments, MaxTime,
          Unsent      \* a field that a segment does not carry

ASSUME GraphAssumption == MaxSegments \in Nat \ {0} /\ MaxTime \in Nat /\ Unsent \notin Int

VARIABLES segments   \* of the message

graphVars == <<segments>>

Times == (0 .. MaxTime) \cup {Unsent}

(* 3 is charging, 8 is stopped; 1 stands for the other states and for none,*)
(* and no power for a power of zero.                                       *)
Segment == [power : {7, Unsent}, start : Times, end : Times, state : {1, 3, 8}]

Powered(s) == s.power # Unsent /\ s.power > 0

ChargingOnly(s) == s.state = 3   \* mutant: power alone does not count

(* active_segments, of one.                                                *)
Active(s) == Powered(s) \/ s.state = 3

(* active_segments: their positions in the message.                        *)
ActiveAt(g) == {i \in 1 .. Len(g) : Active(g[i])}

LatestActive(g) ==   \* mutant: the session starts with its last segment
    IF ActiveAt(g) # {} THEN g[Max(ActiveAt(g))] ELSE Head(g)

(* first_seg: before any charging it is the first segment of all.          *)
FirstShown(g) == IF ActiveAt(g) # {} THEN g[Min(ActiveAt(g))] ELSE Head(g)

StartTime(g) == FirstShown(g).start

Unclamped(s) == IF Unsent \in {s.start, s.end} THEN 0 ELSE s.end - s.start   \* mutant: no max

Duration(s) ==
    IF Unsent \in {s.start, s.end} \/ s.end < s.start THEN 0 ELSE s.end - s.start

SinceLastPause(g) ==   \* mutant: an interruption starts the count again
    LET lasting == {i \in ActiveAt(g) : \A j \in i .. Len(g) : j \in ActiveAt(g)}
    IN  Total([i \in 1 .. Len(g) |-> IF i \in lasting THEN Duration(g[i]) ELSE 0])

TimeElapsed(g) ==
    Total([i \in 1 .. Len(g) |-> IF i \in ActiveAt(g) THEN Duration(g[i]) ELSE 0])

Power(g) == IF Powered(Last(g)) /\ Last(g).state # 8 THEN Last(g).power ELSE 0

GraphInit == segments \in {<<s>> : s \in Segment}

(* Outside: the session goes on with a segment, or the last one ends later.*)
Appends ==
    /\ Len(segments) < MaxSegments
    /\ \E s \in Segment : segments' = Append(segments, s)

LastGrows ==
    LET end == Last(segments).end IN
    \E t \in (IF end = Unsent THEN 0 ELSE end + 1) .. MaxTime :
        segments' = [segments EXCEPT ![Len(segments)].end = t]

GraphNext == Appends \/ LastGrows

GraphSpec == GraphInit /\ [][GraphNext]_graphVars

-----------------------------------------------------------------------------

(* A duration is never negative, whatever the vehicle's clock did.         *)
GraphTypeOK ==
    /\ segments \in Seq(Segment) /\ Len(segments) \in 1 .. MaxSegments
    /\ TimeElapsed(segments) \in Nat

(* The session's start, once charging began, is the same in every later    *)
(* message of the session.                                                 *)
StartStands ==
    [][ActiveAt(segments) # {} => StartTime(segments') = StartTime(segments)]_graphVars

(* The time charged never falls as the session grows: pauses are left out  *)
(* of it and do not start it again.                                        *)
ElapsedGrows == [][TimeElapsed(segments') >= TimeElapsed(segments)]_graphVars

(* Power that is shown is power of a segment whose time is counted.        *)
PowerIsCharged ==
    Power(segments) > 0 => Len(segments) \in ActiveAt(segments)

(* The time that is counted is not negative, and power that shows is of    *)
(* such a time.                                                            *)
ChargeCounts ==
    /\ GraphTypeOK
    /\ PowerIsCharged

(* While a session grows its start stands and its charged time never falls.*)
SessionGrows ==
    /\ StartStands
    /\ ElapsedGrows
=============================================================================
