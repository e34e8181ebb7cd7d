---------------------------- MODULE ChargingData ----------------------------
(***************************************************************************)
(* The charging record of one vehicle (ChargingCoordinator.data) and its   *)
(* two writers: the charging-session subscription, each frame of which is  *)
(* a snapshot, and the Parallax messages about charging, which accumulate. *)
(* A record is a function from the keys it holds.  A value is the number   *)
(* of the session it was measured in; power is 0 when nothing flows; the   *)
(* start time is that of a session, or Invented.                           *)
(*                                                                         *)
(* The two streams are independent: each reports the phases of the car in  *)
(* order (odd: session (p+1)/2 is charging, even: none is), neither waits  *)
(* for the other, and a phase may pass without a frame.                    *)
(***************************************************************************)
EXTENDS Naturals

CONSTANTS LastPhase,   \* bound: the phases the streams report
          Invented     \* a start time update_from_parallax made up

ASSUME ChargingAssumption == LastPhase \in Nat /\ Invented \notin Nat

VARIABLES
    subscription,  \* _source_data["subscription"]
    parallax,      \* _source_data["parallax"]
    synthetic,     \* _synthetic_start_time
    shown,         \* data, as published to the entities
    at,            \* external: the phase each stream has reached
    orphaned,      \* history: a session was reported over while the start
                   \* time in parallax was invented
    adopted        \* history: parallax gathered values before its real start
                   \* time, under an invented one

dataVars == <<subscription, parallax, synthetic, shown, orphaned, adopted>>
chargingVars == <<dataVars, at>>

Keys == {"startTime", "power", "energy", "eta"}
Session(p) == (p + 1) \div 2
IsCharging(p) == p % 2 = 1
Values == {Session(p) : p \in 0 .. LastPhase} \cup {Invented}
Records == UNION {[K -> Values] : K \in SUBSET Keys}
Empty == [k \in {} |-> 0]

Has(r, k) == k \in DOMAIN r
Joined(r, s) == [k \in DOMAIN r \cup DOMAIN s |->
                    IF k \in DOMAIN s THEN s[k] ELSE r[k]]

ChargingTypeOK ==
    /\ subscription \in Records /\ parallax \in Records /\ shown \in Records
    /\ synthetic \in BOOLEAN /\ orphaned \in BOOLEAN /\ adopted \in BOOLEAN
    /\ at \in [{"subscription", "parallax"} -> 0 .. LastPhase]

ChargingInit ==
    /\ subscription = Empty /\ parallax = Empty /\ shown = Empty
    /\ synthetic = FALSE /\ orphaned = FALSE /\ adopted = FALSE
    /\ at = [s \in {"subscription", "parallax"} |-> 0]

(* What a stream may say in phase p.                                       *)
SnapshotsAt(p) ==
    IF IsCharging(p)
    THEN {[k \in K |-> Session(p)] : K \in SUBSET {"startTime", "energy"}}
    ELSE {Empty}

(* charging_graph_global, charge_session_breakdown, time_estimation.  The  *)
(* graph goes on naming the start of a session that is over.               *)
Messages(p) ==
    LET power == [k \in {"power"} |-> IF IsCharging(p) THEN Session(p) ELSE 0]
        about(k) == [j \in {k} |-> Session(p)]
    IN  {power}
        \cup IF Session(p) = 0 THEN {}
             ELSE {Joined(power, about("startTime")),
                   Joined(power, about("energy")), about("eta")}

-----------------------------------------------------------------------------
ResolvedAlways(sub, par, syn) == Joined(sub, par)   \* mutant: no exception

(* The view of the entities.                                               *)
Resolved(sub, par, syn) ==
    LET both == Joined(sub, par)
    IN  IF syn /\ Has(sub, "startTime")
        THEN [both EXCEPT !["startTime"] = sub["startTime"]]
        ELSE both

(* _publish_resolved: the two sources and the flag as they now are.        *)
Publish(sub, par, syn) ==
    /\ subscription' = sub /\ parallax' = par /\ synthetic' = syn
    /\ shown' = Resolved(sub, par, syn)

IsNewSessionLate(clean) == FALSE   \* mutant: a new start time clears nothing

IsNewSession(clean) ==
    /\ Has(parallax, "startTime") /\ parallax["startTime"] # clean["startTime"]
    /\ ~synthetic

(* update_from_parallax with the decoded message clean.                    *)
UpdateFromParallax(clean) ==
    /\ \/ /\ Has(clean, "startTime")
          /\ Publish(subscription,
                     Joined(IF IsNewSession(clean) THEN Empty ELSE parallax, clean),
                     FALSE)
          /\ adopted' = (IF IsNewSession(clean) THEN FALSE
                         ELSE adopted \/ (synthetic /\ Has(parallax, "energy"))
                                      \/ (~Has(parallax, "startTime")
                                          /\ Has(parallax, "energy")))
       \/ /\ ~Has(clean, "startTime")
          /\ ~Has(parallax, "startTime")
          /\ Has(clean, "power") /\ clean["power"] # 0
          /\ Publish(subscription,
                     Joined(Joined(parallax, clean),
                            [k \in {"startTime"} |-> Invented]), TRUE)
          /\ UNCHANGED adopted
       \/ /\ ~Has(clean, "startTime")
          /\ \/ Has(parallax, "startTime")
             \/ ~Has(clean, "power")
             \/ Has(clean, "power") /\ clean["power"] = 0
          /\ Publish(subscription, Joined(parallax, clean), synthetic)
          /\ UNCHANGED adopted
    /\ orphaned' = (orphaned /\ Has(parallax', "startTime")
                             /\ parallax'["startTime"] = Invented)

(* _process_new_data, an empty list: no session.                           *)
NoSession ==
    /\ Publish(Empty, parallax, FALSE)
    /\ orphaned' = (orphaned \/ (Has(parallax, "startTime")
                                 /\ parallax["startTime"] = Invented))
    /\ UNCHANGED adopted

(* _process_new_data, a session: its charts and live data, flattened.      *)
Snapshot(session) ==
    /\ Publish(session, parallax, synthetic)
    /\ UNCHANGED <<orphaned, adopted>>

-----------------------------------------------------------------------------
(* External: a stream gets to a later phase of the car.                    *)
Advance(s) ==
    /\ \E p \in at[s] + 1 .. LastPhase : at' = [at EXCEPT ![s] = p]
    /\ UNCHANGED dataVars

SubscriptionFrame ==
    /\ \/ \E f \in SnapshotsAt(at["subscription"]) : Snapshot(f)
       \/ ~IsCharging(at["subscription"]) /\ NoSession
    /\ UNCHANGED at

ChargingMessage(clean) ==
    /\ clean \in Messages(at["parallax"])
    /\ UpdateFromParallax(clean)
    /\ UNCHANGED at

ChargingNext ==
    \/ \E s \in DOMAIN at : Advance(s)
    \/ SubscriptionFrame
    \/ \E clean \in Messages(at["parallax"]) : ChargingMessage(clean)

ChargingSpec == ChargingInit /\ [][ChargingNext]_chargingVars

-----------------------------------------------------------------------------
(* An invented start time is shown in place of one the car reported only   *)
(* when the list of sessions was empty while it was there: that frame      *)
(* forgets that the start time is invented, but keeps it.                  *)
RealStartWins ==
    shown # Empty /\ Has(subscription, "startTime") /\ ~orphaned
        => shown["startTime"] # Invented

(* No value of an earlier session is shown under the start time of a later *)
(* one that Parallax reported, unless it was gathered before any real      *)
(* start time: a new start time clears what came before it.                *)
NoOlderMetric ==
    Has(parallax, "startTime") /\ parallax["startTime"] # Invented
        /\ Has(parallax, "energy") /\ ~adopted
        => parallax["energy"] >= parallax["startTime"]

(* The charging record speaks of one session, and from its real start if   *)
(* one was reported.                                                       *)
SessionShown ==
    /\ RealStartWins
    /\ NoOlderMetric
=============================================================================
