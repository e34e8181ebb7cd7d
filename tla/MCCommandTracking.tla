-------------------------- MODULE MCCommandTracking ---------------------------
(* The instance of CommandTracking, CabinClimate, PhonePairing and            *)
(* ControlAccess that TLC checks: one execution, whose wake is a second       *)
(* command with a subscription and records of its own; the climate entity,    *)
(* whose calls run several; the button that pairs the phone whose key signs   *)
(* them; or a control that is offered or not.  They share no state, so a      *)
(* behaviour is of one of them and the rest stay in one initial state.        *)
EXTENDS CommandTracking, CabinClimate, PhonePairing, ControlAccess

CONSTANTS c1, s1, s2
MCServices == {s1, s2}

VARIABLE part
mcVars == <<vars, climateVars, pairingVars, accessVars, part>>

MCInit ==
    /\ part \in {"tracking", "climate", "button", "access"}
    /\ Init /\ PairInit
    /\ ClimateInit /\ (part = "climate" \/ (vehicle.defrost /\ vehicle.running /\ Fresh))
    /\ AccessInit /\ (zoned => control = "lock")   \* zones bear on every control alike
                  /\ (part = "access" \/ (control = "lock" /\ ~zoned /\ drivers = "paired"))

(* Two presses that overlap find one address each.                            *)
MCNext ==
    /\ UNCHANGED part
    /\ \/ part = "tracking" /\ Next /\ UNCHANGED <<climateVars, pairingVars, accessVars>>
       \/ part = "climate" /\ ClimateNext /\ UNCHANGED <<vars, pairingVars, accessVars>>
       \/ /\ part = "button" /\ PairNext /\ UNCHANGED <<vars, climateVars, accessVars>>
          /\ crossed' => tried' = tried \/ \A b \in Buttons : tried'[b] <= 1
       \/ part = "access" /\ AccessNext /\ UNCHANGED <<vars, climateVars, pairingVars>>

(* Fairness, ClimateFairness, PairFairness and AccessFairness, each of its own.*)
MCFairness ==
    /\ \A c \in Calls : WF_vars(part = "tracking" /\ ExecutionStep(c))
    /\ \A i \in Ids :
          /\ WF_vars(part = "tracking" /\ DropRuns(i))
          /\ WF_vars(part = "tracking" /\ AutoUnsubscribe(i))
          /\ WF_vars(part = "tracking" /\ ShutdownDrops(i))
    /\ \A s \in MCServices :
          WF_climateVars(part = "climate" /\ (Obeys(s) \/ Ignores(s) \/ Proceeds(s)))
    /\ \A b \in Buttons : WF_pairingVars(part = "button" /\ PressStep(b))
    /\ WF_accessVars(part = "access" /\ AddedToHass)
    /\ WF_accessVars(part = "access" /\ DriversPolled)
    /\ WF_accessVars(part = "access" /\ FrameArrives)

MCSpec == MCInit /\ [][MCNext]_mcVars /\ MCFairness
=============================================================================
