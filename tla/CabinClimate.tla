---------------------------- MODULE CabinClimate -----------------------------
(***************************************************************************)
(* The climate entity (climate.py).  A service call reads the record, then *)
(* sends one to three commands and waits for each (_execute_command, see   *)
(* CommandTracking): it may succeed, fail, or time out, and the call goes  *)
(* on in every case.  Telemetry copies the vehicle's state to the record   *)
(* at its own pace, one key at a time.  Home Assistant runs the calls of   *)
(* one entity concurrently.  Target temperatures are two: Asked, which the *)
(* calls ask for, and Before.                                              *)
(***************************************************************************)
EXTENDS FiniteSets

CONSTANTS Services,   \* concurrent service calls
          Asked,      \* the temperature the calls ask for
          Before,     \* the vehicle's first
          Missing     \* what the record holds of a key it does not know

VARIABLES
    vehicle,    \* the vehicle: [defrost, running, target]
    record,     \* the same keys of the record, each perhaps older or Missing
    at,         \* where each call is, and the command it awaits
    alone,      \* history: no two calls have overlapped
    smooth,     \* history: every command worked, and every read of the record
                \* saw what the vehicle was doing, since the last call began
    settled     \* history: a call for a temperature was the last to end

climateVars == <<vehicle, record, at, alone, smooth, settled>>

ClimateKeys == {"defrost", "running", "target"}

(* CABIN_HVAC_DEFROST_DEFOG at level 1 and 0, VEHICLE_CABIN_PRECONDITION_  *)
(* ENABLE and _DISABLE, CABIN_PRECONDITIONING_SET_TEMP.                    *)
Commands == {"defrostOn", "defrostOff", "enable", "disable", "setTemp"}

ASSUME ClimateAssumption ==
    Asked # Before /\ IsFiniteSet(Services) /\ Missing \notin Commands

ClimateTypeOK ==
    /\ vehicle \in [defrost : BOOLEAN, running : BOOLEAN, target : {Asked, Before}]
    /\ record \in [ClimateKeys -> BOOLEAN \cup {Asked, Before, Missing}]
    /\ at \in [Services -> {"idle", "mode", "defrost", "enabling", "setting"} \X
                           (Commands \cup {Missing})]
    /\ \A s \in Services : at[s][1] = "setting" => at[s][2] \in {"setTemp", Missing}
    /\ {alone, smooth, settled} \subseteq BOOLEAN

(* preset_mode and hvac_mode: a key that is not known counts as on.        *)
Defrosting == record["defrost"] # FALSE
HvacOff    == ~Defrosting /\ record["running"] = FALSE

Idle == <<"idle", Missing>>

ClimateInit ==
    /\ vehicle \in [defrost : BOOLEAN, running : BOOLEAN, target : {Before}]
    /\ record \in {[k \in ClimateKeys |-> Missing], [k \in ClimateKeys |-> vehicle[k]]}
    /\ at = [s \in Services |-> Idle]
    /\ alone = TRUE /\ smooth = TRUE /\ settled = FALSE

(* The record says of defrost and of heating what the vehicle does.        *)
Fresh == \A k \in {"defrost", "running"} : record[k] = vehicle[k]

Sends(s, stage, c) == at' = [at EXCEPT ![s] = <<stage, c>>]

EnablesRegardless(s) == Sends(s, "setting", "setTemp")   \* mutant: no second read

EnablesOnceDefrosted(s) ==   \* mutant: defrost is sent off until the record says so
    IF Defrosting THEN Sends(s, "defrost", "defrostOff") ELSE Sends(s, "setting", "setTemp")

EnablesLast(s) ==   \* mutant: enabling is the last command
    IF HvacOff THEN Sends(s, "setting", "enable") ELSE Sends(s, "setting", "setTemp")

(* The rest of async_set_temperature once defrost is off: the record is    *)
(* read again.                                                             *)
Enables(s) ==
    IF HvacOff THEN Sends(s, "enabling", "enable") ELSE Sends(s, "setting", "setTemp")

CallBegins(s) ==
    /\ at[s] = Idle
    /\ alone' = (alone /\ \A t \in Services : at[t] = Idle)
    /\ smooth' = Fresh /\ settled' = FALSE
    /\ UNCHANGED <<vehicle, record>>

(* async_set_temperature, and async_set_preset_mode of "LO" and "HI".      *)
SetTemperature(s) ==
    /\ CallBegins(s)
    /\ IF Defrosting THEN Sends(s, "defrost", "defrostOff") ELSE Enables(s)

(* async_set_hvac_mode, and async_set_preset_mode of DEFROST_DEFOG.        *)
SetMode(s) ==
    /\ CallBegins(s)
    /\ \E c \in {"defrostOn", "enable", "disable"} : Sends(s, "mode", c)

(* What a command makes the vehicle do.                                    *)
After(v, c) ==
    CASE c = "defrostOn"  -> [v EXCEPT !.defrost = TRUE]
      [] c = "defrostOff" -> [v EXCEPT !.defrost = FALSE]
      [] c = "enable"     -> [v EXCEPT !.running = TRUE]
      [] c = "disable"    -> [v EXCEPT !.running = FALSE]
      [] c = "setTemp"    -> [v EXCEPT !.target = Asked]

(* The vehicle obeys the command the call awaits.                          *)
Obeys(s) ==
    /\ at[s][2] # Missing
    /\ vehicle' = After(vehicle, at[s][2])
    /\ at' = [at EXCEPT ![s][2] = Missing]
    /\ UNCHANGED <<record, alone, smooth, settled>>

(* It does not: the command is refused, fails or is lost.                  *)
Ignores(s) ==
    /\ at[s][2] # Missing
    /\ at' = [at EXCEPT ![s][2] = Missing] /\ smooth' = FALSE
    /\ UNCHANGED <<vehicle, record, alone, settled>>

(* _execute_command returns, and the call goes on.                         *)
Proceeds(s) ==
    /\ at[s][1] # "idle" /\ at[s][2] = Missing
    /\ smooth' = (smooth /\ (at[s][1] = "defrost" => Fresh))
    /\ settled' = (at[s][1] = "setting")
    /\ CASE at[s][1] = "defrost"  -> Enables(s)
         [] at[s][1] = "enabling" -> Sends(s, "setting", "setTemp")
         [] OTHER                 -> at' = [at EXCEPT ![s] = Idle]
    /\ UNCHANGED <<vehicle, record, alone>>

(* A frame brings one key, as the vehicle has it.                          *)
Telemetry(k) ==
    /\ record' = [record EXCEPT ![k] = vehicle[k]]
    /\ UNCHANGED <<vehicle, at, alone, smooth, settled>>

ClimateNext ==
    \/ \E s \in Services : SetTemperature(s) \/ SetMode(s) \/ Obeys(s) \/ Ignores(s) \/ Proceeds(s)
    \/ \E k \in ClimateKeys : Telemetry(k)

ClimateSpec == ClimateInit /\ [][ClimateNext]_climateVars

ClimateFairness == \A s \in Services : WF_climateVars(Obeys(s) \/ Ignores(s) \/ Proceeds(s))

-----------------------------------------------------------------------------
(* When a call for a temperature has ended that overlapped none, whose     *)
(* commands worked, and that saw the vehicle's state whenever it looked,   *)
(* the vehicle heats to that temperature and does not defrost: the order   *)
(* of the commands and of the reads between them is right                  *)
(* (climate.async_set_temperature).                                        *)
HeatsToAsked ==
    alone /\ smooth /\ settled =>
        ~vehicle.defrost /\ vehicle.running /\ vehicle.target = Asked

(* A call ends, whatever becomes of its commands (entity._execute_command  *)
(* waits for a bounded time).                                              *)
CallsEnd == \A s \in Services : at[s] # Idle ~> at[s] = Idle

(* A call of the climate entity that has ended leaves the cabin as asked.  *)
ClimateServes ==
    /\ ClimateTypeOK
    /\ HeatsToAsked
=============================================================================
