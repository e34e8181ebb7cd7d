---------------------------- MODULE ParallaxTopics ---------------------------
(***************************************************************************)
(* The Parallax decoders: each topic is a protobuf message in base64, and  *)
(* its decoder makes record keys from the message's fields.  A key is      *)
(* described by a rule, the few ways there are to read a field; a          *)
(* behaviour is the life of one key of one topic: messages arrive or are   *)
(* lost, and the key shows a value.                                        *)
(*                                                                         *)
(* An enumeration value is its number, and Unlisted stands for a number    *)
(* no table holds, for a name that is not UTF-8 and for a percentage out   *)
(* of range.  The elements of a list are one key: the ids that the tables  *)
(* name behave alike.  Rounding and units are left out.                    *)
(***************************************************************************)
EXTENDS Naturals, FiniteSets

CONSTANTS Unlisted,     \* a number above those of the tables
          Nothing,      \* a field that is not set, a key that is not decoded
          Other         \* a word for the values a table does not hold

ASSUME TopicsAssumption ==
    /\ Unlisted \in Nat /\ Unlisted > 15
    /\ Nothing \notin Nat /\ Other \notin Nat /\ Nothing # Other

VARIABLES
    topic, key,   \* the topic and the key of this behaviour
    shown,        \* the value of the key in the record
    last,         \* history: what the message that came last says of it
    lastStated    \* history: what the last to say anything of it said

topicVars == <<topic, key, shown, last, lastStated>>

Values == 0..15 \cup {Unlisted}

-----------------------------------------------------------------------------
(* The ways to read a field.  An explicit field is read when HasField says *)
(* so; any other is 0 when it is absent.  The values in known are shown,   *)
(* the rest become other, which may be Nothing.                            *)

Rule(f, explicit, known, other) ==
    [from |-> f, explicit |-> explicit, known |-> known, other |-> other, given |-> {}]

(* _fields, without and with a mapping, and its like.                      *)
Whole(f)            == Rule(f, TRUE, Values, Nothing)
Mapped(f, known)    == Rule(f, TRUE, known, Nothing)
OrElse(f, known, o) == Rule(f, TRUE, known, o)

(* A field that is read without HasField.                                  *)
PlainWhole(f)            == Rule(f, FALSE, Values, Nothing)
PlainMapped(f, known)    == Rule(f, FALSE, known, Nothing)
PlainOrElse(f, known, o) == Rule(f, FALSE, known, o)

(* The rule r, in a message that passes others as well.                    *)
Given(r, others) == [r EXCEPT !.given = others]

(* Tables: several as one, a key or some with the same rule, and a topic   *)
(* with its keys.                                                          *)
Together(tables) ==
    [x \in UNION {DOMAIN f : f \in tables} |-> (CHOOSE f \in tables : x \in DOMAIN f)[x]]

Key(k, r)      == [x \in {k} |-> r]
Same(names, r) == [x \in names |-> r]
On(t, keys)    == [x \in {t} |-> Together(keys)]

BodyTopics == {
    On("body.closures.states",
        {Key("closure", Given(OrElse("state", {2}, Other), {PlainMapped("id", {1, 2})}))}),
    On("body.locks.states",
        {Key("lock", Given(OrElse("state", {1}, Other), {PlainMapped("id", {1, 2})}))}),
    On("body.windows.states",
        {Key("windowCalibrated", Given(PlainMapped("calibration_status", {1, 2}),
                                       {PlainMapped("instance", 1..4)}))}),
    On("body.trailer.state", {Key("trailerStatus", Mapped("presence", 1..4))})}

Enabled == PlainMapped("enabled", {1})

ChargingTopics == {
    On("charging.session.status",
        {Same({"plugConnectionStatus", "displayStatus", "evseType"}, Whole("state"))}),
    On("charging.session.time_estimation",
        {Key("timeToEndOfCharge", Given(PlainWhole("estimated_time_remaining"),
                                        {PlainMapped("validity", Values \ {2, 3})}))}),
    On("charging.session.soc_slider", {Key("batteryLimit", Whole("soc_limit"))}),
    On("charging.session.remote_command",
        {Key("remoteChargingAvailable", PlainMapped("start_available", {1, 2}))}),
    On("charging.session.notification",
        {Key("chargerDerateStatus", PlainMapped("derate_status", {0, 3, 4, 5, 6, 8, 9})),
         Key("chargingFaultChime", PlainMapped("fault_chime", 0..10))}),
    On("charging.session.trip_target",
        {Key("tripTargetSoc", PlainMapped("soc", 1..15)),
         Key("tripTargetMinutesRemaining", Given(Whole("time_estimate"),
                                                 {PlainMapped("soc", 1..15)}))}),
    On("charging.schedule.time_window",
        {Key("chargeScheduleValid", PlainWhole("enabled")),
         Key("chargeScheduleStartMinute", Given(Whole("start_time"), {Enabled})),
         Key("chargeScheduleWindow", Given(Whole("start_time"),
                                           {Enabled, Whole("end_time")}))})}

ComfortTopics == {
    On("comfort.cabin.cabin_temperatures",
        {Same({"cabinClimateInteriorTemperature", "cabinClimateDriverTemperature"}, Whole("t"))}),
    On("comfort.cabin.defrost_defog_status",
        {Key("defrostDefogStatus", PlainMapped("status", 1..4))}),
    On("comfort.cabin.cabin_preconditioning_status",
        {Key("cabinPreconditioningStatus", PlainMapped("status", 0..9))}),
    On("comfort.cabin.climate_hold_status",
        {Key("climateHoldStatus", OrElse("status", 0..4, 0)),
         Key("climateHoldAvailability", OrElse("availability", 0..3, 0)),
         Key("climateHoldUnavailabilityReason", PlainMapped("unavailability_reason", {1, 2})),
         Key("climateHoldEndTime", Whole("end_time"))}),
    On("comfort.cabin.climate_hold_setting",
        {Key("climateHoldDurationSeconds", PlainWhole("hold_time_duration_seconds"))}),
    On("comfort.cabin.seat_conditioning_status",
        {Key("seat", Given(PlainMapped("state", 0..3), {PlainMapped("id", 1..7),
                                                        PlainMapped("type", {1, 2})}))}),
    On("comfort.cabin.pet_mode_status",
        {Same({"petModeStatus", "petModeTemperatureStatus"}, Mapped("status", 0..3))}),
    On("comfort.cabin.cabin_ventilation_setting",
        {Same({"cabinVentilationEnabled", "cabinVentilationMode",
               "cabinVentilationWindowsOpenPercent"}, Whole("setting"))}),
    On("comfort.cabin.hvac_settings_status",
        {Key("hvacSetTemperature", Whole("target_temperature"))}),
    On("comfort.user_modes.state",
        {Same({"serviceMode", "carWashMode"}, PlainOrElse("mode", {1}, 0))})}

DynamicsTopics == {
    On("dynamics.vehicle.gnss",
        {Key("gnssLocation", Given(Whole("latitude"), {Whole("longitude")})),
         Key("gnssAltitude", Whole("altitude"))}),
    On("dynamics.vehicle.odometer", {Key("vehicleMileage", Whole("distance"))}),
    On("dynamics.tires.state",
        {Key("tirePressure", Given(Whole("pressure"), {PlainMapped("pos", 1..4)})),
         Key("tirePressureStatus", Given(OrElse("status", {1}, Other),
                                         {PlainMapped("pos", 1..4)}))}),
    On("dynamics.vehicle.gear", {Key("gearStatus", Mapped("gear", 0..4))}),
    On("dynamics.vehicle.drive_mode",
        {Key("driveMode", Mapped("mode", 1..15)),
         Key("limitedAccelCold", Whole("limited_accel_cold"))}),
    On("dynamics.vehicle.range",
        {Key("distanceToEmpty", Whole("distance_to_empty")),
         Key("rangeThreshold", Mapped("threshold", 1..4)),
         Key("coldRangeNotification", Mapped("temperature_impact", 1..3))}),
    On("dynamics.vehicle.location", {Key("knownLocation", Mapped("location", 1..3))})}

EnergyTopics == {
    On("energy.high_voltage.battery_state",
        {Same({"soc", "packEnergyKwh"}, Whole("charge_state"))}),
    On("energy.high_voltage.battery_characteristics",
        {Key("batteryCellType", Mapped("cell_type", 1..4))}),
    On("energy.low_voltage.battery_state",
        {Key("twelveVoltBatteryHealth", Mapped("health", {1, 2}))})}

EdgeComputeTopics == {
    On("energy_edge_compute.graphs.charge_session_breakdown",
        {Same({"power", "rangeAddedThisSession", "kilometersChargedPerHour"}, PlainWhole("n")),
         Key("totalChargedEnergy", Whole("total_energy"))}),
    On("energy_edge_compute.graphs.parked_energy_distributions",
        {Key("parkedEnergyLast24Hours", Whole("last_24_hours"))}),
    On("energy_edge_compute.graphs.cold_weather_soc",
        {Same({"coldWeatherSocGreen", "coldWeatherSocBlue", "coldRangeImpact"},
               PlainWhole("n"))})}

GearGuardTopics == {
    On("gearguard_streaming.privacy.gearguard_streaming_in_vehicle_consent",
        {Key("gearGuardStreamingConsent", OrElse("consent", 0..3, Other))}),
    On("gearguard_streaming.privacy.gearguard_streaming_daily_limit",
        {Key("gearGuardStreamingDailyLimit", OrElse("limit", 0..2, Other)),
         Key("gearGuardStreamingLimitResetTime", Whole("limit_reset_time"))})}

GeofenceTopics == {
    On("geofence.geofence_service.favoriteGeofences",
        {Key("favoriteGeofences", PlainWhole("geofence"))})}

HolidayTopics == {
    On("holiday_celebration.car_costume.state",
        {Key("carCostumeAvailability", PlainMapped("car_costume_availability", 1..3)),
         Key("costumeTheme", PlainMapped("costume_theme", 1..3)),
         Key("costumeMotionTriggered", Whole("motion_trigger_detected")),
         Key("activeCostumeEffect", PlainMapped("active_costume_effect", 1..6))}),
    On("holiday_celebration.car_costume.settings",
        {Key("costumeCelebrationVolume", Whole("celebration_sound_volume")),
         Key("costumeLightsColor", PlainMapped("lights_color", 1..5)),
         Key("costumeEffect", PlainMapped("costume_effect", 1..6)),
         Key("costumeEffectTrigger", PlainMapped("effect_trigger", {1, 2}))})}

NavigationTopics == {
    On("navigation.navigation_service.trip_progress",
        {Same({"navLegEta", "navTripEta", "navLegRemainingDistance",
               "navLegRemainingDuration"}, Whole("progress"))})}

Firmware    == PlainMapped("software_category", {1})
HasProgress == Whole("progress")

OtaTopics == {
    On("ota.deployment.state",
        {Same({"otaCurrentVersion", "otaAvailableVersion"}, Given(Whole("version"), {Firmware})),
         Key("otaInstallReady", Given(PlainOrElse("install_ready", {1}, 0),
                                      {Firmware, HasProgress})),
         Key("otaStatus", Given(PlainMapped("phase", 1..14), {Firmware, HasProgress})),
         Key("otaCurrentStatus", Given(PlainMapped("current_status", 1..3),
                                       {Firmware, HasProgress})),
         Key("otaDownloadProgress", Given(Whole("percent"), {Firmware, HasProgress}))}),
    On("ota.ota_state.vehicle_ota_state", {Key("otaOneTimeInstallTime", Whole("seconds"))}),
    On("ota.user_schedule.ota_config", {Key("otaInstallSchedules", PlainWhole("schedule"))})}

(* The metadata is one field here: the file type, when that is listed or   *)
(* there is a size or a time beside it, and otherwise not set.             *)
SecureFileTopics == {
    On("secure_file_transfer.pet_snapshot.secure_file",
        {Key("petSnapshot", OrElse("metadata", 1..3, Other))})}

SecurityTopics == {
    On("security.alarm.state",
        {Key("alarmSoundStatus", Mapped("sound_alarm", 1..3)),
         Key("consecutiveAlarmDisabledNotification", Whole("notification"))}),
    On("security.video_monitoring.state",
        {Key("gearGuardVideoStatus", Mapped("status", 1..3)),
         Key("gearGuardVideoMode", Mapped("mode", 0..2)),
         Key("gearGuardVideoTermsAccepted", Mapped("terms_accepted", {1, 2}))}),
    On("security.access.btm", {Key("btmHardwareFailureStatus", Mapped("failure", {0, 1}))}),
    On("security.access.vas_fault",
        {Key("vasSecureElementFaulted", Mapped("secure_element", 1..6)),
         Key("vasAccessCanFaulted", Mapped("access_can", {1, 2}))}),
    On("security.access.passive_entry_debug",
        {Key("passiveEntryUnlockFailReason", Mapped("reason", 1..13))}),
    On("security.access.immobilizer_state",
        {Key("secureImmobilizerStatus", Mapped("status", 0..2))})}

PasscodeTopics == {
    On("user_passcodes.passcode_types.drive_auth",
        {Key("driveAuthSetting", Mapped("state", {1, 2}))})}

(* A name that is not UTF-8 is skipped.                                    *)
Text(f) == Mapped(f, Values \ {Unlisted})

VehicleTopics == {
    On("vehicle.power.state", {Key("powerState", OrElse("state", 1..7, 2))}),
    On("vehicle.wheels.vehicle_wheels",
        {Same({"wheels", "wheelsInstalled"}, Whole("wheel"))}),
    On("vehicle.network.state",
        {Key("wifiWpaStatus", Mapped("wpa_status", 1..5)), Key("wifiSsid", Text("ssid")),
         Key("wifiAntennaBars", Mapped("antenna_bars", 1..5)), Key("wifiSignal", Whole("signal")),
         Key("wifiSecureStatus", Mapped("secure_status", 1..5)),
         Key("cellularCarrier", Text("carrier"))})}

AccessNames ==
    {"vehicle_access.state.passive_entry", "vehicle_access.passive_entry.passive_entry"}

AccessTopics == {
    On(t, {Key("passiveEntryBluetoothInCcc", PlainWhole("allow_bluetooth_while_in_ccc")),
           Key("cccPassivePermissionStatus", PlainOrElse("ccc_passive_permission", 0..2, 0))}) :
        t \in AccessNames}

(* RVM_DECODERS.                                                           *)
Decoders == Together(
    BodyTopics \cup ChargingTopics \cup ComfortTopics \cup DynamicsTopics \cup EnergyTopics
    \cup EdgeComputeTopics \cup GearGuardTopics \cup GeofenceTopics \cup HolidayTopics
    \cup NavigationTopics \cup OtaTopics \cup SecureFileTopics \cup SecurityTopics
    \cup PasscodeTopics \cup VehicleTopics \cup AccessTopics)

EmptyPayloadForgets == {}   \* mutant: an empty payload is never decoded

(* The decoders registered with empty_payload.                             *)
EmptyPayload ==
    {"charging.session.notification", "comfort.cabin.cabin_preconditioning_status",
     "comfort.cabin.climate_hold_setting", "comfort.user_modes.state",
     "energy_edge_compute.graphs.cold_weather_soc",
     "geofence.geofence_service.favoriteGeofences", "ota.user_schedule.ota_config"}
    \cup AccessNames

-----------------------------------------------------------------------------
(* Reading and decoding a message, m, of the fields the key is made from.  *)
(* rest says whether the vehicle put other fields in the message as well.  *)

rule == Decoders[topic][key]

Reads(r, m) == IF r.explicit \/ m[r.from] # Nothing THEN m[r.from] ELSE 0

Passes(r, m) == \A g \in r.given : Reads(g, m) \in g.known

ReadOmits(r, m) ==   \* mutant: a value that is not listed is left out
    IF Reads(r, m) \in r.known /\ Passes(r, m) THEN Reads(r, m) ELSE Nothing

ReadAsNumber(r, m) ==   \* mutant: a value of no table is shown as it is
    IF Passes(r, m) THEN Reads(r, m) ELSE Nothing

(* The value a decoder gives the key, or Nothing.                          *)
Read(r, m) ==
    IF Reads(r, m) = Nothing \/ ~Passes(r, m) THEN Nothing
    ELSE IF Reads(r, m) \in r.known THEN Reads(r, m) ELSE r.other

(* A message of absent fields and plain zeros is an empty payload.         *)
IsEmpty(m, rest) ==
    /\ ~rest
    /\ \A r \in {rule} \cup rule.given :
          m[r.from] = Nothing \/ (~r.explicit /\ m[r.from] = 0)

(* RVMDecoder.register's decode.                                           *)
Decode(m, rest) ==
    IF IsEmpty(m, rest) /\ topic \notin EmptyPayload THEN Nothing ELSE Read(rule, m)

Fields == {rule.from} \cup {g.from : g \in rule.given}

(* What a field may hold: a field that a condition reads is sampled.       *)
Messages ==
    {m \in [Fields -> Values \cup {Nothing}] :
        \A g \in rule.given : g.from # rule.from => m[g.from] \in {Nothing, 0, 1, 2, Unlisted}}

TopicTypeOK ==
    /\ topic \in DOMAIN Decoders /\ key \in DOMAIN Decoders[topic]
    /\ {last, lastStated} \subseteq Values \cup {Nothing}
    /\ shown \in rule.known \cup {rule.other, Nothing}

TopicInit ==
    /\ topic \in DOMAIN Decoders /\ key \in DOMAIN Decoders[topic]
    /\ shown = Nothing /\ last = Nothing /\ lastStated = Nothing

(* What the message says of the key, whether or not it is listed.          *)
Says(m) == IF Passes(rule, m) THEN Reads(rule, m) ELSE Nothing

(* A message arrives.  One that is lost, or that does not parse, does not: *)
(* the decoder's exception gives {}, and the record keeps its value.       *)
Arrives(m, rest) ==
    /\ last' = Says(m)
    /\ lastStated' = IF Says(m) # Nothing THEN Says(m) ELSE lastStated
    /\ shown' = IF Decode(m, rest) # Nothing THEN Decode(m, rest) ELSE shown
    /\ UNCHANGED <<topic, key>>

TopicNext == \E m \in Messages, rest \in BOOLEAN : Arrives(m, rest)

TopicSpec == TopicInit /\ [][TopicNext]_topicVars

-----------------------------------------------------------------------------
(* The decoders that take an empty payload for no message.                 *)
SkipsEmpty ==
    {"charging.session.time_estimation", "charging.schedule.time_window",
     "energy_edge_compute.graphs.charge_session_breakdown"}

(* A value that the vehicle sends and that the decoder's table holds is    *)
(* what the key shows next: a return to the default is not lost with the   *)
(* empty payload it makes (RVMDecoder.register, empty_payload).            *)
FollowsVehicle ==
    last \in rule.known /\ (last = 0 => topic \notin SkipsEmpty) => shown = last

(* A key that reassures ("closed", "locked", "OK", "consented") does so    *)
(* because the vehicle said exactly that, the last time it said anything:  *)
(* a state that is unknown to the decoder does not leave it standing       *)
(* (decode_closures, decode_locks, decode_tires, decode_power_state).      *)
Reassures ==
    rule.other # Nothing /\ shown \in rule.known \ {rule.other} => lastStated = shown

(* A decoded key tells what the vehicle said: values follow it, defaults   *)
(* included, and reassuring words were said.                               *)
TopicTells ==
    /\ TopicTypeOK
    /\ FollowsVehicle
    /\ Reassures
=============================================================================
