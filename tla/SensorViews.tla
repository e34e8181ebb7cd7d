---------------------------- MODULE SensorViews -----------------------------
(***************************************************************************)
(* The sensors and binary sensors of a vehicle: the tables of const.py,    *)
(* the values sensor.py and binary_sensor.py make of the record, and the   *)
(* two writers of the record (see VehicleRecord), each with the words it   *)
(* uses: the frames of the subscription, and the decoders of the Parallax  *)
(* topics.  A sensor of device class ENUM must show one of its options;    *)
(* one that is not listed is appended to them, for good.  A behaviour      *)
(* follows one field, or two members of a field that aggregates several.   *)
(***************************************************************************)
EXTENDS Naturals, FiniteSets

VARIABLES
    subject,    \* the field, or the name of the aggregate
    features,   \* the vehicle's supported_features and option_codes
    held,       \* the record's value of each field followed
    owner,      \* the fields followed that are in _subscription_keys
    told,       \* history: the subscription has sent a frame with the field
    added       \* what the options have got since the start

sensorVars == <<subject, features, held, owner, told, added>>

-----------------------------------------------------------------------------
(* Values.  A word is lower case in w, and its form says how it is written:*)
(* "lower" open_allowed, "caps" Open_Allowed, "title" Open Allowed,        *)
(* "spaced" open allowed, "chrgr" with the prefix chrgr_sts_.  A number, a *)
(* time, a list or a free text is the word "value", and "odd" one that the *)
(* sensor's transformation makes nothing of.                               *)

Lower(w)  == [w |-> w, form |-> "lower"]
Caps(w)   == [w |-> w, form |-> "caps"]
Title(w)  == [w |-> w, form |-> "title"]
Missing   == [w |-> "", form |-> "missing"]   \* the record has no such key
NoValue   == [w |-> "", form |-> "null"]      \* None
HasValue(v) == v.form \notin {"missing", "null"}

INVALID_SENSOR_STATES == {"fault", "signal_not_available", "sna", "undefined"}

(* is_invalid_state ignores case, but not blanks or a prefix.              *)
IsInvalidState(v) ==
    /\ v.w \in INVALID_SENSOR_STATES /\ v.form # "chrgr"
    /\ v.w = "signal_not_available" => v.form \in {"lower", "caps"}

(* _to_title_case, and the lambdas that put a word in place of "".         *)
Titled(v) == IF v.w = "" THEN v ELSE Title(v.w)
Otherwise(v, w) == IF v.w = "" THEN Title(w) ELSE Titled(v)

(* _level_or_off only puts blanks for the underscores.                     *)
LevelOrOff(v) == IF v.w = "" THEN Title("off")
                 ELSE [v EXCEPT !.form = IF v.form = "caps" THEN "title" ELSE "spaced"]

DRIVE_MODE_MAP ==
    [everyday |-> "all-purpose", sport |-> "sport", distance |-> "conserve",
     winter |-> "snow", towing |-> "towing", off_road_auto |-> "all-terrain",
     off_road_sand |-> "soft_sand", off_road_rocks |-> "rock_crawl",
     off_road_sport_auto |-> "rally", off_road_sport_drift |-> "drift"]

GEAR_STATUS_MAP == {"park", "drive", "neutral", "reverse", "low", "autonomous", "not_defined"}

(* _wifi_freq_mhz, _epoch_seconds_to_utc, _energy_window_total,            *)
(* _list_length, _ota_schedule_state and _pet_snapshot_created give None   *)
(* for what has not the form they expect.                                  *)
IfWellFormed(v) == IF v.w = "odd" THEN NoValue ELSE v

(* value_lambda of a row.                                                  *)
Transformed(row, v) ==
    CASE row.how = "as it is"  -> v
      [] row.how = "title"     -> Titled(v)
      [] row.how = "or else"   -> Otherwise(v, row.empty)
      [] row.how = "level"     -> LevelOrOff(v)
      [] row.how = "drive"     -> IF v.form = "lower" /\ v.w \in DOMAIN DRIVE_MODE_MAP
                                  THEN Title(DRIVE_MODE_MAP[v.w]) ELSE v
      [] row.how = "gear"      -> Title(IF v.w \in GEAR_STATUS_MAP THEN v.w ELSE "not_defined")
      [] row.how = "structure" -> IfWellFormed(v)

-----------------------------------------------------------------------------
(* The rows: how the value is made, what stands for "", the options of an  *)
(* ENUM sensor, and the features or option codes it takes one of.          *)

Row(how, empty, options) ==
    [how |-> how, empty |-> empty, options |-> options, gate |-> {}]
Plain             == Row("as it is", "", {})
TitleText         == Row("title", "", {})
Structure         == Row("structure", "", {})
Words(options)    == Row("title", "", options)
Or(empty, options) == Row("or else", empty, options)
Level             == Row("level", "", {"off", "level_1", "level_2", "level_3"})
For(gate, row)    == [row EXCEPT !.gate = gate]

(* A table is the set of its entries, each a field and what it has there.  *)
Rows(fields, row) == fields \X {row}
Entry(field, row) == Rows({field}, row)
Table(entries) ==
    [f \in {e[1] : e \in entries} |-> (CHOOSE e \in entries : e[1] = f)[2]]

WithoutOff ==   \* mutant: the decoder says "Off", the options do not
    {"unknown", "fault", "defog", "defrost", "defog_defrost"}

DefrostOptions == {"unknown", "fault", "defog", "defrost", "defog_defrost", "off"}

CabinSensors ==
    Rows({"activeDriverName", "gnssAltitude", "batteryLevel", "batteryLimit",
          "batteryCapacity", "gnssBearing", "brakeFluidLow",
          "cabinClimateDriverTemperature", "cabinClimateInteriorTemperature"}, Plain) \cup
    Entry("defrostDefogStatus", Or("unknown", DefrostOptions)) \cup
    Entry("cabinPreconditioningType", Or("none",
        {"none", "user_selected", "screen_protection", "scheduled",
         "auto_cabin_ventilation"})) \cup
    Entry("cabinPreconditioningStatus", Or("undefined",
        {"undefined", "initiate", "active", "active_warning", "complete_maintain",
         "timeout_complete", "error_soc_low", "error_system_fault",
         "timeout_temperature_not_achieved", "unavailable", "off"}))

SeatAndDriveSensors ==
    Rows({"seatFrontLeftHeat", "seatFrontLeftVent", "seatFrontRightHeat",
          "seatFrontRightVent"}, Level) \cup
    Rows({"chargerDerateStatus", "distanceToEmpty"}, Plain) \cup
    Entry("chargerState", Or("signal_not_available",
        {"waiting_on_charger", "charging_ready", "charging_active", "charging_connecting",
         "charging_complete", "charging_stopped_by_user", "charging_stopped_by_station",
         "charging_scheduled", "charging_vehicle_error", "charging_station_error",
         "charging_payment_error", "charging_cert_error",
         "charging_error_ac_adapter_used_on_dc", "charging_error_dc_adapter_used_on_ac",
         "charging_error_incompatible_charger",
         "charging_error_not_ready_or_incompatible_charger",
         "charging_sd_compensation", "signal_not_available"})) \cup
    Entry("chargerStatus", Or("NA",
        {"NA", "not_connected", "connected_no_chrg", "connected_charging", "evse_exit",
         "user_exit", "eoc_met", "fault"})) \cup
    Entry("driveMode", Row("drive", "",
        {DRIVE_MODE_MAP[m] : m \in DOMAIN DRIVE_MODE_MAP})) \cup
    Entry("gearStatus", Row("gear", "", GEAR_STATUS_MAP))

GuardAndVersionSensors ==
    Entry("trailerStatus", Words({"trailer_not_present", "trailer_present",
                                  "trailer_present_with_brakes", "trailer_invalid"})) \cup
    Entry("gearGuardVideoMode", Words({"away_from_home", "everywhere"})) \cup
    Entry("gearGuardVideoStatus", Words({"disabled", "enabled", "engaged"})) \cup
    Rows({"gearGuardVideoTermsAccepted", "otaCurrentStatus"}, TitleText) \cup
    Rows({"otaAvailableVersion", "otaAvailableVersionGitHash",
          "otaAvailableVersionNumber", "otaAvailableVersionWeek",
          "otaAvailableVersionYear", "otaCurrentVersion", "otaCurrentVersionGitHash",
          "otaCurrentVersionNumber", "otaCurrentVersionWeek", "otaCurrentVersionYear",
          "otaDownloadProgress"}, Plain)

UpdateAndPowerSensors ==
    Rows({"otaInstallDuration", "otaInstallProgress", "otaInstallTime",
          "otaInstallType", "wheelsInstalled", "remoteChargingAvailable"}, Plain) \cup
    Rows({"petModeTemperatureStatus", "rangeThreshold"}, TitleText) \cup
    Entry("otaStatus", Words(
        {"idle", "ready_to_download", "downloading", "preparing", "ready_to_install",
         "scheduled_to_install", "install_countdown", "awaiting_install", "installing",
         "install_success", "download_failed", "install_failed", "fault",
         "connection_lost"})) \cup
    Entry("petModeStatus", Or("off", {"on", "off", "disabled", "faulty"})) \cup
    Entry("cabinHoldStatus", Or("off", {})) \cup
    Entry("cabinHoldNotification", Or("none", {})) \cup
    Entry("powerState", Or("unknown",
        {"sleep", "standby", "ready", "go", "vehicle_reset", "ota_update", "shutdown",
         "unknown"})) \cup
    Entry("chargePortState", Or("unknown",
        {"open", "close", "in_transition", "opening", "closing", "unknown"}))

TireAndWindowSensors ==
    Rows({"gnssSpeed", "timeToEndOfCharge", "tirePressureFrontLeft",
          "tirePressureFrontRight", "tirePressureRearLeft", "tirePressureRearRight",
          "tirePressureStatusFrontLeft", "tirePressureStatusFrontRight",
          "tirePressureStatusRearLeft", "tirePressureStatusRearRight", "vehicleMileage",
          "windowFrontLeftCalibrated", "windowFrontRightCalibrated",
          "windowRearLeftCalibrated", "windowRearRightCalibrated"}, Plain) \cup
    Entry("windowsNextAction", Words(
        {"sna", "open_allowed", "close_allowed", "opening", "closing", "moving",
         "open_not_available", "close_not_available", "open_not_allowed_faulted",
         "close_not_allowed_faulted", "obstructed_while_closing_close_allowed",
         "close_not_allowed_uncalibrated", "open_not_allowed_uncalibrated"}))

FaultSensors ==
    Entry("wiperFluidState", Or("normal", {"normal", "low", "empty"})) \cup
    Rows({"steeringWheelHeat", "seatRearLeftHeat", "seatRearRightHeat"}, Level) \cup
    Rows({"limitedAccelCold", "limitedRegenCold", "vasSecureElementFaulted",
          "vasAccessCanFaulted", "passiveEntryUnlockFailReason",
          "secureImmobilizerStatus", "consecutiveAlarmDisabledNotification",
          "batteryCellType", "coldRangeNotification", "knownLocation",
          "wifiSignal"}, Plain)

NetworkSensors ==
    Entry("closureChargePortDoorNextAction", Words(
        {"sna", "open_allowed", "open_not_available", "open_not_allowed_faulted",
         "opening", "close_allowed", "obstructed_while_opening_close_allowed",
         "obstructed_while_opening_open_allowed",
         "obstructed_while_closing_close_allowed", "close_not_available",
         "close_not_allowed_faulted", "closing"})) \cup
    Entry("closureFrunkNextAction", Words(
        {"sna", "open_allowed", "close_allowed", "opening", "closing",
         "open_not_available", "close_not_available", "open_not_allowed_faulted",
         "close_not_allowed_faulted", "open_allowed_no_powered_operation",
         "close_not_allowed_no_powered_operation",
         "obstructed_while_opening_close_allowed",
         "obstructed_while_closing_open_allowed"})) \cup
    Entry("wifiFreq", Structure) \cup
    Rows({"cellularAntennaBars", "cellularCarrier", "cellularMode",
          "cellularSignalStrength", "wifiAntennaBars", "wifiLinkSpeed",
          "wifiSecureStatus", "wifiSsid", "wifiStaDisabledReason", "wifiWpaStatus",
          "chargingTripTargetSoc", "chargingTripTargetMinsRemaining"}, Plain)

SideBin == For({"SIDE_BIN_NXT_ACT"}, Words(
    {"sna", "open_allowed", "opening", "open_not_available",
     "open_not_allowed_faulted", "stuck_ajar_while_opening_open_allowed",
     "open_already_no_action_available", "open_allowed_confirm_vehicle_angle"}))

DeploymentSensors ==
    Rows({"chargingDisabledACFaultState", "chargingDisabledAll",
          "chargingTimeEstimationValidity", "batteryNeedsLfpCalibration",
          "otaDeploymentIntent", "otaSoftwareCategory", "rearHitchStatus",
          "geoLocation", "gnssError.positionVertical", "gnssError.positionHorizontal",
          "gnssError.speed", "gnssError.bearing"}, Plain) \cup
    Entry("closureTailgateNextAction", For({"TAILGATE_CMD", "TAILGATE_NXT_ACT"}, Words(
        {"sna", "open_allowed", "opening", "open_not_available",
         "open_not_allowed_faulted", "stuck_ajar_while_opening_open_allowed",
         "open_already_no_action_available", "open_allowed_confirm_vehicle_angle",
         "open_allowed_obstacle_detected", "open_allowed_trailer_detected"}))) \cup
    Entry("closureSideBinLeftNextAction", SideBin)

RearSensors ==
    Entry("closureSideBinRightNextAction", SideBin) \cup
    Rows({"seatThirdRowLeftHeat", "seatThirdRowRightHeat"},
         For({"HEATED_SEATS_THIRD"}, Level)) \cup
    Entry("closureLiftgateNextAction", For({"LIFTGATE_CMD"}, Words(
        {"sna", "open_allowed", "close_allowed", "opening", "closing",
         "open_not_available", "close_not_available", "open_allowed_trailer_detected",
         "close_allowed_trailer_detected", "open_not_allowed_faulted",
         "close_not_allowed_faulted", "open_allowed_no_powered_operation",
         "close_not_allowed_no_powered_operation",
         "obstructed_while_opening_close_allowed",
         "obstructed_while_closing_close_allowed", "lower_gate_open_close_not_allowed",
         "opening_pause_not_allowed", "closing_pause_not_allowed",
         "open_allowed_obstacle_detected", "close_allowed_obstacle_detected",
         "processing"}))) \cup
    Rows({"cabinVentilationMode", "cabinVentilationWindowsOpenPercent",
          "cabinVentilationSunroofOpenPercent", "cabinVentilationDurationMinutes"},
         For({"AUTO_VENT"}, Plain)) \cup
    Rows({"gearGuardStreamingConsent", "gearGuardStreamingDailyLimit"},
         For({"V_GGVS"}, Plain)) \cup
    Entry("gearGuardStreamingLimitResetTime", For({"V_GGVS"}, Structure))

EnergySensors ==
    Rows({"parkedEnergyLast24Hours", "parkedEnergyLast8Hours",
          "parkedEnergyLastParkSession"}, For({"ENRG_MONTR_PARK"}, Structure)) \cup
    Entry("chargingFaultChime", TitleText) \cup
    Rows({"tripTargetSoc", "tripTargetMinutesRemaining", "climateHoldDurationSeconds",
          "chargeScheduleWindow", "chargeScheduleAmps", "hvacSetTemperature",
          "coldWeatherSocGreen", "coldWeatherSocBlue", "coldRangeImpact"}, Plain) \cup
    Entry("otaOneTimeInstallTime", Structure)

TripSensors ==
    Rows({"otaInstallSchedules", "favoriteGeofences", "petSnapshot", "navTripEta",
          "navLegEta"}, Structure) \cup
    Entry("cccPassivePermissionStatus", TitleText) \cup
    Rows({"navLegRemainingDistance", "navLegRemainingDuration"}, Plain)

SENSORS == Table(CabinSensors \cup SeatAndDriveSensors \cup
                 GuardAndVersionSensors \cup UpdateAndPowerSensors \cup
                 TireAndWindowSensors \cup FaultSensors \cup
                 NetworkSensors \cup DeploymentSensors \cup RearSensors \cup
                 EnergySensors \cup TripSensors)

(* The binary sensors: the values that are on, and the gate.               *)
OnFor(words)      == [on |-> {Lower(w) : w \in words}, gate |-> {}]
Opened         == OnFor({"open", "opened"})
Unlocked       == OnFor({"unlocked"})
Detected       == OnFor({"detected"})

DoorBinarySensors ==
    Entry("chargePortState", OnFor({"open", "opening", "in_transition"})) \cup
    Entry("closureFrunkClosed", OnFor({"open", "opened", "ajar"})) \cup
    Rows({"closureTailgateClosed", "doorFrontLeftClosed", "doorFrontRightClosed",
          "doorRearLeftClosed", "doorRearRightClosed"}, Opened) \cup
    Rows({"closureFrunkLocked", "closureTailgateLocked", "doorFrontLeftLocked",
          "doorFrontRightLocked", "doorRearLeftLocked", "doorRearRightLocked",
          "gearGuardLocked"}, Unlocked) \cup
    Rows({"tirePressureStatusValidFrontLeft", "tirePressureStatusValidFrontRight",
          "tirePressureStatusValidRearLeft", "tirePressureStatusValidRearRight"},
         OnFor({"invalid"}))

AlarmBinarySensors ==
    Rows({"windowFrontLeftClosed", "windowFrontRightClosed", "windowRearLeftClosed",
          "windowRearRightClosed"}, Opened) \cup
    Entry("powerState", OnFor({"go"})) \cup
    Rows({"btmFfHardwareFailureStatus", "btmOcHardwareFailureStatus",
          "btmRfHardwareFailureStatus", "btmIcHardwareFailureStatus",
          "btmRfdHardwareFailureStatus", "btmLfdHardwareFailureStatus",
          "batteryHvThermalEvent", "batteryHvThermalEventPropagation"}, Detected) \cup
    Entry("alarmSoundStatus", OnFor({"active", "true"}))

ModeBinarySensors ==
    Entry("twelveVoltBatteryHealth", OnFor({"low"})) \cup
    Rows({"serviceMode", "carWashMode"}, OnFor({"on"})) \cup
    Entry("otaInstallReady", OnFor({"ota_available"})) \cup
    Rows({"closureSideBinLeftClosed", "closureSideBinRightClosed"},
         For({"SIDE_BIN_NXT_ACT"}, Opened)) \cup
    Rows({"closureSideBinLeftLocked", "closureSideBinRightLocked"},
         For({"SIDE_BIN_NXT_ACT"}, Unlocked)) \cup
    Entry("closureTonneauClosed", For({"TON-P01"}, Opened)) \cup
    Entry("closureTonneauLocked", For({"TON-P01"}, Unlocked)) \cup
    Entry("closureLiftgateClosed", For({"LIFTGATE_CMD"}, Opened)) \cup
    Entry("closureLiftgateLocked", For({"LIFTGATE_CMD"}, Unlocked)) \cup
    Entry("cabinVentilationEnabled", For({"AUTO_VENT"}, OnFor({"true"}))) \cup
    Entry("passiveEntryBluetoothInCcc", OnFor({"true"}))

BINARY_SENSORS == Table(DoorBinarySensors \cup AlarmBinarySensors \cup
                        ModeBinarySensors)

LOCK_STATE_ENTITIES ==
    {"closureFrunkLocked", "closureLiftgateLocked", "closureSideBinLeftLocked",
     "closureSideBinRightLocked", "closureTailgateLocked", "closureTonneauLocked",
     "doorFrontLeftLocked", "doorFrontRightLocked", "doorRearLeftLocked",
     "doorRearRightLocked"}
DOOR_STATE_ENTITIES ==
    {"doorFrontLeftClosed", "doorFrontRightClosed", "doorRearLeftClosed",
     "doorRearRightClosed"}
CLOSURE_STATE_ENTITIES ==
    {"closureFrunkClosed", "closureLiftgateClosed", "closureSideBinLeftClosed",
     "closureSideBinRightClosed", "closureTailgateClosed", "closureTonneauClosed"}

(* The three binary sensors that aggregate.                                *)
Aggregates ==
    [locked_state  |-> [of |-> LOCK_STATE_ENTITIES, on |-> Unlocked.on],
     door_state    |-> [of |-> DOOR_STATE_ENTITIES, on |-> Opened.on],
     closure_state |-> [of |-> CLOSURE_STATE_ENTITIES, on |-> Opened.on]]

-----------------------------------------------------------------------------
(* The two writers of the record, and the words each of them uses.         *)

PARALLAX_ONLY_FIELDS ==
    {"cabinVentilationDurationMinutes", "cabinVentilationEnabled",
     "cabinVentilationMode", "cabinVentilationSunroofOpenPercent",
     "cabinVentilationWindowsOpenPercent", "cccPassivePermissionStatus",
     "chargeScheduleAmps", "chargeScheduleWindow", "chargingFaultChime",
     "climateHoldDurationSeconds", "coldRangeImpact", "coldWeatherSocBlue",
     "coldWeatherSocGreen", "consecutiveAlarmDisabledNotification",
     "favoriteGeofences", "gearGuardStreamingConsent",
     "gearGuardStreamingDailyLimit", "gearGuardStreamingLimitResetTime",
     "hvacSetTemperature", "knownLocation", "navLegEta",
     "navLegRemainingDistance", "navLegRemainingDuration", "navTripEta",
     "otaInstallSchedules", "otaOneTimeInstallTime",
     "parkedEnergyLast24Hours", "parkedEnergyLast8Hours",
     "parkedEnergyLastParkSession", "passiveEntryBluetoothInCcc",
     "passiveEntryUnlockFailReason", "petSnapshot",
     "secureImmobilizerStatus", "tripTargetMinutesRemaining",
     "tripTargetSoc", "vasAccessCanFaulted", "vasSecureElementFaulted",
     "wheelsInstalled"}
APP_VEHICLE_STATE_FIELDS ==
    {"activeDriverName", "alarmSoundStatus", "batteryCellType",
     "batteryHvThermalEvent", "batteryHvThermalEventPropagation",
     "batteryLevel", "batteryLimit", "batteryNeedsLfpCalibration",
     "btmFfHardwareFailureStatus", "btmIcHardwareFailureStatus",
     "btmLfdHardwareFailureStatus", "btmOcHardwareFailureStatus",
     "btmRfHardwareFailureStatus", "btmRfdHardwareFailureStatus",
     "cabinClimateDriverTemperature", "cabinClimateInteriorTemperature",
     "cabinHoldNotification", "cabinHoldStatus",
     "cabinPreconditioningStatus", "cabinPreconditioningType",
     "carWashMode", "cellularAntennaBars", "cellularCarrier",
     "cellularMode", "cellularSignalStrength", "chargePortState",
     "chargerDerateStatus", "chargerState", "chargerStatus",
     "chargingDisabledACFaultState", "chargingDisabledAll",
     "chargingTimeEstimationValidity", "chargingTripTargetMinsRemaining",
     "chargingTripTargetSoc", "closureChargePortDoorNextAction",
     "closureFrunkClosed", "closureFrunkLocked", "closureFrunkNextAction",
     "closureLiftgateClosed", "closureLiftgateLocked",
     "closureLiftgateNextAction", "closureSideBinLeftClosed",
     "closureSideBinLeftLocked", "closureSideBinLeftNextAction",
     "closureSideBinRightClosed", "closureSideBinRightLocked",
     "closureSideBinRightNextAction", "closureTailgateClosed",
     "closureTailgateLocked", "closureTailgateNextAction",
     "closureTonneauClosed", "closureTonneauLocked",
     "coldRangeNotification", "defrostDefogStatus", "distanceToEmpty",
     "doorFrontLeftClosed", "doorFrontLeftLocked", "doorFrontRightClosed",
     "doorFrontRightLocked", "doorRearLeftClosed", "doorRearLeftLocked",
     "doorRearRightClosed", "doorRearRightLocked", "driveMode",
     "gearGuardLocked", "gearGuardVideoMode", "gearGuardVideoStatus",
     "gearGuardVideoTermsAccepted", "gearStatus", "geoLocation",
     "gnssAltitude", "gnssBearing", "gnssError", "gnssLocation",
     "gnssSpeed", "limitedAccelCold", "limitedRegenCold",
     "otaAvailableVersion", "otaAvailableVersionGitHash",
     "otaCurrentStatus", "otaCurrentVersion", "otaCurrentVersionGitHash",
     "otaDeploymentIntent", "otaDownloadProgress", "otaInstallDuration",
     "otaInstallProgress", "otaInstallReady", "otaInstallTime",
     "otaInstallType", "otaSoftwareCategory", "otaStatus", "petModeStatus",
     "petModeTemperatureStatus", "powerState", "rangeThreshold",
     "rearHitchStatus", "remoteChargingAvailable", "seatFrontLeftHeat",
     "seatFrontLeftVent", "seatFrontRightHeat", "seatFrontRightVent",
     "seatRearLeftHeat", "seatRearRightHeat", "seatThirdRowLeftHeat",
     "seatThirdRowRightHeat", "serviceMode", "steeringWheelHeat",
     "timeToEndOfCharge", "trailerStatus", "twelveVoltBatteryHealth",
     "vehicleMileage", "wifiAntennaBars", "wifiFreq", "wifiLinkSpeed",
     "wifiSecureStatus", "wifiSignal", "wifiSsid", "wifiStaDisabledReason",
     "wifiWpaStatus", "windowFrontLeftCalibrated", "windowFrontLeftClosed",
     "windowFrontRightCalibrated", "windowFrontRightClosed",
     "windowRearLeftCalibrated", "windowRearLeftClosed",
     "windowRearRightCalibrated", "windowRearRightClosed",
     "windowsNextAction", "wiperFluidState"}
EXTRA_VEHICLE_STATE_FIELDS ==
    {"batteryCapacity", "brakeFluidLow", "otaAvailableVersionNumber",
     "otaAvailableVersionWeek", "otaAvailableVersionYear", "otaCurrentVersionNumber",
     "otaCurrentVersionWeek", "otaCurrentVersionYear"}

AppFieldsOnly ==   \* mutant: the document leaves the extra fields out
    APP_VEHICLE_STATE_FIELDS \ PARALLAX_ONLY_FIELDS

(* The fields of the two subscription documents.                           *)
VEHICLE_STATE_SUBSCRIPTION_FIELDS ==
    (APP_VEHICLE_STATE_FIELDS \cup EXTRA_VEHICLE_STATE_FIELDS) \ PARALLAX_ONLY_FIELDS
TIRE_PRESSURE_SUBSCRIPTION_FIELDS ==
    {"tirePressureFrontLeft", "tirePressureFrontRight", "tirePressureRearLeft",
     "tirePressureRearRight", "tirePressureStatusFrontLeft",
     "tirePressureStatusFrontRight", "tirePressureStatusRearLeft",
     "tirePressureStatusRearRight", "tirePressureStatusValidFrontLeft",
     "tirePressureStatusValidFrontRight", "tirePressureStatusValidRearLeft",
     "tirePressureStatusValidRearRight"}
VEHICLE_STATE_API_FIELDS ==
    VEHICLE_STATE_SUBSCRIPTION_FIELDS \cup TIRE_PRESSURE_SUBSCRIPTION_FIELDS

(* gnssError reports an object, whose parts are fields of the entities.    *)
Parts == {"gnssError.positionVertical", "gnssError.positionHorizontal",
          "gnssError.speed", "gnssError.bearing"}
Subscribed(f) ==
    (IF f \in Parts THEN "gnssError" ELSE f) \in VEHICLE_STATE_API_FIELDS

(* What a decoder gives for each key, by its tables.                       *)
Lowers(words) == {Lower(w) : w \in words}
AllCaps(words) == {Caps(w) : w \in words}
Number == {Lower("value")}

BodyKeys ==
    Rows({"doorFrontLeftClosed", "doorFrontRightClosed", "doorRearLeftClosed",
          "doorRearRightClosed", "closureFrunkClosed", "closureTailgateClosed",
          "closureLiftgateClosed", "closureSideBinLeftClosed",
          "closureSideBinRightClosed", "closureTonneauClosed", "windowFrontLeftClosed",
          "windowFrontRightClosed", "windowRearLeftClosed", "windowRearRightClosed"},
         Lowers({"closed", "open"})) \cup
    Rows(LOCK_STATE_ENTITIES, Lowers({"locked", "unlocked"})) \cup
    Rows({"windowFrontLeftCalibrated", "windowFrontRightCalibrated",
          "windowRearLeftCalibrated", "windowRearRightCalibrated"},
         AllCaps({"calibrated", "not_calibrated"})) \cup
    Entry("trailerStatus", Lowers({"trailer_not_present", "trailer_present",
                                   "trailer_present_with_brakes", "trailer_invalid"}))

ComfortKeys ==
    Entry("defrostDefogStatus", AllCaps({"defog", "defrost", "defog_defrost", "off"})) \cup
    Entry("cabinPreconditioningStatus", Lowers(
        {"undefined", "initiate", "active", "active_warning", "complete_maintain",
         "timeout_temperature_not_achieved", "error_soc_low", "error_system_fault",
         "unavailable", "timeout_complete"})) \cup
    Rows({"steeringWheelHeat", "seatFrontLeftHeat", "seatFrontLeftVent",
          "seatFrontRightHeat", "seatFrontRightVent", "seatRearLeftHeat",
          "seatRearRightHeat", "seatThirdRowLeftHeat", "seatThirdRowRightHeat"},
         AllCaps({"off", "level_1", "level_2", "level_3"})) \cup
    Entry("petModeStatus", Lowers({"off", "on", "disabled", "faulty"})) \cup
    Entry("petModeTemperatureStatus", Lowers({"default", "cold", "hot", "faulty"})) \cup
    Rows({"serviceMode", "carWashMode"}, Lowers({"on", "off"})) \cup
    Entry("cabinVentilationEnabled", Lowers({"true", "false"})) \cup
    Rows({"cabinClimateInteriorTemperature", "cabinClimateDriverTemperature",
          "climateHoldDurationSeconds", "cabinVentilationMode",
          "cabinVentilationWindowsOpenPercent", "cabinVentilationSunroofOpenPercent",
          "cabinVentilationDurationMinutes", "hvacSetTemperature"}, Number)

DynamicsKeys ==
    Entry("gearStatus", Lowers({"not_defined", "park", "reverse", "neutral", "drive"})) \cup
    Entry("driveMode", Lowers(
        {"init_mode", "everyday", "off_road_snow_ice", "off_road_sport_auto",
         "off_road_sport_drift", "sport_launch", "fault", "sport", "distance",
         "towing", "off_road_auto", "off_road_sand", "off_road_rocks", "off_road_mud",
         "winter"})) \cup
    Entry("rangeThreshold", Lowers({"normal", "low", "red", "critically_low"})) \cup
    Rows({"gnssAltitude", "vehicleMileage", "tirePressureFrontLeft",
          "tirePressureFrontRight", "tirePressureRearLeft", "tirePressureRearRight",
          "tirePressureStatusFrontLeft", "tirePressureStatusFrontRight",
          "tirePressureStatusRearLeft", "tirePressureStatusRearRight",
          "limitedAccelCold", "limitedRegenCold", "distanceToEmpty",
          "coldRangeNotification", "knownLocation"}, Number)

SecurityKeys ==
    Entry("alarmSoundStatus", Lowers({"false", "true", "signal_not_available"})) \cup
    Entry("gearGuardVideoStatus", Lowers({"disabled", "enabled", "active"})) \cup
    Entry("gearGuardVideoMode", Lowers({"none", "everywhere", "away_from_home"})) \cup
    Entry("gearGuardVideoTermsAccepted", Lowers({"not_accepted", "accepted"})) \cup
    Rows({"btmFfHardwareFailureStatus", "btmIcHardwareFailureStatus",
          "btmLfdHardwareFailureStatus", "btmRfHardwareFailureStatus",
          "btmRfdHardwareFailureStatus", "btmOcHardwareFailureStatus"},
         Lowers({"unspecified", "set"})) \cup
    Rows({"consecutiveAlarmDisabledNotification", "vasSecureElementFaulted",
          "vasAccessCanFaulted", "passiveEntryUnlockFailReason",
          "secureImmobilizerStatus"}, Number)

OtaKeys ==
    Entry("otaStatus", AllCaps(
        {"idle", "ready_to_download", "fault", "connection_lost", "install_countdown",
         "preparing", "downloading", "ready_to_install", "scheduled_to_install",
         "awaiting_install", "installing", "install_success", "download_failed",
         "install_failed"})) \cup
    Entry("otaCurrentStatus", AllCaps({"install_success", "install_failed",
                                       "install_unable_to_start"})) \cup
    Entry("otaInstallReady", Lowers({"ota_available", "ota_not_available"})) \cup
    Rows({"otaCurrentVersion", "otaCurrentVersionYear", "otaCurrentVersionWeek",
          "otaCurrentVersionNumber", "otaCurrentVersionGitHash", "otaAvailableVersion",
          "otaAvailableVersionYear", "otaAvailableVersionWeek",
          "otaAvailableVersionNumber", "otaAvailableVersionGitHash",
          "otaDownloadProgress", "otaInstallProgress", "otaOneTimeInstallTime",
          "otaInstallSchedules"}, Number)

VehicleKeys ==
    Entry("powerState", Lowers({"sleep", "standby", "ready", "go", "vehicle_reset",
                                "ota_update", "shutdown"})) \cup
    Rows({"wheelsInstalled", "wifiWpaStatus", "wifiSsid", "wifiAntennaBars",
          "wifiSignal", "wifiLinkSpeed", "wifiSecureStatus", "cellularCarrier",
          "cellularMode", "cellularAntennaBars", "cellularSignalStrength"}, Number) \cup
    Entry("wifiFreq", Lowers({"value", "odd"}))

ChargingKeys ==
    Rows({"timeToEndOfCharge", "batteryLimit", "remoteChargingAvailable",
          "chargerDerateStatus", "chargingFaultChime", "tripTargetSoc",
          "tripTargetMinutesRemaining", "chargeScheduleAmps",
          "chargeScheduleWindow"}, Number)

EnergyKeys ==
    Entry("batteryCellType", Number) \cup
    Entry("twelveVoltBatteryHealth", Lowers({"normal", "low"}))

ParkedEnergyKeys ==
    Rows({"parkedEnergyLast24Hours", "parkedEnergyLast8Hours",
          "parkedEnergyLastParkSession"}, Lowers({"value", "odd"}))
ColdWeatherKeys ==
    Rows({"coldWeatherSocGreen", "coldWeatherSocBlue", "coldRangeImpact"}, Number)

TripKeys ==
    Rows({"navLegEta", "navTripEta", "navLegRemainingDistance",
          "navLegRemainingDuration"}, Number)

AccessKeys ==
    Entry("passiveEntryBluetoothInCcc", Lowers({"true", "false"})) \cup
    Entry("cccPassivePermissionStatus", Lowers({"sna", "disabled", "enabled"}))

StreamingKeys ==
    Rows({"gearGuardStreamingConsent", "gearGuardStreamingLimitResetTime"}, Number) \cup
    Entry("gearGuardStreamingDailyLimit", Lowers({"undefined", "hit", "not_hit"}))

(* Without the time it was taken the snapshot has no state to show.        *)
SnapshotKeys == Entry("petSnapshot", Lowers({"value", "odd"}))
GeofenceKeys == Entry("favoriteGeofences", Number)

DecodedKeys == Table(BodyKeys \cup ComfortKeys \cup DynamicsKeys \cup
                     SecurityKeys \cup OtaKeys \cup VehicleKeys \cup
                     ChargingKeys \cup EnergyKeys \cup ParkedEnergyKeys \cup
                     ColdWeatherKeys \cup TripKeys \cup AccessKeys \cup
                     StreamingKeys \cup SnapshotKeys \cup GeofenceKeys)
Decoded(f) == IF f \in DOMAIN DecodedKeys THEN DecodedKeys[f] ELSE {}

(* What the vehicle may report of a field in a frame: a word the sensors   *)
(* list or not, nothing, None or a value that is invalid.                  *)
FormOf(f) ==
    IF f = "chargerStatus" THEN "chrgr"
    ELSE IF f = "otaStatus" \/ (f \in DOMAIN SENSORS /\ SENSORS[f].how = "level")
    THEN "caps" ELSE "lower"
ListedWords(f) ==
    IF f = "driveMode" THEN DOMAIN DRIVE_MODE_MAP
    ELSE IF f \in DOMAIN SENSORS THEN SENSORS[f].options \ {"NA"} ELSE {}
OnWords(f) == IF f \in DOMAIN BINARY_SENSORS THEN BINARY_SENSORS[f].on ELSE {}

Reported(f) ==
    IF ~Subscribed(f) THEN {}
    ELSE IF f \in Parts THEN Number
    ELSE IF ListedWords(f) = {} /\ OnWords(f) = {}
    THEN Lowers({"value", "", "odd", "signal_not_available"}) \cup {NoValue}
    ELSE {[w |-> w, form |-> FormOf(f)] : w \in ListedWords(f)} \cup OnWords(f)
         \cup Lowers({"unlisted", "", "fault", "signal_not_available"}) \cup {NoValue}

-----------------------------------------------------------------------------
(* The entities.                                                           *)

(* vehicle_supports: one of the features, or the option code.              *)
Supports(row) == row.gate = {} \/ row.gate \cap features # {}

FilteredLate(row, v) ==   \* mutant: error codes are looked for in the result only
    LET r == Transformed(row, v)
    IN  IF ~HasValue(v) \/ IsInvalidState(r) THEN NoValue ELSE r

(* RivianSensorEntity.native_value: error codes are looked for before and  *)
(* after the transformation.  A field without a value is unavailable.      *)
NativeValue(row, v) ==
    IF ~HasValue(v) \/ IsInvalidState(v) THEN NoValue
    ELSE LET r == Transformed(row, v)
         IN  IF IsInvalidState(r) THEN NoValue ELSE r

Shown(f) == NativeValue(SENSORS[f], held[f])
HasSensor(f) == f \in DOMAIN SENSORS /\ Supports(SENSORS[f])

IsOnUnchecked(row, v) ==   \* mutant: an error code is a value that is not on
    IF ~HasValue(v) THEN "unknown" ELSE IF v \in row.on THEN "on" ELSE "off"

(* RivianBinarySensorEntity.is_on.                                         *)
IsOn(row, v) ==
    IF ~HasValue(v) \/ IsInvalidState(v) THEN "unknown"
    ELSE IF v \in row.on THEN "on" ELSE "off"

AllOn(values, on) == values \subseteq on   \* mutant: all members, not any

AnyOn(values, on) == values \cap on # {}
AggregateIsOn(a) == AnyOn({held[f] : f \in DOMAIN held}, Aggregates[a].on)

(* available: of a field that has a value, and of an aggregate when one    *)
(* member has one that is true for Python.                                 *)
Available ==
    IF subject \in DOMAIN Aggregates
    THEN \E f \in DOMAIN held : HasValue(held[f]) /\ held[f].w # ""
    ELSE HasValue(held[subject])

NotListedPlain(row, v) ==   \* mutant: of any device class
    {r \in {NativeValue(row, v)} : HasValue(r) /\ ~(r.form = "title" /\ r.w \in row.options)}

(* Reading the state of an ENUM sensor appends what it does not list.      *)
NotListed(row, v) ==
    {r \in {NativeValue(row, v)} :
        HasValue(r) /\ row.options # {} /\ ~(r.form = "title" /\ r.w \in row.options)}
AddedBy(values) ==
    UNION {NotListed(SENSORS[f], values[f]) : f \in {g \in DOMAIN held : HasSensor(g)}}

Publishes(values) ==
    /\ held' = values
    /\ added' = added \cup AddedBy(values)

(* A frame reports v of f: an invalid value does not replace what the      *)
(* record has, and f is the subscription's as long as it is usable.        *)
KeepsOver(f, v) == IF IsInvalidState(v) /\ held[f] # Missing THEN held[f] ELSE v

FrameReports(f, v) ==
    /\ Publishes([held EXCEPT ![f] = KeepsOver(f, v)])
    /\ owner' = IF IsInvalidState(v) THEN owner \ {f}
                ELSE IF HasValue(v) THEN owner \cup {f} ELSE owner
    /\ told' = TRUE
    /\ UNCHANGED <<subject, features>>

(* A Parallax message gives v for f, if the subscription does not own it.  *)
MessageGives(f, v) ==
    /\ f \notin owner
    /\ Publishes([held EXCEPT ![f] = KeepsOver(f, v)])
    /\ UNCHANGED <<subject, features, owner, told>>

EntityFields == DOMAIN SENSORS \cup DOMAIN BINARY_SENSORS
Gates(f) ==
    (IF f \in DOMAIN SENSORS THEN SENSORS[f].gate ELSE {}) \cup
    (IF f \in DOMAIN BINARY_SENSORS THEN BINARY_SENSORS[f].gate ELSE {})

FollowInit(s, fields) ==
    /\ subject = s
    /\ held = [f \in fields |-> Missing]
    /\ features \in SUBSET UNION {Gates(f) : f \in fields}
    /\ owner = {} /\ told = FALSE /\ added = {}

FieldInit(F) == \E f \in F : FollowInit(f, {f})
AggregateInit ==
    \E a \in DOMAIN Aggregates : \E f, g \in Aggregates[a].of :
        f # g /\ FollowInit(a, {f, g})

Frame   == \E f \in DOMAIN held : \E v \in Reported(f) : FrameReports(f, v)
Message == \E f \in DOMAIN held : \E v \in Decoded(f) : MessageGives(f, v)

SensorNext == Frame \/ Message

(* The vehicle keeps reporting, sooner or later a usable value.            *)
Usable(v) == HasValue(v) /\ v.w # "" /\ ~IsInvalidState(v)
UsableFrame ==
    \E f \in DOMAIN held : \E v \in Reported(f) : Usable(v) /\ FrameReports(f, v)
UsableMessage ==
    \E f \in DOMAIN held : \E v \in Decoded(f) : Usable(v) /\ MessageGives(f, v)
SensorFairness == WF_sensorVars(UsableFrame) /\ WF_sensorVars(UsableMessage)

SensorInit == FieldInit(EntityFields) \/ AggregateInit

SensorSpec == SensorInit /\ [][SensorNext]_sensorVars

-----------------------------------------------------------------------------
(* The types of the variables; only an ENUM sensor gets options.           *)
SensorTypeOK ==
    /\ subject \in EntityFields \cup DOMAIN Aggregates
    /\ DOMAIN held \subseteq EntityFields /\ owner \subseteq DOMAIN held
    /\ \A f \in DOMAIN held : held[f] \in {Missing} \cup Reported(f) \cup Decoded(f)
    /\ added # {} => \E f \in DOMAIN held : HasSensor(f) /\ SENSORS[f].options # {}
    /\ told \in BOOLEAN

(* No code for an error is shown as a value or becomes an option, whatever *)
(* case, prefix or blanks the transformation gives it (the invalid states  *)
(* of sensor.py are looked for twice); only a word put in place of "" may  *)
(* read like one.                                                          *)
ErrorCodeHidden ==
    \A f \in DOMAIN held : HasSensor(f) =>
        /\ Shown(f).w \in INVALID_SENSOR_STATES => held[f].w = ""
        /\ \A r \in added : r.w \notin INVALID_SENSOR_STATES

(* A field that is both a sensor and a binary sensor (powerState,          *)
(* chargePortState) is unknown to both or to none, and the binary sensor   *)
(* is on exactly when the sensor shows a word that it lists.               *)
PlatformsAgree ==
    \A f \in DOMAIN held \cap DOMAIN SENSORS \cap DOMAIN BINARY_SENSORS :
        LET b == IsOn(BINARY_SENSORS[f], held[f])
        IN  /\ b = "unknown" <=> ~HasValue(Shown(f))
            /\ b = "on" <=> Lower(Shown(f).w) \in BINARY_SENSORS[f].on

(* The aggregates tell what their members' own sensors tell: on when one   *)
(* of them is, except for a frunk that is ajar, which only its own sensor  *)
(* calls open.                                                             *)
AggregateTells ==
    subject \in DOMAIN Aggregates =>
        LET on == {f \in DOMAIN held : IsOn(BINARY_SENSORS[f], held[f]) = "on"}
        IN  /\ AggregateIsOn(subject) => on # {}
            /\ (\E f \in on : held[f].w # "ajar") => AggregateIsOn(subject)

(* The words the decoders give fit the options their sensors have: Parallax*)
(* alone adds none, but for three fields (see EveryDecoderFits).           *)
DecodersFitOptions ==
    /\ ~told
    /\ subject \notin {"driveMode", "gearGuardVideoStatus", "gearGuardVideoMode"}
    => added = {}

(* docs/development/PARALLAX_DECODERS.md and tests/test_init.py say that of*)
(* all of them.                                                            *)
EveryDecoderFits == ~told => added = {}

(* Every field an entity shows has a writer, the subscription that asks for*)
(* it or a decoder that gives it, and none of them keeps the other from    *)
(* writing while there is no value: no entity stays unavailable for good.  *)
ViewFed == ~Available ~> Available

(* What sensors and binary sensors show of a field is a value of it, the   *)
(* same for each of them, whichever writer gave it.                        *)
SensorsTell ==
    /\ SensorTypeOK
    /\ ErrorCodeHidden
    /\ PlatformsAgree
    /\ AggregateTells
    /\ DecodersFitOptions
=============================================================================
