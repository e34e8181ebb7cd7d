--------------------------- MODULE CoordinatorData ---------------------------
(***************************************************************************)
(* The records of one vehicle together: a Parallax message that decodes to *)
(* charging keys goes to the charging record, one that decodes to others   *)
(* to the vehicle record, and the time to the end of charge to both        *)
(* (_process_parallax_data).  The subscriptions write one record each.     *)
(***************************************************************************)
EXTENDS VehicleRecord, ChargingData

(* A time to the end of a charge is a usable value, whichever session it   *)
(* was measured in.                                                        *)
ASSUME DataAssumption == \A p \in 1 .. LastPhase : Session(p) \in Usable

dataRecords == <<recordVars, chargingVars>>

DataTypeOK == RecordTypeOK /\ ChargingTypeOK
DataInit == RecordInit /\ ChargingInit

VehicleKeysWithoutEta(clean) == {}   \* mutant: charging keys go one way only

(* The keys of the vehicle record among those of a charging message.       *)
VehicleKeys(clean) == DOMAIN clean \cap {"eta"}

(* _process_parallax_data of a message about charging, and of any other.   *)
ParallaxCharging(clean) ==
    /\ ChargingMessage(clean)
    /\ \/ \E k \in VehicleKeys(clean) : ParallaxValue(k, clean[k])
       \/ VehicleKeys(clean) = {} /\ UNCHANGED recordVars
ParallaxVehicle(k, v) == ParallaxValue(k, v) /\ UNCHANGED chargingVars

(* The feeds of the two coordinators, and the streams behind them.         *)
VehicleFeed(K) == (\E f \in Frames(K) : VehicleFrame(f)) /\ UNCHANGED chargingVars
ChargingFeed == SubscriptionFrame /\ UNCHANGED recordVars
Streams == (\E s \in DOMAIN at : Advance(s)) /\ UNCHANGED recordVars

DataNext(K) ==
    \/ VehicleFeed(K) \/ ChargingFeed \/ Streams
    \/ \E clean \in Messages(at["parallax"]) : ParallaxCharging(clean)
    \/ \E k \in {"field", "mileage"} \cap K : \E v \in Decoded(k) : ParallaxVehicle(k, v)

DataSpec == DataInit /\ [][DataNext(RecordKeys)]_dataRecords

-----------------------------------------------------------------------------
(* The two entities of the time to the end of charge, one per record,      *)
(* agree while the subscription has said nothing of it, or nothing usable  *)
(* since Parallax filled it, and the vehicle has not stopped charging      *)
(* since: neither record takes a message that the other misses.            *)
EtaAgrees ==
    Has(parallax, "eta") /\ "eta" \notin cleared
        /\ (reported["eta"] = None \/ filled["eta"] # None)
        => Knows("eta") /\ data["eta"] = parallax["eta"]

(* A key shows what its writer said last, in both records: the             *)
(* subscription's while it has one, Parallax's in the gaps.                *)
OwnerShows ==
    /\ DataTypeOK
    /\ SubscribedValueStands
    /\ GapStaysFilled
    /\ EtaAgrees
=============================================================================
