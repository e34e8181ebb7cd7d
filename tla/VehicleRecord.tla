---------------------------- MODULE VehicleRecord ----------------------------
(***************************************************************************)
(* The vehicle record (VehicleCoordinator.data) and its writers: frames of *)
(* the vehicleState subscription, which name some keys, and Parallax       *)
(* messages.  A key belongs to the subscription once it has reported a     *)
(* usable value for it, and until it reports an unusable one ("fault",     *)
(* "signal_not_available", "undefined"): Parallax only fills the gaps.     *)
(* Four keys stand for all: field for an ordinary one, mileage            *)
(* (vehicleMileage), eta (timeToEndOfCharge) and status (chargerStatus),   *)
(* whose value says whether the vehicle charges.  Histories, which only    *)
(* attributes show, are left out.                                          *)
(***************************************************************************)
EXTENDS Naturals

CONSTANTS Usable,       \* the usable values of a key, numbers
          Charging,     \* the status of a vehicle that charges
          Invalid,      \* a value of INVALID_SENSOR_STATES
          Null,         \* the value None, in {"timeStamp": ..., "value": None}
          None          \* a history without a value

ASSUME RecordAssumption ==
    /\ Usable \subseteq Nat \ {0} /\ Charging \in Usable
    /\ Invalid \notin Nat /\ Null \notin Nat /\ None \notin Nat
    /\ Invalid # Null /\ None \notin {Invalid, Null}

VARIABLES
    data,         \* data: the value of each key the record holds
    owned,        \* _subscription_keys
    reported,     \* history: what the subscription last said of each key
    filled,       \* history: the Parallax value a key the subscription has
                  \* said nothing of since should show
    cleared       \* history: keys a derived value was written to since

recordVars == <<data, owned, reported, filled, cleared>>

RecordKeys == {"field", "mileage", "eta", "status"}
RecordValues == Usable \cup {0, Invalid, Null}

Knows(k) == k \in DOMAIN data

RecordTypeOK ==
    /\ data \in UNION {[K -> RecordValues] : K \in SUBSET RecordKeys}
    /\ owned \subseteq DOMAIN data
    /\ cleared \in SUBSET RecordKeys
    /\ reported \in [RecordKeys -> RecordValues \cup {None}]
    /\ filled \in [RecordKeys -> RecordValues \cup {None}]

RecordInit ==
    /\ data = [k \in {} |-> 0] /\ owned = {} /\ cleared = {}
    /\ reported = [k \in RecordKeys |-> None]
    /\ filled = [k \in RecordKeys |-> None]

-----------------------------------------------------------------------------
NothingInvalid(v) == FALSE   \* mutant: no value is invalid

(* is_invalid_state.                                                       *)
IsInvalid(v) == v = Invalid

UsableIn(f)   == {k \in DOMAIN f : ~IsInvalid(f[k]) /\ f[k] # Null}
UnusableIn(f) == {k \in DOMAIN f : IsInvalid(f[k])}

OwnedAfterForgets(f) == owned \cup UsableIn(f)   \* mutant: no key is freed

(* The keys the subscription owns after the frame f.                       *)
OwnedAfter(f) == (owned \ UnusableIn(f)) \cup UsableIn(f)

(* A vehicle that does not charge has no time to the end of its charge.    *)
StopsCharging(f) == "status" \in DOMAIN f /\ f["status"] # Charging
Items(f) == [k \in DOMAIN f \cup (IF StopsCharging(f) THEN {"eta"} ELSE {}) |->
                IF k = "eta" /\ StopsCharging(f) THEN 0 ELSE f[k]]

MergedOnly(f) == f   \* mutant: a frame replaces the record

MergedOver(f) == [k \in DOMAIN data \cup DOMAIN f |->   \* mutant: whatever it is
                     IF k \in DOMAIN f THEN f[k] ELSE data[k]]

(* The record with the values of f: an invalid one does not replace one    *)
(* the record holds.                                                       *)
Merged(f) ==
    [k \in DOMAIN data \cup DOMAIN f |->
        IF k \notin DOMAIN f \/ (IsInvalid(f[k]) /\ Knows(k)) THEN data[k]
        ELSE f[k]]

(* _build_vehicle_info_dict and its publication, for a frame f of the      *)
(* vehicle or of the tire-pressure subscription.                           *)
VehicleFrame(f) ==
    /\ owned' = OwnedAfter(f)
    /\ data' = Merged(Items(f))
    /\ reported' = [k \in RecordKeys |-> IF k \in DOMAIN f THEN f[k] ELSE reported[k]]
    /\ filled' = [k \in RecordKeys |->
                    IF k \in DOMAIN f /\ f[k] # Invalid THEN None ELSE filled[k]]
    /\ cleared' = IF StopsCharging(f) THEN cleared \cup {"eta"}
                  ELSE cleared \ UsableIn(f)

-----------------------------------------------------------------------------
ForwardAnyhow(v) == TRUE   \* mutant: the odometer may go back

(* vehicleMileage: Parallax counts in whole kilometres, and never back.    *)
(* When the record holds no number the comparison raises, which ends the   *)
(* receiver that runs the callback (WsMonitor, ReceiverFails).             *)
Forward(v) ==
    LET known == IF Knows("mileage") THEN data["mileage"] ELSE 0
    IN  known \in Nat /\ v >= known

OwnedNever(k) == FALSE   \* mutant: Parallax does not look who owns the key

OwnedHere(k) == k \in owned

(* _process_parallax_data, for the value v of one decoded key k.  The      *)
(* history: a key that the subscription leaves open is to show v.          *)
Refused(k, v) == OwnedHere(k) \/ (k = "mileage" /\ ~Forward(v))

ParallaxValue(k, v) ==
    /\ \/ Refused(k, v) /\ UNCHANGED data
       \/ ~Refused(k, v) /\ data' = Merged([j \in {k} |-> v])
    /\ \/ /\ reported[k] \in {None, Invalid} /\ ~IsInvalid(v)
          /\ k = "mileage" => Forward(v)
          /\ filled' = [filled EXCEPT ![k] = v] /\ cleared' = cleared \ {k}
       \/ /\ \/ reported[k] \notin {None, Invalid} \/ IsInvalid(v)
             \/ k = "mileage" /\ ~Forward(v)
          /\ UNCHANGED <<filled, cleared>>
    /\ UNCHANGED <<owned, reported>>

-----------------------------------------------------------------------------
(* What the server and the vehicle may send.                               *)
Frames(K) == UNION {[J -> Usable \cup {Invalid, Null}] : J \in SUBSET K \ {{}}}
Decoded(k) == IF k = "field" THEN Usable \cup {Invalid} ELSE Usable

RecordNext(K) ==
    \/ \E f \in Frames(K) : VehicleFrame(f)
    \/ \E k \in K \ {"status"} : \E v \in Decoded(k) : ParallaxValue(k, v)

RecordSpec == RecordInit /\ [][RecordNext(RecordKeys)]_recordVars

-----------------------------------------------------------------------------
(* What the subscription reported stands: whatever Parallax sends, a key   *)
(* shows the last value the subscription gave it, if that was usable.      *)
SubscribedValueStands ==
    \A k \in RecordKeys \ cleared : reported[k] \in Usable => data[k] = reported[k]

(* A key the subscription leaves open, having said nothing of it or last   *)
(* nothing usable, shows the last usable value Parallax gave it: ownership *)
(* ends with the invalid frame, and a later one overwrites nothing.        *)
GapStaysFilled ==
    \A k \in RecordKeys \ cleared : filled[k] # None => data[k] = filled[k]

(* Once a key has shown a usable value it never shows an invalid one.      *)
NeverBackToInvalid ==
    [][\A k \in RecordKeys :
         Knows(k) /\ data[k] \in Usable => data'[k] # Invalid]_recordVars

(* Only the subscription may turn the mileage back: utility meters read it.*)
MileageForward ==
    [][LET shown(d) == IF "mileage" \in DOMAIN d THEN d["mileage"] ELSE 0
       IN  shown(data) \in Nat => \/ reported' # reported
                                  \/ shown(data') \in Nat /\ shown(data') >= shown(data)
      ]_recordVars

(* A usable value is not followed by an invalid one, though a frame with a *)
(* null takes it back, and Parallax, whose messages may be late, does not  *)
(* turn the mileage back.                                                  *)
NeverBack ==
    /\ NeverBackToInvalid
    /\ MileageForward
=============================================================================
