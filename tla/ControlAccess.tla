---------------------------- MODULE ControlAccess ----------------------------
(***************************************************************************)
(* When Home Assistant offers a control of the vehicle (entity.py, with    *)
(* connectivity.py).  Three feeds meet: frames of the vehicle's record,    *)
(* frames of its connection to the cloud, and the poll of the drivers'     *)
(* phones.  The first two make Home Assistant ask the entity again; the    *)
(* poll only changes the flag that the next answer uses.                   *)
(***************************************************************************)

CONSTANT Unsaid    \* what nobody has said yet, and a null

ASSUME AccessAssumption == Unsaid \notin BOOLEAN /\ Unsaid \notin {"sleep", "standby"}

Controls == {"lock", "wake", "drop_tailgate"}

VARIABLES
    control,    \* the control of this behaviour
    zoned,      \* the options name zones where controls are offered
    online,     \* VehicleCoordinator._is_online
    told,     \* the keys of its data that availability reads
    drivers,    \* what the cloud knows of the phone: "paired", "unpaired", "gone"
    known,      \* what the drivers' coordinator last read of it
    available,  \* the entity's _available
    stage,      \* "adding", "added" or "refused" by Home Assistant
    shown,      \* Home Assistant offers the control
    late        \* history: the poll changed the flag since it was last asked

accessVars == <<control, zoned, online, told, drivers, known, available, stage, shown, late>>

Record == [power : {Unsaid, "sleep", "standby", "go"}, gear : {Unsaid, "park", "drive"},
           tailgate : {Unsaid, "open", "closed"}, location : {Unsaid, "inside", "outside"}]

PhoneStates == {"paired", "unpaired", "gone"}

AccessTypeOK ==
    /\ control \in Controls /\ zoned \in BOOLEAN
    /\ online \in BOOLEAN \cup {Unsaid} /\ told \in Record
    /\ {drivers, known} \subseteq PhoneStates
    /\ {available, shown, late} \subseteq BOOLEAN
    /\ stage \in {"adding", "added", "refused"}
    /\ shown => stage = "added"

SilenceIsOffline(o, p) ==   \* mutant: a vehicle never heard of is out of reach
    IF o = TRUE THEN IF p = "sleep" THEN "sleeping" ELSE "online"
    ELSE IF p \in {"sleep", "standby"} THEN "sleeping" ELSE "offline"

(* derive_connectivity_state.                                              *)
Connectivity(o, p) ==
    IF o \in {TRUE, Unsaid} THEN (IF p = "sleep" THEN "sleeping" ELSE "online")
    ELSE IF p \in {"sleep", "standby"} THEN "sleeping" ELSE "offline"

(* The descriptions' own conditions.                                       *)
ControlAllows(o, r) ==
    CASE control = "wake"          -> Connectivity(o, r.power) = "sleeping"
      [] control = "drop_tailgate" -> r.tailgate # "open"
      [] OTHER                     -> TRUE

(* RivianVehicleControlEntity.available, but for the flag.                 *)
Reached(o, r) ==
    /\ Connectivity(o, r.power) # "offline"
    /\ r.gear = "park"
    /\ ControlAllows(o, r)
    /\ zoned => r.location = "inside"

Available(o, r, flag) == flag /\ Reached(o, r)

(* Home Assistant asks the entity again and shows what it says.            *)
Writes(o, r, flag) == shown' = (stage' = "added" /\ Available(o, r, flag)) /\ late' = FALSE

AccessInit ==
    /\ control \in Controls /\ zoned \in BOOLEAN
    /\ online = Unsaid /\ told = [k \in DOMAIN CHOOSE r \in Record : TRUE |-> Unsaid]
    /\ drivers \in PhoneStates /\ known = drivers
    /\ available = TRUE /\ stage = "adding" /\ shown = FALSE /\ late = FALSE

StaysOnceTrue ==   \* mutant: a pairing that is lost is not noticed
    available' = (available \/ known' = "paired")

HandsOnNull ==   \* mutant: a phone that is not listed sets the flag to its null
    available' = IF known' = "gone" THEN Unsaid ELSE known' = "paired"

(* _handle_driver_update: it raises when the phone is not listed, before   *)
(* it assigns.                                                             *)
HandleDriverUpdate ==
    available' = IF known' = "gone" THEN available ELSE known' = "paired"

(* async_added_to_hass: an entity whose handler raises is not added.       *)
AddedToHass ==
    /\ stage = "adding"
    /\ known' = known /\ HandleDriverUpdate
    /\ stage' = IF known = "gone" THEN "refused" ELSE "added"
    /\ Writes(online, told, available')
    /\ UNCHANGED <<control, zoned, online, told, drivers>>

TellsOfLossOnly(o) ==   \* mutant: only a connection that is lost is told
    /\ UNCHANGED <<control, zoned, told, drivers, known, available, stage>>
    /\ online' = o
    /\ IF o = FALSE /\ online # o THEN Writes(o, told, available) ELSE UNCHANGED <<shown, late>>

(* _process_cloud_connection_data: the listeners are told of a change.     *)
CloudConnection(o) ==
    /\ UNCHANGED <<control, zoned, told, drivers, known, available, stage>>
    /\ online' = o
    /\ IF online # o THEN Writes(o, told, available) ELSE UNCHANGED <<shown, late>>

(* A frame of the vehicle always updates the listeners.                    *)
VehicleFrame(r) ==
    /\ UNCHANGED <<control, zoned, online, drivers, known, available, stage>>
    /\ told' = r
    /\ Writes(online, r, available)

(* Outside: the owner pairs the phone, unpairs it, or removes it.          *)
PhoneChanges ==
    /\ drivers' \in PhoneStates \ {drivers}
    /\ UNCHANGED <<control, zoned, online, told, known, available, stage, shown, late>>

(* The drivers' coordinator polls, and runs the entity's listener.         *)
DriversPolled ==
    /\ known' = drivers
    /\ IF stage = "added" THEN HandleDriverUpdate ELSE UNCHANGED available
    /\ late' = (late \/ available' # available)
    /\ UNCHANGED <<control, zoned, online, told, drivers, stage, shown>>

(* The keys that this control reads: the others change nothing here.       *)
KeysRead == {"power", "gear"} \cup (IF zoned THEN {"location"} ELSE {})
                              \cup (IF control = "drop_tailgate" THEN {"tailgate"} ELSE {})

FrameArrives == \E k \in KeysRead : \E v \in {r[k] : r \in Record} \ {Unsaid} :
            VehicleFrame([told EXCEPT ![k] = v])

AccessNext ==
    \/ AddedToHass \/ PhoneChanges \/ DriversPolled \/ FrameArrives
    \/ \E o \in BOOLEAN \cup {Unsaid} : CloudConnection(o)

AccessSpec == AccessInit /\ [][AccessNext]_accessVars

(* Home Assistant adds the entity, the poll repeats, frames keep coming.   *)
AccessFairness == WF_accessVars(AddedToHass) /\ WF_accessVars(DriversPolled) /\ WF_accessVars(FrameArrives)

-----------------------------------------------------------------------------

(* What Home Assistant shows is what the entity would answer now, whatever *)
(* feed spoke last, but for a pairing the poll saw and no frame followed   *)
(* (_handle_driver_update writes no state).                                *)
ShownAsReached ==
    stage = "added" /\ ~late => shown = Available(online, told, available)

(* A parked vehicle of which the cloud has said nothing keeps its controls *)
(* (tests/test_connectivity.py:54); one that it says is gone keeps them    *)
(* only asleep, wake with them; one that is awake in standby has no wake.  *)
OfferedWhileItMayAnswer ==
    stage = "added" /\ ~late /\ available /\ told.gear = "park" /\ ~zoned =>
    /\ control = "lock" /\ online = Unsaid => shown
    /\ online = FALSE /\ told.power \in {"go", Unsaid} => ~shown
    /\ control = "wake" /\ told.power = "standby" => (shown <=> online = FALSE)

(* A pairing that stays lost ends by hiding a control it offered, and one  *)
(* that stays made ends by offering it, while the vehicle can be reached.  *)
(* A phone no longer listed changes nothing: the handler raises.           *)
PairingFollows ==
    /\ <>[](drivers = "unpaired") => <>[](stage = "added" => ~shown)
    /\ <>[](drivers = "paired" /\ Reached(online, told)) => <>[](stage = "added" => shown)

(* A control is offered as the feeds that spoke last have it: while the    *)
(* vehicle may answer, and silence is no reason to hide it.                *)
OfferedAsReached ==
    /\ AccessTypeOK
    /\ ShownAsReached
    /\ OfferedWhileItMayAnswer
=============================================================================
