------------------------ MODULE CoordinatorDataProofs ------------------------
(***************************************************************************)
(* Theorems about the two records of a vehicle, for any usable values and  *)
(* any number of charging sessions.                                        *)
(***************************************************************************)
EXTENDS CoordinatorData, TLAPS

(* A record is a function whose keys and values are known.                 *)
LEMMA RecordFunction ==
    ASSUME NEW S, NEW V, NEW f
    PROVE  f \in UNION {[K -> V] : K \in SUBSET S}
             <=> /\ DOMAIN f \in SUBSET S
                 /\ f = [k \in DOMAIN f |-> f[k]]
                 /\ \A k \in DOMAIN f : f[k] \in V
<1>1. ASSUME NEW K \in SUBSET S, f \in [K -> V]
      PROVE  /\ DOMAIN f \in SUBSET S
             /\ f = [k \in DOMAIN f |-> f[k]]
             /\ \A k \in DOMAIN f : f[k] \in V
  BY <1>1
<1>2. ASSUME DOMAIN f \in SUBSET S, f = [k \in DOMAIN f |-> f[k]],
             \A k \in DOMAIN f : f[k] \in V
      PROVE  f \in [DOMAIN f -> V]
  BY <1>2
<1> QED
  BY <1>1, <1>2

(* What the server and the vehicle send has values the record may hold.    *)
LEMMA FrameType ==
    ASSUME NEW f \in Frames(RecordKeys)
    PROVE  /\ DOMAIN f \in SUBSET RecordKeys
           /\ f = [k \in DOMAIN f |-> f[k]]
           /\ \A k \in DOMAIN f : f[k] \in Usable \cup {Invalid, Null}
  BY RecordFunction DEF Frames

(* What a frame writes: nothing is shown that the record may not hold, a   *)
(* key that is known stays known, and an invalid value replaces none.      *)
LEMMA MergedType ==
    ASSUME RecordTypeOK, NEW f, DOMAIN f \in SUBSET RecordKeys,
           \A k \in DOMAIN f : f[k] \in RecordValues
    PROVE  /\ Merged(f) \in UNION {[K -> RecordValues] : K \in SUBSET RecordKeys}
           /\ DOMAIN Merged(f) = DOMAIN data \cup DOMAIN f
<1> DEFINE m == Merged(f)
<1>1. data \in UNION {[K -> RecordValues] : K \in SUBSET RecordKeys}
  BY DEF RecordTypeOK
<1>2. DOMAIN data \in SUBSET RecordKeys /\ \A k \in DOMAIN data : data[k] \in RecordValues
  BY <1>1, RecordFunction
<1>3. /\ DOMAIN m = DOMAIN data \cup DOMAIN f
      /\ m = [k \in DOMAIN m |-> m[k]]
      /\ \A k \in DOMAIN m : m[k] \in RecordValues
  BY <1>2 DEF Merged, Knows
<1>4. DOMAIN m \in SUBSET RecordKeys
  BY <1>2, <1>3
<1> HIDE DEF m
<1>5. m \in UNION {[K -> RecordValues] : K \in SUBSET RecordKeys}
  BY <1>3, <1>4, RecordFunction
<1> QED
  BY <1>3, <1>5 DEF m

-----------------------------------------------------------------------------
(* The vehicle record.  What the histories remember of a key decides who   *)
(* owns it: the subscription while it last gave a usable value, nobody     *)
(* while it gave none or an invalid one.                                   *)
OwnerIsLastUsable ==
    \A k \in RecordKeys : /\ reported[k] \in Usable => k \in owned
                          /\ reported[k] \in {None, Invalid} => k \notin owned
(* A value Parallax is to show is one of a key the subscription left open. *)
FilledIsGap ==
    \A k \in RecordKeys : filled[k] # None => reported[k] \in {None, Invalid}
(* What was reported is known, and a null mileage stays until a number     *)
(* comes: the comparison with an odometer raises.                          *)
ReportedIsKnown ==
    /\ \A k \in RecordKeys : reported[k] # None => Knows(k)
    /\ reported["mileage"] = Null => data["mileage"] = Null
(* The two properties, for keys that the record knows.                     *)
Stands == \A k \in RecordKeys \ cleared :
             reported[k] \in Usable => Knows(k) /\ data[k] = reported[k]
GapsKnown == \A k \in RecordKeys \ cleared :
                filled[k] # None => Knows(k) /\ data[k] = filled[k]
RecordInv == /\ RecordTypeOK /\ cleared \subseteq {"eta"}
             /\ OwnerIsLastUsable /\ FilledIsGap /\ ReportedIsKnown
             /\ Stands /\ GapsKnown

LEMMA FrameKeepsRecord ==
    ASSUME RecordInv, NEW f \in Frames(RecordKeys), VehicleFrame(f)
    PROVE  RecordInv'
<1> USE RecordAssumption DEF RecordAssumption
<1> DEFINE g == Items(f)
<1>1. /\ DOMAIN f \in SUBSET RecordKeys
      /\ \A k \in DOMAIN f : f[k] \in Usable \cup {Invalid, Null}
  BY FrameType
<1>2. /\ DOMAIN g = DOMAIN f \cup (IF StopsCharging(f) THEN {"eta"} ELSE {})
      /\ \A k \in DOMAIN g : g[k] = IF k = "eta" /\ StopsCharging(f) THEN 0 ELSE f[k]
  BY DEF Items
<1>3. DOMAIN g \in SUBSET RecordKeys /\ \A k \in DOMAIN g : g[k] \in RecordValues
  BY <1>1, <1>2 DEF RecordKeys, RecordValues
<1> HIDE DEF g
<1>4. data' = Merged(g)
  BY DEF VehicleFrame, g
<1>5. /\ data' \in UNION {[K -> RecordValues] : K \in SUBSET RecordKeys}
      /\ DOMAIN data' = DOMAIN data \cup DOMAIN g
  BY <1>3, <1>4, MergedType DEF RecordInv
<1>6. \A k \in DOMAIN data \cup DOMAIN g :
         data'[k] = IF k \notin DOMAIN g \/ (IsInvalid(g[k]) /\ Knows(k)) THEN data[k]
                    ELSE g[k]
  BY <1>4 DEF Merged
<1>7. /\ owned' = (owned \ {k \in DOMAIN f : f[k] = Invalid})
                    \cup {k \in DOMAIN f : f[k] # Invalid /\ f[k] # Null}
      /\ reported' = [k \in RecordKeys |-> IF k \in DOMAIN f THEN f[k] ELSE reported[k]]
      /\ filled' = [k \in RecordKeys |->
                      IF k \in DOMAIN f /\ f[k] # Invalid THEN None ELSE filled[k]]
      /\ cleared' = IF StopsCharging(f) THEN cleared \cup {"eta"}
                    ELSE cleared \ {k \in DOMAIN f : f[k] # Invalid /\ f[k] # Null}
  BY DEF VehicleFrame, OwnedAfter, UsableIn, UnusableIn, IsInvalid
<1>8. RecordTypeOK' /\ (cleared \subseteq {"eta"})'
  BY <1>1, <1>2, <1>5, <1>7 DEF RecordInv, RecordTypeOK, RecordValues, RecordKeys
<1>9. OwnerIsLastUsable' /\ FilledIsGap'
  BY <1>1, <1>7 DEF RecordInv, OwnerIsLastUsable, FilledIsGap, RecordTypeOK
<1>10. ReportedIsKnown'
  BY <1>1, <1>2, <1>5, <1>6, <1>7
     DEF RecordInv, ReportedIsKnown, RecordTypeOK, Knows, RecordKeys, IsInvalid
<1>11. Stands'
  <2> SUFFICES ASSUME NEW k \in RecordKeys, k \notin cleared', reported'[k] \in Usable
               PROVE  k \in DOMAIN data' /\ data'[k] = reported'[k]
    BY DEF Stands, Knows
  <2>1. CASE k \in DOMAIN f
    BY <1>2, <1>5, <1>6, <1>7, <2>1 DEF IsInvalid
  <2>2. CASE k \notin DOMAIN f
    <3>1. k \notin DOMAIN g /\ k \notin cleared /\ reported[k] \in Usable
      BY <1>2, <1>7, <2>2
    <3> QED
      BY <1>5, <1>6, <1>7, <2>2, <3>1 DEF RecordInv, Stands, Knows
  <2> QED
    BY <2>1, <2>2
<1>12. GapsKnown'
  BY <1>1, <1>2, <1>5, <1>6, <1>7
     DEF RecordInv, GapsKnown, RecordTypeOK, Knows, RecordKeys, IsInvalid
<1> QED
  BY <1>8, <1>9, <1>10, <1>11, <1>12 DEF RecordInv

LEMMA ParallaxKeepsRecord ==
    ASSUME RecordInv, NEW k \in RecordKeys, NEW v \in Usable \cup {Invalid},
           v = Invalid => k = "field",
           ParallaxValue(k, v)
    PROVE  RecordInv'
<1> USE RecordAssumption DEF RecordAssumption
<1> DEFINE one == [j \in {k} |-> v]
<1>1. DOMAIN one = {k} /\ one[k] = v
  OBVIOUS
<1>2. Merged(one) = [j \in DOMAIN data \cup {k} |->
                       IF j # k \/ (v = Invalid /\ Knows(k)) THEN data[j] ELSE v]
  BY <1>1 DEF Merged, IsInvalid
<1>3. /\ Merged(one) \in UNION {[K -> RecordValues] : K \in SUBSET RecordKeys}
      /\ DOMAIN Merged(one) = DOMAIN data \cup {k}
  BY <1>1, MergedType DEF RecordInv, RecordValues
<1> HIDE DEF one
<1>4. /\ reported' = reported /\ owned' = owned
      /\ data' = IF Refused(k, v) THEN data ELSE Merged(one)
  BY DEF ParallaxValue, one
<1>5. \/ /\ reported[k] \in {None, Invalid} /\ v # Invalid /\ ~Refused(k, v)
         /\ filled' = [filled EXCEPT ![k] = v] /\ cleared' = cleared \ {k}
      \/ /\ \/ reported[k] \notin {None, Invalid} \/ v = Invalid \/ Refused(k, v)
         /\ UNCHANGED <<filled, cleared>>
  BY DEF ParallaxValue, Refused, OwnedHere, RecordInv, OwnerIsLastUsable, IsInvalid
<1>6. RecordTypeOK' /\ (cleared \subseteq {"eta"})'
  <2>1. /\ data' \in UNION {[K -> RecordValues] : K \in SUBSET RecordKeys}
        /\ owned' \subseteq DOMAIN data'
    BY <1>3, <1>4 DEF RecordInv, RecordTypeOK
  <2>2. /\ reported' \in [RecordKeys -> RecordValues \cup {None}]
        /\ filled' \in [RecordKeys -> RecordValues \cup {None}]
        /\ cleared' \in SUBSET RecordKeys /\ cleared' \subseteq {"eta"}
    <3>1. /\ reported \in [RecordKeys -> RecordValues \cup {None}]
          /\ filled \in [RecordKeys -> RecordValues \cup {None}]
          /\ cleared \in SUBSET RecordKeys /\ cleared \subseteq {"eta"}
          /\ v \in RecordValues
      BY DEF RecordInv, RecordTypeOK, RecordValues
    <3>2. filled' \in {filled, [filled EXCEPT ![k] = v]}
          /\ cleared' \in {cleared, cleared \ {k}}
      BY <1>5
    <3> QED
      BY <1>4, <3>1, <3>2
  <2> QED
    BY <2>1, <2>2 DEF RecordTypeOK
<1>7. OwnerIsLastUsable' /\ FilledIsGap'
  BY <1>4, <1>5 DEF RecordInv, OwnerIsLastUsable, FilledIsGap, RecordTypeOK
<1>8. reported[k] \in Usable => Refused(k, v)
  BY DEF RecordInv, OwnerIsLastUsable, Refused, OwnedHere
<1>9. k = "mileage" /\ reported[k] = Null => Refused(k, v)
  BY DEF RecordInv, ReportedIsKnown, Refused, Forward
<1>10. ReportedIsKnown'
  BY <1>2, <1>4, <1>9 DEF RecordInv, ReportedIsKnown, RecordTypeOK, Knows, RecordKeys
<1>11. Stands'
  BY <1>2, <1>4, <1>5, <1>8 DEF RecordInv, Stands, RecordTypeOK, Knows
<1>12. GapsKnown'
  BY <1>2, <1>4, <1>5 DEF RecordInv, GapsKnown, FilledIsGap, RecordTypeOK, Knows
<1> QED
  BY <1>6, <1>7, <1>10, <1>11, <1>12 DEF RecordInv

-----------------------------------------------------------------------------
(* The charging record.                                                    *)
LEMMA SessionOrder ==
    ASSUME NEW p \in Nat, NEW q \in Nat, p <= q
    PROVE  Session(p) \in Nat /\ Session(q) \in Nat /\ Session(p) <= Session(q)
  BY DEF Session

(* A message about charging: what it says is of its own phase, its start   *)
(* does not come with the energy, and a time to the end comes alone.       *)
LEMMA MessageType ==
    ASSUME NEW p \in 0 .. LastPhase, NEW clean \in Messages(p)
    PROVE  /\ DOMAIN clean \in SUBSET Keys
           /\ \A k \in DOMAIN clean : /\ clean[k] \in Values \ {Invented}
                                      /\ k # "power" => clean[k] = Session(p)
           /\ Has(clean, "startTime") => ~Has(clean, "energy")
           /\ Has(clean, "eta") => DOMAIN clean = {"eta"} /\ p # 0
<1> USE ChargingAssumption DEF ChargingAssumption
<1>1. 0 \in Values /\ Session(p) \in Values /\ Session(p) # Invented /\ 0 # Invented
  <2>1. Session(0) = 0
    BY DEF Session
  <2>2. Session(p) \in Nat
    BY SessionOrder
  <2>3. 0 \in 0 .. LastPhase
    OBVIOUS
  <2> QED
    BY <2>1, <2>2, <2>3 DEF Values
<1>2. Session(p) # 0 => p # 0
  BY DEF Session
<1> DEFINE power == [k \in {"power"} |-> IF IsCharging(p) THEN Session(p) ELSE 0]
           about(k) == [j \in {k} |-> Session(p)]
<1>3. \/ clean = power
      \/ Session(p) # 0 /\ clean = Joined(power, about("startTime"))
      \/ Session(p) # 0 /\ clean = Joined(power, about("energy"))
      \/ Session(p) # 0 /\ clean = about("eta")
  BY DEF Messages
<1>4. CASE clean = power
  BY <1>1, <1>4 DEF Has, Keys
<1>5. CASE clean = Joined(power, about("startTime"))
  BY <1>1, <1>5 DEF Has, Keys, Joined
<1>6. CASE clean = Joined(power, about("energy"))
  BY <1>1, <1>6 DEF Has, Keys, Joined
<1>7. CASE Session(p) # 0 /\ clean = about("eta")
  BY <1>1, <1>2, <1>7 DEF Has, Keys
<1> QED
  BY <1>3, <1>4, <1>5, <1>6, <1>7

LEMMA IsRecord ==
    ASSUME NEW f
    PROVE  f \in Records <=> /\ DOMAIN f \in SUBSET Keys
                             /\ f = [k \in DOMAIN f |-> f[k]]
                             /\ \A k \in DOMAIN f : f[k] \in Values
<1>1. f \in UNION {[K -> Values] : K \in SUBSET Keys}
        <=> /\ DOMAIN f \in SUBSET Keys
            /\ f = [k \in DOMAIN f |-> f[k]]
            /\ \A k \in DOMAIN f : f[k] \in Values
  BY RecordFunction
<1> QED
  BY <1>1 DEF Records

(* Joining two records gives a record, in which the second one wins.       *)
LEMMA JoinedType ==
    ASSUME NEW r \in Records, NEW s \in Records
    PROVE  /\ Joined(r, s) \in Records
           /\ DOMAIN Joined(r, s) = DOMAIN r \cup DOMAIN s
           /\ \A k \in DOMAIN r \cup DOMAIN s :
                 Joined(r, s)[k] = IF k \in DOMAIN s THEN s[k] ELSE r[k]
<1> DEFINE j == Joined(r, s)
<1>1. /\ DOMAIN r \in SUBSET Keys /\ \A k \in DOMAIN r : r[k] \in Values
      /\ DOMAIN s \in SUBSET Keys /\ \A k \in DOMAIN s : s[k] \in Values
  BY IsRecord
<1>2. /\ DOMAIN j = DOMAIN r \cup DOMAIN s
      /\ j = [k \in DOMAIN j |-> j[k]]
      /\ \A k \in DOMAIN r \cup DOMAIN s : j[k] = IF k \in DOMAIN s THEN s[k] ELSE r[k]
  BY DEF Joined
<1>3. DOMAIN j \in SUBSET Keys /\ \A k \in DOMAIN j : j[k] \in Values
  BY <1>1, <1>2
<1> HIDE DEF j
<1>4. j \in Records
  BY <1>2, <1>3, IsRecord
<1> QED
  BY <1>2, <1>4 DEF j

LEMMA ResolvedType ==
    ASSUME NEW sub \in Records, NEW par \in Records, NEW syn \in BOOLEAN
    PROVE  /\ Resolved(sub, par, syn) \in Records
           /\ DOMAIN Resolved(sub, par, syn) = DOMAIN sub \cup DOMAIN par
           /\ Has(sub, "startTime") =>
                Resolved(sub, par, syn)["startTime"] =
                   IF ~syn /\ Has(par, "startTime") THEN par["startTime"]
                   ELSE sub["startTime"]
<1> DEFINE both == Joined(sub, par)
<1>1. /\ both \in Records /\ DOMAIN both = DOMAIN sub \cup DOMAIN par
      /\ \A k \in DOMAIN sub \cup DOMAIN par :
            both[k] = IF k \in DOMAIN par THEN par[k] ELSE sub[k]
  BY JoinedType, Zenon
<1> HIDE DEF both
<1>2. CASE syn /\ Has(sub, "startTime")
  <2> DEFINE res == [both EXCEPT !["startTime"] = sub["startTime"]]
  <2>1. DOMAIN both \in SUBSET Keys /\ \A k \in DOMAIN both : both[k] \in Values
    BY <1>1, IsRecord
  <2>2. sub["startTime"] \in Values
    BY <1>2, IsRecord DEF Has
  <2>3. /\ DOMAIN res = DOMAIN both /\ res = [k \in DOMAIN res |-> res[k]]
        /\ \A k \in DOMAIN res : res[k] \in Values
        /\ res["startTime"] = sub["startTime"]
    BY <1>1, <1>2, <2>1, <2>2 DEF Has
  <2> HIDE DEF res
  <2>4. res \in Records
    BY <1>1, <2>1, <2>3, IsRecord
  <2> QED
    BY <1>1, <1>2, <2>3, <2>4 DEF Resolved, both, res
<1>3. CASE ~(syn /\ Has(sub, "startTime"))
  BY <1>1, <1>3 DEF Resolved, both, Has
<1> QED
  BY <1>2, <1>3

(* The start time that Parallax reported is one its stream has reached; an *)
(* invented one is marked, or was orphaned by an empty list of sessions;   *)
(* the subscription never invents.                                         *)
StartReached ==
    Has(parallax, "startTime") /\ parallax["startTime"] # Invented
        => parallax["startTime"] \in Nat /\ parallax["startTime"] <= Session(at["parallax"])
InventedIsMarked ==
    Has(parallax, "startTime") /\ parallax["startTime"] = Invented => synthetic \/ orphaned
NothingInvented == Has(subscription, "startTime") => subscription["startTime"] # Invented
ShownIsResolved == shown = Resolved(subscription, parallax, synthetic)
ChargingInv == /\ ChargingTypeOK /\ StartReached /\ InventedIsMarked
               /\ NothingInvented /\ ShownIsResolved /\ NoOlderMetric

LEMMA InvImpliesSession == ChargingInv => SessionShown
<1> SUFFICES ASSUME ChargingInv PROVE RealStartWins
  BY DEF ChargingInv, SessionShown
<1>1. Has(subscription, "startTime") =>
         shown["startTime"] = IF ~synthetic /\ Has(parallax, "startTime")
                              THEN parallax["startTime"] ELSE subscription["startTime"]
  BY ResolvedType DEF ChargingInv, ChargingTypeOK, ShownIsResolved
<1> QED
  BY <1>1 DEF ChargingInv, InventedIsMarked, NothingInvented, RealStartWins

(* Time in the streams only goes on.                                       *)
LEMMA AdvanceKeeps ==
    ASSUME ChargingInv, NEW s \in DOMAIN at, Advance(s)
    PROVE  ChargingInv'
<1> USE ChargingAssumption DEF ChargingAssumption
<1>1. /\ at' \in [{"subscription", "parallax"} -> 0 .. LastPhase]
      /\ at["parallax"] \in Nat /\ at'["parallax"] \in Nat
      /\ at["parallax"] <= at'["parallax"]
      /\ UNCHANGED dataVars
  BY DEF Advance, ChargingInv, ChargingTypeOK
<1>2. /\ Session(at["parallax"]) \in Nat /\ Session(at'["parallax"]) \in Nat
      /\ Session(at["parallax"]) <= Session(at'["parallax"])
  BY <1>1, SessionOrder
<1>3. ChargingTypeOK'
  BY <1>1 DEF ChargingInv, ChargingTypeOK, dataVars
<1>4. StartReached'
  BY <1>1, <1>2 DEF ChargingInv, StartReached, dataVars, Has
<1> QED
  BY <1>1, <1>3, <1>4
     DEF ChargingInv, InventedIsMarked, NothingInvented, ShownIsResolved,
         NoOlderMetric, dataVars, Has

LEMMA EmptyRecord == Empty \in Records /\ DOMAIN Empty = {}
<1>1. DOMAIN Empty = {} /\ Empty = [k \in DOMAIN Empty |-> Empty[k]]
  BY DEF Empty
<1> QED
  BY <1>1, IsRecord

LEMMA SnapshotKeeps ==
    ASSUME ChargingInv, SubscriptionFrame
    PROVE  ChargingInv'
<1> USE ChargingAssumption DEF ChargingAssumption
<1>1. at["subscription"] \in 0 .. LastPhase
  BY DEF ChargingInv, ChargingTypeOK
<1>2. Session(at["subscription"]) \in Values /\ Session(at["subscription"]) # Invented
  BY <1>1, SessionOrder DEF Values
<1>3. ASSUME NEW f \in SnapshotsAt(at["subscription"])
      PROVE  f \in Records /\ (Has(f, "startTime") => f["startTime"] # Invented)
  <2>1. CASE f = Empty
    BY <2>1, EmptyRecord DEF Has
  <2>2. ASSUME NEW K \in SUBSET {"startTime", "energy"},
               f = [k \in K |-> Session(at["subscription"])]
        PROVE  f \in Records /\ (Has(f, "startTime") => f["startTime"] # Invented)
    <3>1. /\ DOMAIN f = K /\ K \in SUBSET Keys
          /\ \A k \in K : f[k] = Session(at["subscription"])
          /\ f = [k \in DOMAIN f |-> f[k]]
      BY <2>2 DEF Keys
    <3> QED
      BY <1>2, <3>1, IsRecord DEF Has
  <2> QED
    BY <2>1, <2>2 DEF SnapshotsAt
<1>4. /\ UNCHANGED <<parallax, at, adopted>>
      /\ subscription' \in Records /\ synthetic' \in BOOLEAN /\ orphaned' \in BOOLEAN
      /\ shown' = Resolved(subscription', parallax', synthetic')
      /\ Has(subscription', "startTime") => subscription'["startTime"] # Invented
      /\ InventedIsMarked'
  <2>1. CASE NoSession
    BY <2>1, EmptyRecord
       DEF SubscriptionFrame, NoSession, Publish, ChargingInv, ChargingTypeOK,
           InventedIsMarked, Has
  <2>2. ASSUME NEW f \in SnapshotsAt(at["subscription"]), Snapshot(f)
        PROVE  <1>4!:
    BY <1>3, <2>2
       DEF SubscriptionFrame, Snapshot, Publish, ChargingInv, ChargingTypeOK,
           InventedIsMarked, Has
  <2> QED
    BY <2>1, <2>2 DEF SubscriptionFrame
<1>5. shown' \in Records
  BY <1>4, ResolvedType DEF ChargingInv, ChargingTypeOK
<1> QED
  BY <1>4, <1>5
     DEF ChargingInv, ChargingTypeOK, StartReached, InventedIsMarked, NothingInvented,
         ShownIsResolved, NoOlderMetric, Has

(* A Parallax message: of the records, only that of Parallax changes.      *)
LEMMA MessageKeeps ==
    ASSUME ChargingInv, NEW clean \in Messages(at["parallax"]), ChargingMessage(clean)
    PROVE  /\ ChargingInv'
           /\ Has(parallax', "eta") =>
                 \/ Has(clean, "eta") /\ parallax'["eta"] = clean["eta"]
                 \/ /\ ~Has(clean, "eta")
                    /\ Has(parallax, "eta") /\ parallax'["eta"] = parallax["eta"]
<1> USE ChargingAssumption DEF ChargingAssumption
<1> DEFINE now == Session(at["parallax"])
           old == IF Has(clean, "startTime") /\ IsNewSession(clean) THEN Empty ELSE parallax
           base == Joined(old, clean)
           made == [k \in {"startTime"} |-> Invented]
           real == /\ Has(clean, "startTime") /\ parallax' = base /\ synthetic' = FALSE
                   /\ adopted' = (IF IsNewSession(clean) THEN FALSE
                                  ELSE adopted \/ (synthetic /\ Has(parallax, "energy"))
                                               \/ (~Has(parallax, "startTime")
                                                   /\ Has(parallax, "energy")))
           invents == /\ ~Has(clean, "startTime") /\ ~Has(parallax, "startTime")
                      /\ parallax' = Joined(base, made) /\ synthetic' = TRUE
                      /\ UNCHANGED adopted
           plain == /\ ~Has(clean, "startTime") /\ parallax' = base
                    /\ UNCHANGED <<synthetic, adopted>>
<1>1. real \/ invents \/ plain
  BY DEF ChargingMessage, UpdateFromParallax, Publish
<1>2. /\ UNCHANGED <<subscription, at>>
      /\ shown' = Resolved(subscription', parallax', synthetic')
      /\ orphaned' = (orphaned /\ Has(parallax', "startTime")
                               /\ parallax'["startTime"] = Invented)
  BY DEF ChargingMessage, UpdateFromParallax, Publish
<1>3. at["parallax"] \in 0 .. LastPhase /\ at["parallax"] \in Nat /\ now \in Nat
  BY SessionOrder DEF ChargingInv, ChargingTypeOK
<1>4. /\ DOMAIN clean \in SUBSET Keys
      /\ \A k \in DOMAIN clean : clean[k] \in Values \ {Invented}
      /\ \A k \in {"startTime", "energy", "eta"} \cap DOMAIN clean : clean[k] = now
      /\ Has(clean, "startTime") => ~Has(clean, "energy")
  BY <1>3, MessageType
<1>5. clean \in Records
  <2>1. clean = [k \in DOMAIN clean |-> clean[k]]
    BY DEF Messages, Joined
  <2> QED
    BY <1>4, <2>1, IsRecord
<1>6. /\ old \in Records /\ DOMAIN old \in {DOMAIN parallax, {}}
      /\ old # parallax => DOMAIN old = {}
  BY EmptyRecord DEF ChargingInv, ChargingTypeOK
<1> HIDE DEF now
<1>7. /\ base \in Records /\ DOMAIN base = DOMAIN old \cup DOMAIN clean
      /\ \A k \in DOMAIN old \cup DOMAIN clean :
            base[k] = IF k \in DOMAIN clean THEN clean[k] ELSE old[k]
  <2> HIDE DEF old
  <2> QED
    BY <1>5, <1>6, JoinedType, Zenon
<1>8. made \in Records /\ DOMAIN made = {"startTime"} /\ made["startTime"] = Invented
  <2>1. /\ DOMAIN made = {"startTime"} /\ made["startTime"] = Invented
        /\ made = [k \in DOMAIN made |-> made[k]]
        /\ DOMAIN made \in SUBSET Keys /\ \A k \in DOMAIN made : made[k] \in Values
    BY DEF Keys, Values
  <2> HIDE DEF made
  <2> QED
    BY <2>1, IsRecord
<1>9. /\ Joined(base, made) \in Records
      /\ DOMAIN Joined(base, made) = DOMAIN base \cup {"startTime"}
      /\ Joined(base, made)["startTime"] = Invented
      /\ \A k \in DOMAIN base \ {"startTime"} : Joined(base, made)[k] = base[k]
  <2>1. /\ Joined(base, made) \in Records
        /\ DOMAIN Joined(base, made) = DOMAIN base \cup DOMAIN made
        /\ \A k \in DOMAIN base \cup DOMAIN made :
             Joined(base, made)[k] = IF k \in DOMAIN made THEN made[k] ELSE base[k]
    <3> HIDE DEF base, made
    <3> QED
      BY <1>7, <1>8, JoinedType, Zenon
  <2> HIDE DEF base, made
  <2> QED
    BY <1>8, <2>1
<1> DEFINE joined == Joined(base, made)
<1> HIDE DEF base, made, joined
<1>10. parallax' = base \/ parallax' = joined
  BY <1>1 DEF joined
<1>11. /\ parallax' \in Records
       /\ DOMAIN parallax' \in {DOMAIN base, DOMAIN base \cup {"startTime"}}
       /\ \A k \in DOMAIN base \ {"startTime"} : parallax'[k] = base[k]
  BY <1>7, <1>9, <1>10 DEF joined
<1>12. synthetic' \in BOOLEAN /\ adopted' \in BOOLEAN
  BY <1>1 DEF ChargingInv, ChargingTypeOK
<1>13. ChargingTypeOK'
  <2>1. shown' \in Records
    BY <1>2, <1>11, <1>12, ResolvedType DEF ChargingInv, ChargingTypeOK
  <2> QED
    BY <1>2, <1>11, <1>12, <2>1 DEF ChargingInv, ChargingTypeOK
<1>14. ASSUME real PROVE ChargingInv'
  <2>1. /\ Has(parallax', "startTime") /\ parallax'["startTime"] = now
        /\ parallax'["startTime"] # Invented
    BY <1>4, <1>7, <1>14 DEF Has
  <2>2. ~adopted' => /\ Has(parallax', "energy") => Has(parallax, "energy")
                     /\ Has(parallax', "energy") => parallax'["energy"] = parallax["energy"]
                     /\ Has(parallax', "energy") =>
                           Has(parallax, "startTime") /\ parallax["startTime"] = now
                           /\ ~adopted
    <3>1. CASE IsNewSession(clean)
      <4>1. DOMAIN old = {}
        BY <1>14, <3>1, EmptyRecord
      <4> QED
        BY <1>4, <1>7, <1>14, <4>1 DEF Has
    <3>2. CASE ~IsNewSession(clean)
      <4>1. old = parallax
        BY <3>2
      <4>2. ~adopted' => /\ ~adopted
                         /\ Has(parallax, "energy") => /\ ~synthetic
                                                       /\ Has(parallax, "startTime")
        BY <1>14, <3>2
      <4>3. ~synthetic /\ Has(parallax, "startTime") => parallax["startTime"] = now
        BY <1>4, <1>14, <3>2 DEF IsNewSession, Has
      <4> HIDE DEF old
      <4>4. /\ Has(parallax', "energy") => Has(parallax, "energy")
            /\ Has(parallax', "energy") => parallax'["energy"] = parallax["energy"]
        BY <1>4, <1>7, <1>14, <4>1 DEF Has
      <4> QED
        BY <4>2, <4>3, <4>4
    <3> QED
      BY <3>1, <3>2
  <2>3. NoOlderMetric'
    BY <1>3, <2>1, <2>2 DEF NoOlderMetric, ChargingInv, Has
  <2> QED
    BY <1>2, <1>3, <1>13, <2>1, <2>3
       DEF ChargingInv, StartReached, InventedIsMarked, NothingInvented,
           ShownIsResolved, Has, now
<1>15. ASSUME invents PROVE ChargingInv'
  <2>1. Has(parallax', "startTime") /\ parallax'["startTime"] = Invented
    BY <1>9, <1>15 DEF Has, joined
  <2> QED
    BY <1>2, <1>13, <1>15, <2>1
       DEF ChargingInv, StartReached, InventedIsMarked, NothingInvented,
           ShownIsResolved, NoOlderMetric, Has
<1>16. ASSUME plain PROVE ChargingInv'
  <2>1. /\ Has(parallax', "startTime") <=> Has(parallax, "startTime")
        /\ Has(parallax, "startTime") => parallax'["startTime"] = parallax["startTime"]
        /\ Has(parallax', "energy") =>
              \/ parallax'["energy"] = now
              \/ Has(parallax, "energy") /\ parallax'["energy"] = parallax["energy"]
    BY <1>4, <1>6, <1>7, <1>16 DEF Has
  <2>2. NoOlderMetric'
    BY <1>3, <1>16, <2>1 DEF NoOlderMetric, ChargingInv, StartReached, Has, now
  <2> QED
    BY <1>2, <1>13, <1>16, <2>1, <2>2
       DEF ChargingInv, StartReached, InventedIsMarked, NothingInvented,
           ShownIsResolved, Has
<1>17. Has(parallax', "eta") =>
          \/ Has(clean, "eta") /\ parallax'["eta"] = clean["eta"]
          \/ /\ ~Has(clean, "eta")
             /\ Has(parallax, "eta") /\ parallax'["eta"] = parallax["eta"]
  BY <1>6, <1>7, <1>11 DEF Has
<1> QED
  BY <1>1, <1>14, <1>15, <1>16, <1>17

-----------------------------------------------------------------------------
(* Both records.                                                           *)
DataInv == RecordInv /\ ChargingInv /\ EtaAgrees

(* A frame about the time to the end of charge breaks the agreement only   *)
(* by saying something usable, which the history tells.                    *)
LEMMA FrameKeepsEta ==
    ASSUME DataInv, NEW f \in Frames(RecordKeys), VehicleFrame(f), UNCHANGED chargingVars
    PROVE  EtaAgrees'
<1> USE RecordAssumption DEF RecordAssumption
<1>1. /\ DOMAIN f \in SUBSET RecordKeys
      /\ \A k \in DOMAIN f : f[k] \in Usable \cup {Invalid, Null}
  BY FrameType
<1>2. UNCHANGED parallax
  BY DEF chargingVars, dataVars
<1> SUFFICES ASSUME Has(parallax, "eta"), "eta" \notin cleared',
                    reported'["eta"] = None \/ filled'["eta"] # None
             PROVE  Knows("eta")' /\ data'["eta"] = parallax["eta"]
  BY <1>2 DEF EtaAgrees, Has
<1>3. ~StopsCharging(f) /\ data' = Merged(f)
  <2>1. ~StopsCharging(f)
    BY DEF VehicleFrame
  <2>2. Items(f) = f
    BY <2>1, FrameType DEF Items
  <2> QED
    BY <2>1, <2>2 DEF VehicleFrame
<1>4. "eta" \in DOMAIN f => f["eta"] = Invalid
  BY <1>1 DEF VehicleFrame, RecordKeys
<1>5. /\ "eta" \notin cleared
      /\ reported["eta"] = None \/ filled["eta"] # None
  BY <1>3, <1>4 DEF VehicleFrame, RecordKeys, UsableIn, IsInvalid
<1>6. Knows("eta") /\ data["eta"] = parallax["eta"]
  BY <1>5 DEF DataInv, EtaAgrees
<1> QED
  BY <1>3, <1>4, <1>6 DEF Merged, Knows, IsInvalid

(* A message with a time to the end of charge reaches both records.        *)
LEMMA MessageKeepsEta ==
    ASSUME DataInv, NEW clean \in Messages(at["parallax"]), ParallaxCharging(clean)
    PROVE  RecordInv' /\ EtaAgrees'
<1> USE RecordAssumption, ChargingAssumption DEF RecordAssumption, ChargingAssumption
<1>1. Has(parallax', "eta") =>
         \/ Has(clean, "eta") /\ parallax'["eta"] = clean["eta"]
         \/ /\ ~Has(clean, "eta")
            /\ Has(parallax, "eta") /\ parallax'["eta"] = parallax["eta"]
  BY MessageKeeps DEF ParallaxCharging, DataInv
<1>2. CASE Has(clean, "eta")
  <2>1. clean["eta"] \in Usable
    <3>1. at["parallax"] \in 0 .. LastPhase
      BY DEF DataInv, ChargingInv, ChargingTypeOK
    <3>2. clean["eta"] = Session(at["parallax"]) /\ at["parallax"] # 0
      BY <1>2, <3>1, MessageType DEF Has
    <3> QED
      BY <3>1, <3>2, DataAssumption DEF DataAssumption
  <2>2. ParallaxValue("eta", clean["eta"])
    BY <1>2 DEF ParallaxCharging, VehicleKeys, Has
  <2>3. RecordInv'
    BY <2>1, <2>2, ParallaxKeepsRecord DEF DataInv, RecordKeys
  <2>4. CASE reported["eta"] \in {None, Invalid}
    <3>1. filled'["eta"] = clean["eta"] /\ "eta" \in RecordKeys
      BY <2>1, <2>2, <2>4
         DEF ParallaxValue, IsInvalid, DataInv, RecordInv, RecordTypeOK, RecordKeys
    <3>2. filled'["eta"] # None
      BY <2>1, <3>1
    <3> QED
      BY <1>1, <1>2, <2>3, <3>1, <3>2 DEF EtaAgrees, RecordInv, GapsKnown
  <2>5. CASE reported["eta"] \notin {None, Invalid}
    <3>1. reported'["eta"] # None /\ filled'["eta"] = None
      BY <2>2, <2>5
         DEF ParallaxValue, DataInv, RecordInv, FilledIsGap, RecordKeys
    <3> QED
      BY <2>3, <3>1 DEF EtaAgrees
  <2> QED
    BY <2>4, <2>5
<1>3. CASE ~Has(clean, "eta")
  <2>1. UNCHANGED recordVars
    BY <1>3 DEF ParallaxCharging, VehicleKeys, Has
  <2> QED
    BY <1>1, <1>3, <2>1
       DEF DataInv, RecordInv, RecordTypeOK, OwnerIsLastUsable, FilledIsGap,
           ReportedIsKnown, Stands, GapsKnown, EtaAgrees, Knows, recordVars
<1> QED
  BY <1>2, <1>3

LEMMA UnchangedRecord == RecordInv /\ UNCHANGED recordVars => RecordInv'
  BY DEF RecordInv, RecordTypeOK, OwnerIsLastUsable, FilledIsGap,
         ReportedIsKnown, Stands, GapsKnown, Knows, recordVars

LEMMA UnchangedCharging == ChargingInv /\ UNCHANGED chargingVars => ChargingInv'
  BY DEF ChargingInv, ChargingTypeOK, StartReached, InventedIsMarked, NothingInvented,
         ShownIsResolved, NoOlderMetric, Has, chargingVars, dataVars

LEMMA DataInvariant == DataSpec => []DataInv
<1> USE RecordAssumption, ChargingAssumption DEF RecordAssumption, ChargingAssumption
<1>1. DataInit => DataInv
  <2> SUFFICES ASSUME DataInit PROVE DataInv
    OBVIOUS
  <2>1. RecordTypeOK
    <3>1. DOMAIN data = {} /\ data = [k \in DOMAIN data |-> data[k]]
      BY DEF DataInit, RecordInit
    <3>2. data \in [{} -> RecordValues]
      BY DEF DataInit, RecordInit
    <3>3. data \in UNION {[K -> RecordValues] : K \in SUBSET RecordKeys}
      BY <3>2
    <3> QED
      BY <3>1, <3>3 DEF DataInit, RecordInit, RecordTypeOK
  <2>2. RecordInv
    BY <2>1
       DEF DataInit, RecordInit, RecordInv, OwnerIsLastUsable, FilledIsGap,
           ReportedIsKnown, Stands, GapsKnown, RecordKeys
  <2>3. ShownIsResolved
    <3>1. DOMAIN subscription = {} /\ DOMAIN parallax = {} /\ shown = Empty
      BY EmptyRecord DEF DataInit, ChargingInit
    <3>2. Resolved(subscription, parallax, synthetic) = [k \in {} |-> 0]
      BY <3>1 DEF Resolved, Joined, Has
    <3> QED
      BY <3>1, <3>2 DEF ShownIsResolved, Empty
  <2>4. ChargingTypeOK
    <3>1. at \in [{"subscription", "parallax"} -> 0 .. LastPhase]
      BY DEF DataInit, ChargingInit
    <3> QED
      BY <3>1, EmptyRecord DEF DataInit, ChargingInit, ChargingTypeOK
  <2>5. ChargingInv /\ EtaAgrees
    BY <2>3, <2>4, EmptyRecord
       DEF DataInit, ChargingInit, ChargingInv, StartReached,
           InventedIsMarked, NothingInvented, NoOlderMetric, EtaAgrees, Has
  <2> QED
    BY <2>2, <2>5 DEF DataInv
<1>2. DataInv /\ [DataNext(RecordKeys)]_dataRecords => DataInv'
  <2> SUFFICES ASSUME DataInv, [DataNext(RecordKeys)]_dataRecords
               PROVE  DataInv'
    OBVIOUS
  <2>1. CASE VehicleFeed(RecordKeys)
    BY <2>1, FrameKeepsRecord, FrameKeepsEta, UnchangedCharging DEF VehicleFeed, DataInv
  <2>2. ASSUME UNCHANGED <<recordVars, parallax>> PROVE EtaAgrees'
    BY <2>2 DEF DataInv, EtaAgrees, recordVars, Knows, Has
  <2>3. CASE ChargingFeed
    <3>1. UNCHANGED parallax
      BY <2>3 DEF ChargingFeed, SubscriptionFrame, NoSession, Snapshot, Publish
    <3> QED
      BY <2>2, <2>3, <3>1, SnapshotKeeps, UnchangedRecord DEF ChargingFeed, DataInv
  <2>4. CASE Streams
    <3>1. UNCHANGED parallax
      BY <2>4 DEF Streams, Advance, dataVars
    <3> QED
      BY <2>2, <2>4, <3>1, AdvanceKeeps, UnchangedRecord DEF Streams, DataInv
  <2>5. ASSUME NEW clean \in Messages(at["parallax"]), ParallaxCharging(clean)
        PROVE  DataInv'
    BY <2>5, MessageKeeps, MessageKeepsEta DEF ParallaxCharging, DataInv
  <2>6. ASSUME NEW k \in {"field", "mileage"} \cap RecordKeys, NEW v \in Decoded(k),
               ParallaxVehicle(k, v)
        PROVE  DataInv'
    <3>1. v \in Usable \cup {Invalid} /\ (v = Invalid => k = "field")
      BY DEF Decoded
    <3>2. RecordInv' /\ ChargingInv'
      BY <2>6, <3>1, ParallaxKeepsRecord, UnchangedCharging DEF ParallaxVehicle, DataInv
    <3>3. /\ UNCHANGED <<reported, parallax>> /\ filled'["eta"] = filled["eta"]
          /\ ("eta" \in cleared <=> "eta" \in cleared')
          /\ Knows("eta") => Knows("eta")' /\ data'["eta"] = data["eta"]
      <4>1. data' = data \/ data' = Merged([j \in {k} |-> v])
        BY <2>6 DEF ParallaxVehicle, ParallaxValue
      <4>2. Knows("eta") => Knows("eta")' /\ data'["eta"] = data["eta"]
        BY <4>1 DEF Merged, Knows
      <4>3. UNCHANGED <<reported, parallax>>
        BY <2>6 DEF ParallaxVehicle, ParallaxValue, chargingVars, dataVars
      <4>4. /\ filled' \in {filled, [filled EXCEPT ![k] = v]}
            /\ cleared' \in {cleared, cleared \ {k}}
        BY <2>6 DEF ParallaxVehicle, ParallaxValue
      <4>5. filled'["eta"] = filled["eta"]
        BY <4>4 DEF DataInv, RecordInv, RecordTypeOK, RecordKeys
      <4> QED
        BY <4>2, <4>3, <4>4, <4>5
    <3> QED
      BY <3>2, <3>3 DEF DataInv, EtaAgrees, Has
  <2>7. CASE UNCHANGED dataRecords
    <3>1. UNCHANGED recordVars /\ UNCHANGED chargingVars /\ UNCHANGED parallax
      BY <2>7 DEF dataRecords, chargingVars, dataVars
    <3> QED
      BY <2>2, <3>1, UnchangedRecord, UnchangedCharging DEF DataInv
  <2> QED
    BY <2>1, <2>3, <2>4, <2>5, <2>6, <2>7 DEF DataNext
<1>3. QED
  BY <1>1, <1>2, PTL DEF DataSpec

(* A key shows what its writer said last, in both records, whatever the    *)
(* order in which the subscription's frames and Parallax messages come.    *)
THEOREM OwnerIsShown == DataSpec => []OwnerShows
<1>1. DataInv => OwnerShows
  BY DEF DataInv, RecordInv, ChargingInv, OwnerShows, DataTypeOK, Stands, GapsKnown,
         SubscribedValueStands, GapStaysFilled
<1>2. QED
  BY <1>1, DataInvariant, PTL

(* The charging record speaks of one session, from its reported start: no  *)
(* value of an earlier session shows under the start of a later one.       *)
THEOREM OneSessionShown == DataSpec => []SessionShown
<1>1. DataInv => SessionShown
  BY InvImpliesSession DEF DataInv
<1>2. QED
  BY <1>1, DataInvariant, PTL

-----------------------------------------------------------------------------
ShownMileage(d) == IF "mileage" \in DOMAIN d THEN d["mileage"] ELSE 0

(* A frame that repeats what it reported shows what was shown, and an      *)
(* invalid value replaces no usable one.                                   *)
LEMMA FrameGoesOn ==
    ASSUME RecordInv, NEW f \in Frames(RecordKeys), VehicleFrame(f)
    PROVE  /\ \A k \in RecordKeys :
                 Knows(k) /\ data[k] \in Usable => data'[k] # Invalid
           /\ ShownMileage(data) \in Nat =>
                 \/ reported' # reported
                 \/ ShownMileage(data') \in Nat /\ ShownMileage(data') >= ShownMileage(data)
<1> USE RecordAssumption DEF RecordAssumption
<1>1. /\ DOMAIN f \in SUBSET RecordKeys
      /\ \A k \in DOMAIN f : f[k] \in Usable \cup {Invalid, Null}
  BY FrameType
<1> DEFINE g == Items(f)
<1>2. /\ DOMAIN g = DOMAIN f \cup (IF StopsCharging(f) THEN {"eta"} ELSE {})
      /\ \A k \in DOMAIN g : g[k] = IF k = "eta" /\ StopsCharging(f) THEN 0 ELSE f[k]
  BY DEF Items
<1>3. data' = Merged(g)
  BY DEF VehicleFrame
<1> HIDE DEF g
<1>4. /\ DOMAIN data' = DOMAIN data \cup DOMAIN g
      /\ \A k \in DOMAIN data \cup DOMAIN g :
            data'[k] = IF k \notin DOMAIN g \/ (g[k] = Invalid /\ k \in DOMAIN data)
                       THEN data[k] ELSE g[k]
  BY <1>3 DEF Merged, IsInvalid, Knows
<1>5. \A k \in RecordKeys : Knows(k) /\ data[k] \in Usable => data'[k] # Invalid
  BY <1>1, <1>2, <1>4 DEF Knows
<1>6. ASSUME ShownMileage(data) \in Nat, reported' = reported
      PROVE  ShownMileage(data') \in Nat /\ ShownMileage(data') >= ShownMileage(data)
  <2> DEFINE m == "mileage"
  <2>1. m \in DOMAIN g <=> m \in DOMAIN f
    BY <1>2
  <2>2. CASE m \notin DOMAIN f
    BY <1>4, <1>6, <2>1, <2>2 DEF ShownMileage
  <2>3. CASE m \in DOMAIN f
    <3>1. reported[m] = f[m] /\ g[m] = f[m] /\ m \in RecordKeys /\ m \notin cleared
      BY <1>2, <1>6, <2>3 DEF VehicleFrame, RecordKeys, RecordInv
    <3>2. m \in DOMAIN data
      BY <1>1, <2>3, <3>1 DEF RecordInv, ReportedIsKnown, Knows
    <3>3. data'[m] = IF f[m] = Invalid THEN data[m] ELSE f[m]
      BY <1>4, <2>1, <2>3, <3>1, <3>2
    <3>4. f[m] \in Usable => data[m] = f[m]
      BY <3>1 DEF RecordInv, Stands
    <3>5. f[m] # Null
      BY <1>6, <3>1, <3>2 DEF RecordInv, ReportedIsKnown, ShownMileage
    <3>6. data'[m] = data[m] /\ m \in DOMAIN data'
      BY <1>1, <1>4, <2>3, <3>2, <3>3, <3>4, <3>5
    <3> QED
      BY <1>6, <3>2, <3>6 DEF ShownMileage
  <2> QED
    BY <2>2, <2>3
<1> QED
  BY <1>5, <1>6

(* Nor does a Parallax value, and an odometer never goes back.             *)
LEMMA ParallaxGoesOn ==
    ASSUME RecordInv, NEW k \in RecordKeys, NEW v \in Usable \cup {Invalid},
           v = Invalid => k = "field", ParallaxValue(k, v)
    PROVE  /\ \A j \in RecordKeys :
                 Knows(j) /\ data[j] \in Usable => data'[j] # Invalid
           /\ ShownMileage(data) \in Nat =>
                 ShownMileage(data') \in Nat /\ ShownMileage(data') >= ShownMileage(data)
<1> USE RecordAssumption DEF RecordAssumption
<1>1. CASE data' = data
  <2>1. ShownMileage(data') = ShownMileage(data)
    BY <1>1
  <2>2. \A j \in RecordKeys : Knows(j) /\ data[j] \in Usable => data'[j] # Invalid
    BY <1>1
  <2> QED
    BY <2>1, <2>2
<1>2. CASE ~Refused(k, v) /\ data' = Merged([j \in {k} |-> v])
  <2>1. data' = [j \in DOMAIN data \cup {k} |->
                   IF j # k \/ (v = Invalid /\ Knows(k)) THEN data[j] ELSE v]
    BY <1>2 DEF Merged, IsInvalid
  <2>2. \A j \in RecordKeys : Knows(j) /\ data[j] \in Usable => data'[j] # Invalid
    BY <2>1 DEF Knows
  <2>3. k = "mileage" => v \in Nat /\ v >= ShownMileage(data)
    BY <1>2 DEF Refused, Forward, Knows, ShownMileage
  <2> HIDE DEF RecordAssumption
  <2>4. k # "mileage" => ShownMileage(data') = ShownMileage(data)
    BY <2>1 DEF ShownMileage
  <2>5. k = "mileage" => ShownMileage(data') = v
    BY <2>1 DEF ShownMileage
  <2>6. ASSUME ShownMileage(data) \in Nat
        PROVE  ShownMileage(data') \in Nat /\ ShownMileage(data') >= ShownMileage(data)
    BY <2>3, <2>4, <2>5, <2>6
  <2> QED
    BY <2>2, <2>6
<1>3. data' = data \/ (~Refused(k, v) /\ data' = Merged([j \in {k} |-> v]))
  BY DEF ParallaxValue
<1> QED
  BY <1>1, <1>2, <1>3

(* A usable value is not followed by an invalid one, and only the          *)
(* subscription turns the mileage back.                                    *)
THEOREM RecordsGoOn == DataSpec => NeverBack
<1> USE RecordAssumption DEF RecordAssumption
<1> DEFINE Known == \A k \in RecordKeys :
                       Knows(k) /\ data[k] \in Usable => data'[k] # Invalid
           Onward == ShownMileage(data) \in Nat =>
                        \/ reported' # reported
                        \/ /\ ShownMileage(data') \in Nat
                           /\ ShownMileage(data') >= ShownMileage(data)
<1>1. ASSUME DataInv, [DataNext(RecordKeys)]_dataRecords
      PROVE  Known /\ Onward
  <2>1. CASE VehicleFeed(RecordKeys)
    BY <1>1, <2>1, FrameGoesOn DEF VehicleFeed, DataInv
  <2>2. CASE UNCHANGED recordVars
    <3>1. data' = data
      BY <2>2 DEF recordVars
    <3>2. Known
      BY <3>1
    <3>3. ShownMileage(data') = ShownMileage(data)
      BY <3>1
    <3> HIDE DEF Known
    <3>4. Onward
      BY <3>3
    <3> QED
      BY <3>2, <3>4
  <2>3. ASSUME NEW clean \in Messages(at["parallax"]), ParallaxCharging(clean)
        PROVE  Known /\ Onward
    <3>1. CASE Has(clean, "eta")
      <4>1. at["parallax"] \in 0 .. LastPhase
        BY <1>1 DEF DataInv, ChargingInv, ChargingTypeOK
      <4>2. clean["eta"] = Session(at["parallax"]) /\ at["parallax"] # 0
        BY <3>1, <4>1, MessageType DEF Has
      <4>3. clean["eta"] \in Usable
        BY <4>1, <4>2, DataAssumption, ChargingAssumption
           DEF DataAssumption, ChargingAssumption
      <4>4. ParallaxValue("eta", clean["eta"])
        BY <2>3, <3>1 DEF ParallaxCharging, VehicleKeys, Has
      <4> QED
        BY <1>1, <4>3, <4>4, ParallaxGoesOn DEF DataInv, RecordKeys
    <3>2. CASE ~Has(clean, "eta")
      BY <2>2, <2>3, <3>2 DEF ParallaxCharging, VehicleKeys, Has
    <3> QED
      BY <3>1, <3>2
  <2>4. ASSUME NEW k \in {"field", "mileage"} \cap RecordKeys, NEW v \in Decoded(k),
               ParallaxVehicle(k, v)
        PROVE  Known /\ Onward
    <3>1. v \in Usable \cup {Invalid} /\ (v = Invalid => k = "field")
      BY DEF Decoded
    <3> QED
      BY <1>1, <2>4, <3>1, ParallaxGoesOn DEF ParallaxVehicle, DataInv
  <2>5. CASE ChargingFeed \/ Streams \/ UNCHANGED dataRecords
    BY <2>2, <2>5 DEF ChargingFeed, Streams, dataRecords
  <2> QED
    BY <1>1, <2>1, <2>3, <2>4, <2>5 DEF DataNext
<1>2. DataInv /\ [DataNext(RecordKeys)]_dataRecords =>
         [\A k \in RecordKeys :
            Knows(k) /\ data[k] \in Usable => data'[k] # Invalid]_recordVars
  BY <1>1
<1>3. DataInv /\ [DataNext(RecordKeys)]_dataRecords =>
         [LET miles(d) == IF "mileage" \in DOMAIN d THEN d["mileage"] ELSE 0
          IN  miles(data) \in Nat => \/ reported' # reported
                                     \/ miles(data') \in Nat /\ miles(data') >= miles(data)
         ]_recordVars
  BY <1>1 DEF ShownMileage
<1>4. QED
  BY <1>2, <1>3, DataInvariant, PTL
     DEF DataSpec, NeverBack, NeverBackToInvalid, MileageForward
=============================================================================
