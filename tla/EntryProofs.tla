----------------------------- MODULE EntryProofs -----------------------------
(***************************************************************************)
(* Proofs about the entry: what a setup, an unload or a removal leaves     *)
(* behind (ConfigEntry), for any entries, vehicles and failures.           *)
(***************************************************************************)
EXTENDS ConfigEntry, PhoneEnrolment, FiniteSetTheorems, TLAPS

States == Resting \cup {"setup", "unloading", "cleaning"}
Waits == {"", "csrf", "user", "vehicle", "more", "wallbox", "features", "platforms"}

Shapes ==
    /\ cars \in [Entries -> SUBSET Vehicles] /\ state \in [Entries -> States]
    /\ at \in [Entries -> Waits] /\ after \in [Entries -> {"", "not_loaded", "retry", "error"}]
    /\ built \in [Entries -> SUBSET Vehicles] /\ flight \in [Entries -> SUBSET Vehicles]
    /\ feeds \in [Entries -> SUBSET Vehicles]
    /\ client \in [Entries -> {"none", "open", "closed"}]
    /\ stray \in [Entries -> BOOLEAN] /\ valid \in [Entries -> BOOLEAN]
    /\ otpNeeded \in [Entries -> BOOLEAN] /\ outlived \in [Entries -> BOOLEAN]
    /\ login \in [Entries -> {"none", "credentials", "otp"}]

Counts ==
    /\ reloads \in [Entries -> 0 .. 2] /\ failures \in [Entries -> 0 .. MaxFailures]

(* Where an entry is, and what it has built by then.                       *)
Place(e) ==
    /\ built[e] \subseteq cars[e] /\ flight[e] \subseteq cars[e] /\ feeds[e] \subseteq cars[e]
    /\ at[e] # "" <=> state[e] \in {"setup", "unloading"}
    /\ after[e] # "" <=> state[e] = "cleaning"
    /\ state[e] \in {"absent", "not_loaded", "retry", "error"} => built[e] = {}
    /\ at[e] \in {"wallbox", "features", "platforms"} \/ state[e] = "loaded" => built[e] = cars[e]
    /\ at[e] = "platforms" \/ state[e] \in {"loaded", "failed"} => e \in data
    /\ state[e] = "unloading" => at[e] = "platforms"

(* What is open belongs to coordinators that are not shut down.            *)
Owned(e) ==
    ~outlived[e] =>
        /\ flight[e] \subseteq built[e] /\ feeds[e] \subseteq built[e]
        /\ built[e] = {} => client[e] # "open"
        /\ ~stray[e]

(* An entry waits for the service to be registered.                        *)
Registers(e) == service = None /\ e \in data => at[e] = "platforms" /\ state[e] = "setup"

Local(e) == Place(e) /\ Owned(e) /\ Registers(e)

Shared ==
    /\ data \in SUBSET Entries /\ IsFiniteSet(data) /\ service \in Entries \cup {None}
    /\ together \in BOOLEAN
    /\ service # None => data # {}
    /\ ~together => (\A a, b \in data : a = b) /\ (service # None => service \in data)

EntryInv == Shapes /\ Counts /\ (\A e \in Entries : Local(e)) /\ Shared

-----------------------------------------------------------------------------
LEMMA PutIs ==
    ASSUME NEW S, NEW f \in [Entries -> S], NEW e \in Entries, NEW x \in S
    PROVE  /\ Put(f, e, x) \in [Entries -> S] /\ Put(f, e, x)[e] = x
           /\ \A q \in Entries \ {e} : Put(f, e, x)[q] = f[q]
BY DEF Put

(* A step of entry e changes what is kept of e only.                       *)
Elsewhere(e) ==
    \A q \in Entries \ {e} :
        /\ cars'[q] = cars[q] /\ state'[q] = state[q] /\ at'[q] = at[q] /\ after'[q] = after[q]
        /\ built'[q] = built[q] /\ flight'[q] = flight[q] /\ feeds'[q] = feeds[q]
        /\ client'[q] = client[q] /\ stray'[q] = stray[q] /\ outlived'[q] = outlived[q]
        /\ q \in data' <=> q \in data

LEMMA ElsewhereKeeps ==
    ASSUME EntryInv, NEW e \in Entries, Elsewhere(e), service' # None \/ service' = service \/ data' = {}
    PROVE  \A q \in Entries \ {e} : Local(q)'
<1> SUFFICES ASSUME NEW q \in Entries \ {e}
             PROVE  Local(q)'
  OBVIOUS
<1>4. /\ cars'[q] = cars[q] /\ state'[q] = state[q] /\ at'[q] = at[q] /\ after'[q] = after[q]
      /\ built'[q] = built[q] /\ flight'[q] = flight[q] /\ feeds'[q] = feeds[q]
      /\ client'[q] = client[q] /\ stray'[q] = stray[q] /\ outlived'[q] = outlived[q]
      /\ q \in data' <=> q \in data
  BY DEF Elsewhere
<1>5. Place(q) /\ Owned(q) /\ Registers(q)
  BY DEF EntryInv, Local
<1>1. Place(q)'
  BY <1>4, <1>5 DEF Place
<1>2. Owned(q)'
  BY <1>4, <1>5 DEF Owned
<1>3. Registers(q)'
  BY <1>4, <1>5 DEF Registers
<1> QED
  BY <1>1, <1>2, <1>3 DEF Local

(* Most steps leave the record of entries and the service alone.           *)
LEMMA LocalStep ==
    ASSUME EntryInv, NEW e \in Entries, Elsewhere(e), Shapes', Counts', Local(e)',
           UNCHANGED <<data, service, together>>
    PROVE  EntryInv'
<1>1. \A q \in Entries : Local(q)'
  BY ElsewhereKeeps
<1>2. Shared'
  BY DEF EntryInv, Shared
<1> QED
  BY <1>1, <1>2 DEF EntryInv

-----------------------------------------------------------------------------
LEMMA SetupBeginsKeeps ==
    ASSUME EntryInv, NEW e \in Entries, SetupBegins(e)
    PROVE  EntryInv'
<1>1. /\ state[e] \in {"not_loaded", "retry", "error"}
      /\ UNCHANGED <<cars, failures, after, built, data, service, valid, logins,
                     outlived, together>>
  BY DEF SetupBegins
<1>2. /\ state' = Put(state, e, "setup") /\ at' = Put(at, e, "csrf")
      /\ client' = Put(client, e, "none")
      /\ feeds' = Put(feeds, e, {}) /\ flight' = Put(flight, e, {})
  BY DEF SetupBegins
<1>3. PICK b \in BOOLEAN : stray' = Put(stray, e, b) /\ (b <=> stray[e] \/ client[e] = "open" \/ flight[e] # {})
  <2>1. stray[e] \in BOOLEAN
    BY DEF EntryInv, Shapes
  <2>2. stray' = Put(stray, e, stray[e] \/ client[e] = "open" \/ flight[e] # {})
    BY DEF SetupBegins
  <2>3. (stray[e] \/ client[e] = "open" \/ flight[e] # {}) \in BOOLEAN
    BY <2>1
  <2> QED
    BY <2>2, <2>3
<1>4. Shapes' /\ Elsewhere(e)
  BY <1>1, <1>2, <1>3 DEF Put, EntryInv, Shapes, Elsewhere, logins, States, Waits
<1>5. Counts'
  BY <1>1, EntryAssumption DEF SetupBegins, Put, EntryInv, Counts
<1>6. /\ state'[e] = "setup" /\ at'[e] = "csrf" /\ client'[e] = "none" /\ feeds'[e] = {}
      /\ flight'[e] = {} /\ stray'[e] = b /\ built'[e] = built[e] /\ after'[e] = after[e]
      /\ cars'[e] = cars[e] /\ outlived'[e] = outlived[e] /\ service' = service /\ data' = data
  BY <1>1, <1>2, <1>3 DEF Put, EntryInv, Shapes
<1>7. Place(e) /\ Owned(e) /\ Registers(e)
  BY Zenon DEF EntryInv, Local
<1>8. Place(e)'
  BY <1>1, <1>6, <1>7 DEF Place
<1>9. Owned(e)'
  BY <1>1, <1>3, <1>6, <1>7 DEF Place, Owned
<1>10. Registers(e)'
  BY <1>1, <1>6, <1>7 DEF Place, Registers
<1>11. Local(e)'
  BY <1>8, <1>9, <1>10 DEF Local
<1> QED
  BY <1>1, <1>4, <1>5, <1>11, LocalStep

(* A setup that fails at its first requests has at most closed the client. *)
LEMMA FailingKeeps ==
    ASSUME EntryInv, NEW e \in Entries, NEW next \in {"retry", "error"},
           state[e] = "setup", at[e] # "platforms", SetupFails(e, next),
           client' = client \/ client' = Put(client, e, "closed"),
           failures' \in [Entries -> 0 .. MaxFailures],
           login' \in [Entries -> {"none", "credentials", "otp"}],
           UNCHANGED <<cars, built, feeds, stray, flight, data, service, valid, otpNeeded,
                       reloads, outlived, together>>
    PROVE  EntryInv'
<1>1. state' = Put(state, e, "cleaning") /\ at' = Put(at, e, "") /\ after' = Put(after, e, next)
  BY DEF SetupFails
<1>2. Shapes' /\ Elsewhere(e)
  BY <1>1 DEF Put, EntryInv, Shapes, Elsewhere, States, Waits
<1>3. Counts'
  BY DEF EntryInv, Counts
<1>4. /\ state'[e] = "cleaning" /\ at'[e] = "" /\ after'[e] = next
      /\ client'[e] = client[e] \/ client'[e] = "closed"
  BY <1>1 DEF Put, EntryInv, Shapes
<1>5. Place(e) /\ Owned(e) /\ Registers(e)
  BY Zenon DEF EntryInv, Local
<1>6. Place(e)'
  BY <1>4, <1>5 DEF Place
<1>7. Owned(e)'
  BY <1>4, <1>5 DEF Owned
<1>8. Registers(e)'
  BY <1>4, <1>5 DEF Registers
<1>9. Local(e)'
  BY <1>6, <1>7, <1>8 DEF Local
<1> QED
  BY <1>2, <1>3, <1>9, LocalStep

LEMMA FailsCounts ==
    ASSUME EntryInv, NEW e \in Entries, Fails(e) \/ Answers
    PROVE  failures' \in [Entries -> 0 .. MaxFailures]
<1>1. failures \in [Entries -> 0 .. MaxFailures]
  BY Zenon DEF EntryInv, Counts
<1>2. CASE Fails(e)
  <2>1. failures[e] < MaxFailures /\ failures' = Put(failures, e, failures[e] + 1)
    BY <1>2 DEF Fails
  <2>2. failures[e] + 1 \in 0 .. MaxFailures
    BY <1>1, <2>1, EntryAssumption
  <2> QED
    BY <1>1, <2>1, <2>2 DEF Put
<1>3. CASE Answers
  BY <1>1, <1>3 DEF Answers
<1> QED
  BY <1>2, <1>3

(* A setup that goes on to its next request.                               *)
LEMMA ProceedingKeeps ==
    ASSUME EntryInv, NEW e \in Entries, NEW next \in {"user", "vehicle", "wallbox", "features"},
           state[e] = "setup", at[e] # "platforms", Proceeds(e, next),
           next \in {"wallbox", "features"} => built[e] = cars[e], Answers,
           UNCHANGED <<cars, built, client, feeds, stray, flight, data, service, valid, logins,
                       reloads, outlived, together>>
    PROVE  EntryInv'
<1>1. at' = Put(at, e, next) /\ UNCHANGED <<state, after>>
  BY DEF Proceeds
<1>2. Shapes' /\ Elsewhere(e)
  BY <1>1 DEF Put, EntryInv, Shapes, Elsewhere, Waits, logins
<1>3. Counts'
  BY FailsCounts DEF EntryInv, Counts
<1>4. at'[e] = next
  BY <1>1 DEF Put, EntryInv, Shapes
<1>5. Place(e) /\ Owned(e) /\ Registers(e)
  BY Zenon DEF EntryInv, Local
<1>6. Place(e)'
  BY <1>1, <1>4, <1>5 DEF Place
<1>7. Owned(e)'
  BY <1>1, <1>5 DEF Owned
<1>8. Registers(e)'
  BY <1>1, <1>4, <1>5 DEF Registers
<1>9. Local(e)'
  BY <1>6, <1>7, <1>8 DEF Local
<1> QED
  BY <1>2, <1>3, <1>9, LocalStep DEF logins

LEMMA CsrfReturnsKeeps ==
    ASSUME EntryInv, NEW e \in Entries, CsrfReturns(e)
    PROVE  EntryInv'
<1>1. /\ state[e] = "setup" /\ at[e] = "csrf"
      /\ UNCHANGED <<cars, built, feeds, stray, flight, data, service, valid, logins,
                     reloads, outlived, together>>
  BY DEF CsrfReturns
<1>2. UNCHANGED login /\ login \in [Entries -> {"none", "credentials", "otp"}]
  BY <1>1 DEF logins, EntryInv, Shapes
<1>3. CASE Answers /\ Proceeds(e, "user") /\ UNCHANGED client
  BY <1>1, <1>3, ProceedingKeeps
<1>4. CASE Fails(e) /\ SetupFails(e, "retry") /\ client' = Put(client, e, "closed")
  BY <1>1, <1>2, <1>4, FailsCounts, FailingKeeps DEF logins
<1> QED
  BY <1>3, <1>4 DEF CsrfReturns

LEMMA UserReturnsKeeps ==
    ASSUME EntryInv, NEW e \in Entries, UserReturns(e)
    PROVE  EntryInv'
<1>1. /\ state[e] = "setup" /\ at[e] = "user"
      /\ UNCHANGED <<cars, built, feeds, stray, flight, data, service, valid, otpNeeded,
                     reloads, outlived, together>>
  BY DEF UserReturns
<1>2. /\ login \in [Entries -> {"none", "credentials", "otp"}]
      /\ built[e] \subseteq cars[e]
  BY Zenon DEF EntryInv, Shapes, Local, Place
<1>3. CASE /\ valid[e] /\ Answers /\ UNCHANGED <<client, login>>
           /\ Proceeds(e, IF cars[e] = {} THEN "wallbox" ELSE "vehicle")
  <2>1. PICK next \in {"wallbox", "vehicle"} :
           Proceeds(e, next) /\ (next = "wallbox" => built[e] = cars[e])
    BY <1>2, <1>3
  <2> QED
    BY <1>1, <1>3, <2>1, ProceedingKeeps DEF logins
<1>4. CASE Fails(e) /\ SetupFails(e, "retry") /\ UNCHANGED <<client, login>>
  BY <1>1, <1>2, <1>4, FailsCounts, FailingKeeps
<1>5. CASE /\ ~valid[e] /\ Answers /\ SetupFails(e, "error")
           /\ client' = Put(client, e, "closed")
           /\ login' = Put(login, e, IF login[e] = "none" THEN "credentials" ELSE login[e])
  <2>1. login' \in [Entries -> {"none", "credentials", "otp"}]
    BY <1>2, <1>5 DEF Put
  <2> QED
    BY <1>1, <1>5, <2>1, FailsCounts, FailingKeeps
<1> QED
  BY <1>3, <1>4, <1>5 DEF UserReturns

(* A vehicle's coordinator is made, and its first refresh may connect.     *)
LEMMA VehicleReturnsKeeps ==
    ASSUME EntryInv, NEW e \in Entries, VehicleReturns(e)
    PROVE  EntryInv'
<1>1. /\ state[e] = "setup" /\ at[e] = "vehicle"
      /\ UNCHANGED <<cars, stray, flight, data, service, valid, logins, reloads,
                     outlived, together>>
  BY DEF VehicleReturns
<1>2. PICK v \in cars[e] \ built[e] :
          /\ built' = Put(built, e, built[e] \cup {v})
          /\ \/ feeds' = Put(feeds, e, feeds[e] \cup {v}) /\ client' = Put(client, e, "open")
             \/ UNCHANGED <<feeds, client>>
          /\ \/ Answers /\ Proceeds(e, "more")
             \/ Fails(e) /\ SetupFails(e, "retry")
  BY DEF VehicleReturns
<1>3. PICK s \in {"setup", "cleaning"}, n \in {"more", ""}, t \in {"", "retry"} :
          /\ state' = Put(state, e, s) /\ at' = Put(at, e, n) /\ after' = Put(after, e, t)
          /\ s = "setup" <=> n = "more"
          /\ s = "cleaning" <=> t = "retry"
  <2>1. CASE Proceeds(e, "more")
    <3>1. after[e] = ""
      BY <1>1 DEF EntryInv, Local, Place
    <3>2. state' = Put(state, e, "setup") /\ at' = Put(at, e, "more") /\ after' = Put(after, e, "")
      BY <1>1, <2>1, <3>1 DEF Proceeds, Put, EntryInv, Shapes
    <3> QED
      BY <3>2
  <2>2. CASE SetupFails(e, "retry")
    BY <2>2 DEF SetupFails
  <2> QED
    BY <1>2, <2>1, <2>2
<1>4. cars[e] \in SUBSET Vehicles /\ built[e] \in SUBSET Vehicles /\ feeds[e] \in SUBSET Vehicles
  BY DEF EntryInv, Shapes
<1>5. Shapes' /\ Elsewhere(e)
  <2>0. v \in Vehicles
    BY <1>2, <1>4
  <2>1. built' \in [Entries -> SUBSET Vehicles] /\ feeds' \in [Entries -> SUBSET Vehicles]
    <3>1. built[e] \cup {v} \in SUBSET Vehicles /\ feeds[e] \cup {v} \in SUBSET Vehicles
      BY <1>4, <2>0
    <3>2. built \in [Entries -> SUBSET Vehicles] /\ feeds \in [Entries -> SUBSET Vehicles]
      BY DEF EntryInv, Shapes
    <3>3. built' \in [Entries -> SUBSET Vehicles]
      BY <1>2, <3>1, <3>2, PutIs
    <3>4. Put(feeds, e, feeds[e] \cup {v}) \in [Entries -> SUBSET Vehicles]
      BY <3>1, <3>2, PutIs
    <3>5. feeds' \in [Entries -> SUBSET Vehicles]
      BY <1>2, <3>2, <3>4
    <3> QED
      BY <3>3, <3>5
  <2>2. client' \in [Entries -> {"none", "open", "closed"}]
    BY <1>2 DEF Put, EntryInv, Shapes
  <2>3. Shapes'
    BY <1>1, <1>3, <2>1, <2>2 DEF Put, EntryInv, Shapes, States, Waits, logins
  <2>4. Elsewhere(e)
    BY <1>1, <1>2, <1>3 DEF Put, EntryInv, Shapes, Elsewhere
  <2> QED
    BY <2>3, <2>4
<1>6. Counts'
  BY <1>1, <1>2, FailsCounts DEF EntryInv, Counts
<1>7. /\ state'[e] \in {"setup", "cleaning"} /\ at'[e] \in {"", "more"}
      /\ at'[e] # "" <=> state'[e] = "setup"
      /\ after'[e] # "" <=> state'[e] = "cleaning"
  BY <1>3 DEF Put, EntryInv, Shapes
<1>8. /\ built'[e] = built[e] \cup {v} /\ feeds'[e] \subseteq feeds[e] \cup {v}
      /\ cars' = cars /\ flight' = flight /\ outlived' = outlived /\ stray' = stray
      /\ service' = service /\ data' = data
  BY <1>1, <1>2 DEF Put, EntryInv, Shapes
<1>9. Place(e) /\ Owned(e) /\ Registers(e)
  BY Zenon DEF EntryInv, Local
<1>10. Place(e)'
  BY <1>2, <1>7, <1>8, <1>9 DEF Place
<1>11. Owned(e)'
  BY <1>8, <1>9 DEF Owned
<1>12. Registers(e)'
  BY <1>1, <1>8, <1>9 DEF Registers
<1>13. Local(e)'
  BY <1>10, <1>11, <1>12 DEF Local
<1> QED
  BY <1>1, <1>5, <1>6, <1>13, LocalStep
LEMMA AtMostOne ==
    ASSUME NEW S, IsFiniteSet(S), ~(Cardinality(S) > 1)
    PROVE  \A a, b \in S : a = b
<1> SUFFICES ASSUME NEW a \in S, NEW b \in S, a # b
             PROVE  FALSE
  OBVIOUS
<1>1. IsFiniteSet({a}) /\ Cardinality({a}) = 1
  BY FS_Singleton
<1>2. Cardinality({a} \cup {b}) = 2
  BY <1>1, FS_AddElement
<1>3. {a} \cup {b} \in SUBSET S
  OBVIOUS
<1>4. Cardinality({a} \cup {b}) <= Cardinality(S)
  BY <1>3, FS_Subset
<1>5. Cardinality(S) \in Nat
  BY FS_CardinalityType
<1> QED
  BY <1>2, <1>4, <1>5

(* The entry's record is made: it is the only one, or there are two.       *)
LEMMA OtherReturnsKeeps ==
    ASSUME EntryInv, NEW e \in Entries, OtherReturns(e)
    PROVE  EntryInv'
<1>1. /\ state[e] = "setup" /\ at[e] \in {"more", "wallbox", "features"}
      /\ data' = IF at[e] = "features" THEN data \cup {e} ELSE data
      /\ together' = (together \/ Cardinality(data') > 1)
      /\ UNCHANGED <<cars, built, clients, flight, service, valid, logins, reloads,
                     outlived>>
  BY DEF OtherReturns
<1>2. UNCHANGED <<feeds, client, stray, login, otpNeeded>>
  BY <1>1 DEF clients, logins
<1>3. /\ Place(e) /\ Owned(e) /\ Registers(e) /\ IsFiniteSet(data) /\ together \in BOOLEAN
      /\ data \in SUBSET Entries
  BY Zenon DEF EntryInv, Local, Shared
<1>4. IsFiniteSet(data') /\ Cardinality(data') \in Nat
  BY <1>1, <1>3, FS_AddElement, FS_CardinalityType
<1>5. \/ Answers /\ Proceeds(e, AfterVehicle(e)) /\ at[e] = "more"
      \/ Answers /\ Proceeds(e, "features") /\ at[e] = "wallbox"
      \/ Fails(e) /\ SetupFails(e, "retry") /\ at[e] # "features"
      \/ Answers /\ Proceeds(e, "platforms") /\ at[e] = "features"
  BY Zenon DEF OtherReturns
<1>6. PICK s \in {"setup", "cleaning"}, n \in Waits, t \in {"", "retry"} :
          /\ state' = Put(state, e, s) /\ at' = Put(at, e, n) /\ after' = Put(after, e, t)
          /\ s = "setup" <=> n # ""
          /\ s = "cleaning" <=> t = "retry"
          /\ n \in {"wallbox", "features", "platforms"} => built[e] = cars[e]
          /\ n = "platforms" <=> at[e] = "features"
  <2>1. after[e] = "" /\ (at[e] \in {"wallbox", "features"} => built[e] = cars[e])
    BY <1>1, <1>3 DEF Place
  <2>2. CASE at[e] # "features" /\ SetupFails(e, "retry")
    BY <2>2 DEF SetupFails, Waits
  <2>3. ASSUME NEW n \in Waits \ {""}, Proceeds(e, n)
        PROVE  state' = Put(state, e, "setup") /\ at' = Put(at, e, n) /\ after' = Put(after, e, "")
    BY <1>1, <2>1, <2>3 DEF Proceeds, Put, EntryInv, Shapes
  <2>4. CASE at[e] = "more" /\ Proceeds(e, AfterVehicle(e))
    <3>1. AfterVehicle(e) \in Waits \ {""} /\ AfterVehicle(e) # "platforms"
          /\ (AfterVehicle(e) \in {"wallbox", "features"} => built[e] = cars[e])
      BY DEF AfterVehicle, Waits
    <3> QED
      BY <2>3, <2>4, <3>1
  <2>5. CASE at[e] = "wallbox" /\ Proceeds(e, "features")
    <3>1. "features" \in Waits \ {""}
      BY DEF Waits
    <3> QED
      BY <2>1, <2>3, <2>5, <3>1
  <2>6. CASE at[e] = "features" /\ Proceeds(e, "platforms")
    <3>1. "platforms" \in Waits \ {""}
      BY DEF Waits
    <3> QED
      BY <2>1, <2>3, <2>6, <3>1
  <2> QED
    BY <1>5, <2>2, <2>4, <2>5, <2>6
<1>7. Shapes' /\ Elsewhere(e)
  BY <1>1, <1>2, <1>6 DEF Put, EntryInv, Shapes, Elsewhere, States
<1>8. Counts'
  BY <1>1, <1>5, FailsCounts DEF EntryInv, Counts
<1>9. state'[e] = s /\ at'[e] = n /\ after'[e] = t
  BY <1>6 DEF Put, EntryInv, Shapes
<1>10. Place(e)'
  BY <1>1, <1>2, <1>3, <1>6, <1>9 DEF Place
<1>11. Owned(e)'
  BY <1>1, <1>2, <1>3 DEF Owned
<1>12. Registers(e)'
  BY <1>1, <1>3, <1>6, <1>9 DEF Registers
<1>13. \A q \in Entries : Local(q)'
  <2>1. Local(e)'
    BY <1>10, <1>11, <1>12 DEF Local
  <2>2. service' = service
    BY <1>1
  <2> QED
    BY <1>7, <2>1, <2>2, ElsewhereKeeps
<1>14. together' \in BOOLEAN
  <2>1. (together \/ Cardinality(data') > 1) \in BOOLEAN
    OBVIOUS
  <2> QED
    BY <1>1, <2>1, Zenon
<1>15. ~together' => (\A a, b \in data' : a = b) /\ (service' # None => service' \in data')
  <2> SUFFICES ASSUME ~together'
               PROVE  (\A a, b \in data' : a = b) /\ (service' # None => service' \in data')
    OBVIOUS
  <2>1. ~together /\ ~(Cardinality(data') > 1)
    BY <1>1
  <2>3. \A a, b \in data' : a = b
    BY <1>4, <2>1, AtMostOne, Zenon
  <2>4. service # None => service \in data
    BY <2>1 DEF EntryInv, Shared
  <2> QED
    BY <1>1, <2>3, <2>4
<1>16. Shared'
  <2>1. service \in Entries \cup {None} /\ (service # None => data # {})
    BY DEF EntryInv, Shared
  <2>2. data' \in SUBSET Entries /\ data \subseteq data' /\ service' = service
    BY <1>1, <1>3
  <2> QED
    BY <1>4, <1>14, <1>15, <2>1, <2>2 DEF Shared
<1> QED
  BY <1>7, <1>8, <1>13, <1>16 DEF EntryInv

(* The service is there once a setup has ended.                            *)
LEMMA SetupEndsKeeps ==
    ASSUME EntryInv, NEW e \in Entries, SetupEnds(e)
    PROVE  EntryInv'
<1>1. /\ state[e] = "setup" /\ at[e] = "platforms"
      /\ state' = Put(state, e, "loaded") /\ at' = Put(at, e, "")
      /\ service' = IF service = None THEN e ELSE service
      /\ UNCHANGED <<cars, failures, after, built, feeds, client, stray, flight, data, valid,
                     login, otpNeeded, reloads, outlived, together>>
  BY DEF SetupEnds, clients, logins
<1>2. Shapes' /\ Elsewhere(e)
  BY <1>1 DEF Put, EntryInv, Shapes, Elsewhere, States, Resting, Waits
<1>3. Counts'
  BY <1>1 DEF EntryInv, Counts
<1>4. state'[e] = "loaded" /\ at'[e] = ""
  BY <1>1 DEF Put, EntryInv, Shapes
<1>5. Place(e) /\ Owned(e) /\ Registers(e)
  BY Zenon DEF EntryInv, Local
<1>6. e \in data /\ service' # None
  BY <1>1, <1>5, EntryAssumption DEF Place
<1>7. Place(e)'
  BY <1>1, <1>4, <1>5, <1>6 DEF Place
<1>8. Owned(e)'
  BY <1>1, <1>5 DEF Owned
<1>9. Registers(e)'
  BY <1>6 DEF Registers
<1>10. \A q \in Entries : Local(q)'
  <2>1. Local(e)'
    BY <1>7, <1>8, <1>9 DEF Local
  <2> QED
    BY <1>2, <1>6, <2>1, ElsewhereKeeps
<1>11. Shared'
  <2>1. Shared /\ data' = data /\ together' = together
    BY <1>1 DEF EntryInv
  <2>2. service' \in Entries \cup {None}
    BY <1>1, <2>1 DEF Shared
  <2>3. ~together => (\A a, b \in data : a = b) /\ service' \in data
    BY <1>1, <1>6, <2>1 DEF Shared
  <2> QED
    BY <1>6, <2>1, <2>2, <2>3 DEF Shared
<1> QED
  BY <1>2, <1>3, <1>10, <1>11 DEF EntryInv

LEMMA UnloadBeginsKeeps ==
    ASSUME EntryInv, NEW e \in Entries, UnloadBegins(e)
    PROVE  EntryInv'
<1>1. /\ state[e] = "loaded"
      /\ state' = Put(state, e, "unloading") /\ at' = Put(at, e, "platforms")
      /\ UNCHANGED <<cars, failures, after, built, feeds, client, stray, flight, data, service,
                     valid, login, otpNeeded, outlived, together>>
  BY DEF UnloadBegins, clients, logins
<1>2. Shapes' /\ Elsewhere(e)
  BY <1>1 DEF Put, EntryInv, Shapes, Elsewhere, States, Waits
<1>3. Counts'
  BY <1>1 DEF UnloadBegins, Put, EntryInv, Counts
<1>4. state'[e] = "unloading" /\ at'[e] = "platforms"
  BY <1>1 DEF Put, EntryInv, Shapes
<1>5. Place(e) /\ Owned(e) /\ Registers(e)
  BY Zenon DEF EntryInv, Local
<1>6. Place(e)'
  BY <1>1, <1>4, <1>5 DEF Place
<1>7. Owned(e)'
  BY <1>1, <1>5 DEF Owned
<1>8. Registers(e)'
  BY <1>1, <1>5 DEF Place, Registers
<1>9. Local(e)'
  BY <1>6, <1>7, <1>8 DEF Local
<1> QED
  BY <1>1, <1>2, <1>3, <1>9, LocalStep

(* The last entry that unloads takes the service with it.                  *)
LEMMA UnloadEndsKeeps ==
    ASSUME EntryInv, NEW e \in Entries, UnloadEnds(e)
    PROVE  EntryInv'
<1>1. /\ state[e] = "unloading" /\ at' = Put(at, e, "")
      /\ client' = Put(client, e, "closed")
      /\ UNCHANGED <<cars, failures, built, feeds, stray, flight, valid, login, otpNeeded,
                     reloads, outlived, together>>
  BY DEF UnloadEnds, logins
<1>2. \/ /\ state' = Put(state, e, "cleaning") /\ after' = Put(after, e, "not_loaded")
         /\ data' = data \ {e}
         /\ service' = ServiceAfter(data \ {e})
      \/ state' = Put(state, e, "failed") /\ UNCHANGED <<after, data, service>>
  BY DEF UnloadEnds
<1>3. Shapes' /\ Elsewhere(e)
  BY <1>1, <1>2 DEF Put, EntryInv, Shapes, Elsewhere, States, Resting, Waits
<1>4. Counts'
  BY <1>1 DEF EntryInv, Counts
<1>5. Place(e) /\ Owned(e) /\ Registers(e) /\ e \in data
  <2>1. Place(e) /\ Owned(e) /\ Registers(e)
    BY Zenon DEF EntryInv, Local
  <2> QED
    BY <1>1, <2>1 DEF Place
<1>6. /\ at'[e] = "" /\ client'[e] = "closed"
      /\ \/ state'[e] = "cleaning" /\ after'[e] = "not_loaded" /\ e \notin data'
         \/ state'[e] = "failed" /\ after'[e] = after[e] /\ e \in data' /\ service' = service
  BY <1>1, <1>2, <1>5 DEF Put, EntryInv, Shapes
<1>7. Place(e)'
  BY <1>1, <1>5, <1>6 DEF Place
<1>8. Owned(e)'
  BY <1>1, <1>5, <1>6 DEF Owned
<1>9. Registers(e)'
  BY <1>1, <1>5, <1>6 DEF Registers
<1>10. \A q \in Entries : Local(q)'
  <2>1. Local(e)'
    BY <1>7, <1>8, <1>9 DEF Local
  <2>2. service' = service \/ data' = {}
    BY <1>2 DEF ServiceAfter
  <2> QED
    BY <1>3, <2>1, <2>2, ElsewhereKeeps
<1>11. Shared'
  <2>1. Shared /\ together' = together
    BY <1>1 DEF EntryInv
  <2>2. CASE UNCHANGED <<data, service>>
    BY <2>1, <2>2 DEF Shared
  <2>3. CASE data' = data \ {e} /\ service' = ServiceAfter(data \ {e})
    <3>1. IsFiniteSet(data')
      BY <2>1, <2>3, FS_RemoveElement DEF Shared
    <3>2. service' \in Entries \cup {None} /\ (service' # None => data' # {})
      BY <2>1, <2>3 DEF Shared, ServiceAfter
    <3>3. ~together => data' = {} /\ service' = None
      BY <1>5, <2>1, <2>3 DEF Shared, ServiceAfter
    <3> QED
      BY <2>1, <2>3, <3>1, <3>2, <3>3 DEF Shared
  <2> QED
    BY <1>2, <2>2, <2>3
<1> QED
  BY <1>3, <1>4, <1>10, <1>11 DEF EntryInv

(* Whatever order the coordinators shut down in.                           *)
LEMMA ShutsDownKeeps ==
    ASSUME EntryInv, NEW e \in Entries, NEW v \in cars[e], ShutsDown(e, v)
    PROVE  EntryInv'
<1>1. /\ state[e] = "cleaning" /\ v \in built[e]
      /\ built' = Put(built, e, built[e] \ {v})
      /\ feeds' = Put(feeds, e, feeds[e] \ {v})
      /\ client' = Put(client, e, "closed")
      /\ UNCHANGED <<cars, failures, state, at, after, stray, flight, data, service, valid,
                     login, otpNeeded, reloads, together>>
  BY DEF ShutsDown, ShutdownCloses, logins
<1>2. PICK b \in BOOLEAN : outlived' = Put(outlived, e, b) /\ (b <=> outlived[e] \/ v \in flight[e])
  <2>1. outlived' = Put(outlived, e, outlived[e] \/ v \in flight[e])
    BY DEF ShutsDown
  <2>2. (outlived[e] \/ v \in flight[e]) \in BOOLEAN
    OBVIOUS
  <2> QED
    BY <2>1, <2>2, Zenon
<1>3. Shapes' /\ Elsewhere(e)
  <2>1. built[e] \ {v} \in SUBSET Vehicles /\ feeds[e] \ {v} \in SUBSET Vehicles
    BY DEF EntryInv, Shapes
  <2> QED
    BY <1>1, <1>2, <2>1 DEF Put, EntryInv, Shapes, Elsewhere
<1>4. Counts'
  BY <1>1 DEF EntryInv, Counts
<1>5. Place(e) /\ Owned(e) /\ Registers(e)
  BY Zenon DEF EntryInv, Local
<1>6. /\ built'[e] = built[e] \ {v} /\ feeds'[e] = feeds[e] \ {v} /\ client'[e] = "closed"
      /\ outlived'[e] <=> outlived[e] \/ v \in flight[e]
  BY <1>1, <1>2 DEF Put, EntryInv, Shapes
<1>7. Place(e)'
  BY <1>1, <1>5, <1>6 DEF Place
<1>8. Owned(e)'
  BY <1>1, <1>5, <1>6 DEF Owned
<1>9. Registers(e)'
  BY <1>1, <1>5 DEF Registers
<1>10. Local(e)'
  BY <1>7, <1>8, <1>9 DEF Local
<1> QED
  BY <1>1, <1>3, <1>4, <1>10, LocalStep

LEMMA CleanedUpKeeps ==
    ASSUME EntryInv, NEW e \in Entries, CleanedUp(e)
    PROVE  EntryInv'
<1>1. /\ state[e] = "cleaning" /\ built[e] = {}
      /\ state' = Put(state, e, after[e]) /\ after' = Put(after, e, "")
      /\ UNCHANGED <<cars, failures, at, built, feeds, client, stray, flight, data, service,
                     valid, login, otpNeeded, reloads, outlived, together>>
  BY DEF CleanedUp, clients, logins
<1>2. Place(e) /\ Owned(e) /\ Registers(e)
  BY Zenon DEF EntryInv, Local
<1>3. after[e] \in {"not_loaded", "retry", "error"}
  BY <1>1, <1>2 DEF Place, EntryInv, Shapes
<1>4. Shapes' /\ Elsewhere(e)
  BY <1>1, <1>3 DEF Put, EntryInv, Shapes, Elsewhere, States, Resting
<1>5. Counts'
  BY <1>1 DEF EntryInv, Counts
<1>6. state'[e] = after[e] /\ after'[e] = ""
  BY <1>1 DEF Put, EntryInv, Shapes
<1>7. Place(e)'
  BY <1>1, <1>2, <1>3, <1>6 DEF Place
<1>8. Owned(e)'
  BY <1>1, <1>2 DEF Owned
<1>9. Registers(e)'
  BY <1>1, <1>2 DEF Registers
<1>10. Local(e)'
  BY <1>7, <1>8, <1>9 DEF Local
<1> QED
  BY <1>1, <1>4, <1>5, <1>10, LocalStep

LEMMA RefreshBeginsKeeps ==
    ASSUME EntryInv, NEW e \in Entries, NEW v \in cars[e], RefreshBegins(e, v)
    PROVE  EntryInv'
<1>1. /\ v \in built[e] /\ flight' = Put(flight, e, flight[e] \cup {v})
      /\ UNCHANGED <<cars, failures, state, at, after, built, feeds, client, stray, data, service,
                     valid, login, otpNeeded, reloads, outlived, together>>
  BY DEF RefreshBegins, clients, logins
<1>2. Shapes' /\ Elsewhere(e)
  <2>1. flight[e] \cup {v} \in SUBSET Vehicles
    BY DEF EntryInv, Shapes
  <2> QED
    BY <1>1, <2>1 DEF Put, EntryInv, Shapes, Elsewhere
<1>3. Counts'
  BY <1>1 DEF EntryInv, Counts
<1>4. Place(e) /\ Owned(e) /\ Registers(e)
  BY Zenon DEF EntryInv, Local
<1>5. flight'[e] = flight[e] \cup {v}
  BY <1>1 DEF Put, EntryInv, Shapes
<1>6. Place(e)'
  BY <1>1, <1>4, <1>5 DEF Place
<1>7. Owned(e)'
  BY <1>1, <1>4, <1>5 DEF Owned
<1>8. Registers(e)'
  BY <1>1, <1>4 DEF Registers
<1>9. Local(e)'
  BY <1>6, <1>7, <1>8 DEF Local
<1> QED
  BY <1>1, <1>2, <1>3, <1>9, LocalStep

(* A refresh that did not outlive its coordinator connects for one that is *)
(* still to be shut down.                                                  *)
LEMMA RefreshEndsKeeps ==
    ASSUME EntryInv, NEW e \in Entries, NEW v \in cars[e], RefreshEnds(e, v)
    PROVE  EntryInv'
<1>1. /\ v \in flight[e] /\ flight' = Put(flight, e, flight[e] \ {v})
      /\ \/ feeds' = Put(feeds, e, feeds[e] \cup {v}) /\ client' = Put(client, e, "open")
         \/ UNCHANGED <<feeds, client>>
      /\ UNCHANGED <<cars, failures, state, at, after, built, stray, data, service, valid,
                     login, otpNeeded, reloads, outlived, together>>
  BY DEF RefreshEnds, logins
<1>2. Shapes' /\ Elsewhere(e)
  <2>1. flight[e] \ {v} \in SUBSET Vehicles /\ feeds[e] \cup {v} \in SUBSET Vehicles
    BY DEF EntryInv, Shapes
  <2> QED
    BY <1>1, <2>1 DEF Put, EntryInv, Shapes, Elsewhere
<1>3. Counts'
  BY <1>1 DEF EntryInv, Counts
<1>4. Place(e) /\ Owned(e) /\ Registers(e)
  BY Zenon DEF EntryInv, Local
<1>5. /\ flight'[e] = flight[e] \ {v} /\ feeds'[e] \subseteq feeds[e] \cup {v}
      /\ client'[e] = client[e] \/ (client'[e] = "open" /\ v \in flight[e])
  BY <1>1 DEF Put, EntryInv, Shapes
<1>6. Place(e)'
  BY <1>1, <1>4, <1>5 DEF Place
<1>7. Owned(e)'
  BY <1>1, <1>4, <1>5 DEF Owned
<1>8. Registers(e)'
  BY <1>1, <1>4 DEF Registers
<1>9. Local(e)'
  BY <1>6, <1>7, <1>8 DEF Local
<1> QED
  BY <1>1, <1>2, <1>3, <1>9, LocalStep

-----------------------------------------------------------------------------
(* What only concerns the login, the tokens and the reloads asked for.     *)
LEMMA ApartKeeps ==
    ASSUME EntryInv, NEW e \in Entries, NEW r \in 0 .. 2,
           state' = state \/ (state[e] = "absent" /\ state' = Put(state, e, "not_loaded")),
           client' = client \/ client' = Put(client, e, "closed"),
           valid' \in [Entries -> BOOLEAN], otpNeeded' \in [Entries -> BOOLEAN],
           login' \in [Entries -> {"none", "credentials", "otp"}],
           reloads' = Put(reloads, e, r), failures' \in [Entries -> 0 .. MaxFailures],
           UNCHANGED <<cars, at, after, built, feeds, stray, flight, data, service, outlived,
                       together>>
    PROVE  EntryInv'
<1>1. Shapes' /\ Elsewhere(e)
  BY DEF Put, EntryInv, Shapes, Elsewhere, States, Resting
<1>2. Counts'
  BY DEF Put, EntryInv, Counts
<1>3. Place(e) /\ Owned(e) /\ Registers(e)
  BY Zenon DEF EntryInv, Local
<1>4. /\ state'[e] = state[e] \/ (state[e] = "absent" /\ state'[e] = "not_loaded")
      /\ client'[e] = client[e] \/ client'[e] = "closed"
  BY DEF Put, EntryInv, Shapes
<1>5. Place(e)'
  BY <1>3, <1>4 DEF Place
<1>6. Owned(e)'
  BY <1>3, <1>4 DEF Owned
<1>7. Registers(e)'
  BY <1>3, <1>4 DEF Place, Registers
<1>8. Local(e)'
  BY <1>5, <1>6, <1>7 DEF Local
<1> QED
  BY <1>1, <1>2, <1>8, LocalStep

LEMMA Kinds ==
    ASSUME EntryInv, NEW e \in Entries
    PROVE  /\ valid \in [Entries -> BOOLEAN] /\ otpNeeded \in [Entries -> BOOLEAN]
           /\ login \in [Entries -> {"none", "credentials", "otp"}]
           /\ failures \in [Entries -> 0 .. MaxFailures]
           /\ reloads[e] \in 0 .. 2 /\ reloads = Put(reloads, e, reloads[e])
BY DEF EntryInv, Shapes, Counts, Put

LEMMA ReloadRefusedKeeps ==
    ASSUME EntryInv, NEW e \in Entries, ReloadRefused(e)
    PROVE  EntryInv'
<1>1. reloads[e] - 1 \in 0 .. 2
  BY Kinds DEF ReloadRefused
<1>2. /\ reloads' = Put(reloads, e, reloads[e] - 1)
      /\ UNCHANGED <<cars, failures, state, at, after, built, feeds, client, stray, flight, data,
                     service, valid, login, otpNeeded, outlived, together>>
  BY DEF ReloadRefused, clients, logins
<1> QED
  BY <1>1, <1>2, Kinds, ApartKeeps

LEMMA OptionsChangeKeeps ==
    ASSUME EntryInv, NEW e \in Entries, OptionsChange(e)
    PROVE  EntryInv'
<1>1. /\ reloads' = Put(reloads, e, 1)
      /\ UNCHANGED <<cars, failures, state, at, after, built, feeds, client, stray, flight, data,
                     service, valid, login, otpNeeded, outlived, together>>
  BY DEF OptionsChange, clients, logins
<1> QED
  BY <1>1, Kinds, ApartKeeps

LEMMA TokensExpireKeeps ==
    ASSUME EntryInv, NEW e \in Entries, TokensExpire(e)
    PROVE  EntryInv'
<1>1. /\ valid' = Put(valid, e, FALSE)
      /\ UNCHANGED <<cars, failures, state, at, after, built, feeds, client, stray, flight, data,
                     service, login, otpNeeded, reloads, outlived, together>>
  BY DEF TokensExpire, clients, logins
<1>2. valid' \in [Entries -> BOOLEAN]
  BY <1>1, Kinds, PutIs
<1> QED
  BY <1>1, <1>2, Kinds, ApartKeeps

LEMMA AuthFailsKeeps ==
    ASSUME EntryInv, NEW e \in Entries, AuthFails(e)
    PROVE  EntryInv'
<1>1. /\ client' = Put(client, e, "closed")
      /\ login' = Put(login, e, "credentials") /\ otpNeeded' = Put(otpNeeded, e, FALSE)
      /\ UNCHANGED <<cars, failures, state, at, after, built, feeds, stray, flight, data, service,
                     valid, reloads, outlived, together>>
  BY DEF AuthFails
<1>2. login' \in [Entries -> {"none", "credentials", "otp"}] /\ otpNeeded' \in [Entries -> BOOLEAN]
  BY <1>1, Kinds, PutIs
<1> QED
  BY <1>1, <1>2, Kinds, ApartKeeps

LEMMA LoginEndsKeeps ==
    ASSUME EntryInv, NEW e \in Entries, LoginEnds(e)
    PROVE  EntryInv'
<1>1. /\ login' = Put(login, e, "none") /\ otpNeeded' = Put(otpNeeded, e, FALSE)
      /\ valid' = Put(valid, e, TRUE)
      /\ UNCHANGED <<cars, failures, at, after, built, feeds, client, stray, flight, data, service,
                     outlived, together>>
  BY DEF LoginEnds, clients
<1>2. /\ login' \in [Entries -> {"none", "credentials", "otp"}]
      /\ otpNeeded' \in [Entries -> BOOLEAN] /\ valid' \in [Entries -> BOOLEAN]
  BY <1>1, Kinds, PutIs
<1>3. CASE state[e] = "absent" /\ state' = Put(state, e, "not_loaded") /\ UNCHANGED reloads
  BY <1>1, <1>2, <1>3, Kinds, ApartKeeps
<1>4. CASE /\ UNCHANGED state
           /\ reloads' = Put(reloads, e, IF state[e] = "loaded" THEN 2 ELSE 1)
  <2>1. PICK r \in 0 .. 2 : reloads' = Put(reloads, e, r)
    BY <1>4
  <2> QED
    BY <1>1, <1>2, <1>4, <2>1, Kinds, ApartKeeps
<1> QED
  BY <1>3, <1>4 DEF LoginEnds

LEMMA ShowsKeeps ==
    ASSUME EntryInv, NEW e \in Entries, NEW page \in {"credentials", "otp"}, Shows(e, page),
           otpNeeded' \in [Entries -> BOOLEAN], Fails(e) \/ Answers
    PROVE  EntryInv'
<1>1. /\ login' = Put(login, e, page)
      /\ UNCHANGED <<cars, state, at, after, built, feeds, client, stray, flight, data, service,
                     valid, reloads, outlived, together>>
  BY DEF Shows, clients
<1>2. login' \in [Entries -> {"none", "credentials", "otp"}]
  BY <1>1, Kinds, PutIs
<1>3. failures' \in [Entries -> 0 .. MaxFailures]
  BY FailsCounts
<1> QED
  BY <1>1, <1>2, <1>3, Kinds, ApartKeeps

LEMMA LoginKeeps ==
    ASSUME EntryInv, NEW e \in Entries, Credentials(e) \/ OneTimePassword(e)
    PROVE  EntryInv'
<1>1. CASE otpNeeded' = Put(otpNeeded, e, TRUE) /\ Shows(e, "otp") /\ Answers
  <2>1. otpNeeded' \in [Entries -> BOOLEAN]
    BY <1>1, Kinds, PutIs
  <2> QED
    BY <1>1, <2>1, ShowsKeeps
<1>2. CASE Fails(e) /\ Shows(e, "credentials") /\ UNCHANGED otpNeeded
  <2>1. otpNeeded' \in [Entries -> BOOLEAN]
    BY <1>2, Kinds
  <2> QED
    BY <1>2, <2>1, ShowsKeeps
<1>3. CASE LoginEnds(e)
  BY <1>3, LoginEndsKeeps
<1> QED
  BY <1>1, <1>2, <1>3 DEF Credentials, OneTimePassword

-----------------------------------------------------------------------------
LEMMA EntryInvInit == EntryInit => EntryInv
<1> SUFFICES ASSUME EntryInit
             PROVE  EntryInv
  OBVIOUS
<1>1. /\ cars \in [Entries -> SUBSET Vehicles] /\ login \in [Entries -> {"none", "credentials"}]
      /\ state = Everywhere("absent") /\ at = Everywhere("") /\ after = Everywhere("")
      /\ built = Everywhere({}) /\ feeds = Everywhere({}) /\ flight = Everywhere({})
      /\ client = Everywhere("none") /\ stray = Everywhere(FALSE) /\ data = {} /\ service = None
      /\ valid = Everywhere(FALSE) /\ otpNeeded = Everywhere(FALSE) /\ reloads = Everywhere(0)
      /\ failures = Everywhere(0) /\ outlived = Everywhere(FALSE) /\ together = FALSE
  BY DEF EntryInit
<1>2. Shapes
  BY <1>1 DEF Shapes, Everywhere, States, Resting, Waits
<1>3. Counts
  <2>1. 0 \in 0 .. MaxFailures /\ 0 \in 0 .. 2
    BY EntryAssumption
  <2> QED
    BY <1>1, <2>1 DEF Counts, Everywhere
<1>4. \A e \in Entries : Local(e)
  BY <1>1 DEF Local, Place, Owned, Registers, Everywhere
<1>5. Shared
  BY <1>1, FS_EmptySet DEF Shared
<1> QED
  BY <1>2, <1>3, <1>4, <1>5 DEF EntryInv

LEMMA EntryInvNext == EntryInv /\ [EntryNext]_entryVars => EntryInv'
<1> SUFFICES ASSUME EntryInv, [EntryNext]_entryVars
             PROVE  EntryInv'
  OBVIOUS
<1>1. CASE UNCHANGED entryVars
  BY <1>1 DEF entryVars, EntryInv, Shapes, Counts, Local, Place, Owned, Registers, Shared
<1>2. ASSUME NEW e \in Entries, EntryStep(e)
      PROVE  EntryInv'
  <2>1. ASSUME NEW v \in cars[e], ShutsDown(e, v) \/ RefreshBegins(e, v) \/ RefreshEnds(e, v)
        PROVE  EntryInv'
    BY <2>1, ShutsDownKeeps, RefreshBeginsKeeps, RefreshEndsKeeps
  <2> QED
    BY <1>2, <2>1, SetupBeginsKeeps, CsrfReturnsKeeps, UserReturnsKeeps, VehicleReturnsKeeps,
       OtherReturnsKeeps, SetupEndsKeeps, UnloadBeginsKeeps, UnloadEndsKeeps, CleanedUpKeeps,
       ReloadRefusedKeeps, OptionsChangeKeeps, TokensExpireKeeps, AuthFailsKeeps, LoginKeeps
       DEF EntryStep
<1> QED
  BY <1>1, <1>2 DEF EntryNext

(* Whatever of a setup failed and in whatever order its vehicles shut      *)
(* down, an entry at rest that is not loaded has no websocket and no       *)
(* subscription, and the one service lives as long as an entry that can    *)
(* answer it (async_setup_entry, async_unload_entry).                      *)
THEOREM NothingIsLeftOpen == EntrySpec => []EntryLeavesNothing
<1>1. EntryInv => EntryLeavesNothing
  <2> SUFFICES ASSUME EntryInv
               PROVE  EntryLeavesNothing
    OBVIOUS
  <2>1. \A e \in Entries : Place(e) /\ Owned(e) /\ Registers(e)
    BY Zenon DEF EntryInv, Local
  <2>2. Shapes /\ Counts /\ Shared
    BY DEF EntryInv
  <2>3. EntryTypeOK
    <3>1. /\ cars \in [Entries -> SUBSET Vehicles] /\ login \in [Entries -> {"none", "credentials", "otp"}]
          /\ state \in [Entries -> Resting \cup {"setup", "unloading", "cleaning"}]
          /\ at \in [Entries -> {"", "csrf", "user", "vehicle", "more", "wallbox",
                                 "features", "platforms"}]
          /\ after \in [Entries -> {"", "not_loaded", "retry", "error"}]
          /\ client \in [Entries -> {"none", "open", "closed"}]
          /\ {stray, valid, otpNeeded, outlived} \subseteq [Entries -> BOOLEAN]
      BY <2>2 DEF Shapes, States, Waits
    <3>2. /\ reloads \in [Entries -> 0 .. 2] /\ failures \in [Entries -> 0 .. MaxFailures]
          /\ data \subseteq Entries /\ service \in Entries \cup {None} /\ together \in BOOLEAN
      BY <2>2 DEF Counts, Shared
    <3>3. \A e \in Entries : /\ built[e] \subseteq cars[e] /\ flight[e] \subseteq cars[e]
                             /\ feeds[e] \subseteq cars[e]
                             /\ (at[e] # "") = (state[e] \in {"setup", "unloading"})
                             /\ (after[e] # "") = (state[e] = "cleaning")
                             /\ state[e] = "loaded" => e \in data /\ built[e] = cars[e]
      <4> SUFFICES ASSUME NEW e \in Entries
                   PROVE  /\ built[e] \subseteq cars[e] /\ flight[e] \subseteq cars[e]
                          /\ feeds[e] \subseteq cars[e]
                          /\ (at[e] # "") = (state[e] \in {"setup", "unloading"})
                          /\ (after[e] # "") = (state[e] = "cleaning")
                          /\ state[e] = "loaded" => e \in data /\ built[e] = cars[e]
        OBVIOUS
      <4>1. Place(e)
        BY <2>1
      <4>2. (at[e] # "") = (state[e] \in {"setup", "unloading"})
        <5>1. at[e] # "" <=> state[e] \in {"setup", "unloading"}
          BY <4>1 DEF Place
        <5>2. (at[e] # "") \in BOOLEAN /\ (state[e] \in {"setup", "unloading"}) \in BOOLEAN
          OBVIOUS
        <5> QED
          BY <5>1, <5>2, Zenon
      <4>3. (after[e] # "") = (state[e] = "cleaning")
        BY <4>1 DEF Place
      <4> QED
        BY <4>1, <4>2, <4>3 DEF Place
    <3> QED
      BY <3>1, <3>2, <3>3 DEF EntryTypeOK
  <2>4. NothingLeftOpen
    BY <2>1 DEF NothingLeftOpen, Place, Owned
  <2>5. ServiceWithEntries
    BY <2>1, <2>2 DEF ServiceWithEntries, Registers, Shared
  <2>6. ServiceAnswers
    BY <2>2 DEF ServiceAnswers, Shared
  <2> QED
    BY <2>3, <2>4, <2>5, <2>6 DEF EntryLeavesNothing
<1> QED
  BY <1>1, EntryInvInit, EntryInvNext, PTL DEF EntrySpec

-----------------------------------------------------------------------------
(* The options forms.                                                      *)
FormState == [at : {"none", "open", "reading", "loop"}, copy : Options, want : SUBSET Cars,
              key : Keys \cup {NoKey}, new : BOOLEAN, todo : SUBSET Cars]

PhoneShapes ==
    /\ phones \in SUBSET (Cars \X Keys) /\ options \in Options /\ form \in [Forms -> FormState]
    /\ presence \in {"kept", "reloading", "removing", "removed"}
    /\ identity \in SUBSET Cars /\ leaving \in SUBSET Cars /\ used \in SUBSET Keys
    /\ twoFactor \in BOOLEAN /\ limited \in BOOLEAN /\ overlapped \in BOOLEAN
    /\ failed \in BOOLEAN /\ lapsed \in BOOLEAN /\ stuck \in BOOLEAN

(* A key in use was generated, and control is asked for with a key and     *)
(* a second factor, that may have lapsed.                                  *)
KeysUsed ==
    /\ \A c \in Cars, k \in Keys : <<c, k>> \in phones => k \in used
    /\ options.key \in used \cup {NoKey}
    /\ \A f \in Forms : form[f].key \in used \cup {NoKey} /\ form[f].copy.key \in used \cup {NoKey}
    /\ options.control # {} => twoFactor \/ lapsed
    /\ \A f \in Forms : Open(f, "loop") /\ form[f].want # {} =>
          form[f].key # NoKey /\ (twoFactor \/ lapsed)

(* A form that is alone has the entry's options, and enrols with its key   *)
(* or the first it gets.                                                   *)
FormAlone(f) ==
    ~Open(f, "none") =>
        /\ presence = "kept" /\ form[f].copy = options
        /\ \A g \in Forms \ {f} : Open(g, "none")
        /\ Open(f, "loop") => form[f].key = SavedKey(f) /\ (form[f].new => options.key = NoKey)

Alone ==
    ~overlapped =>
        /\ \A f \in Forms : FormAlone(f)
        /\ options.control # {} => options.key # NoKey

(* The phones are of one key, and of these vehicles; these vehicles have   *)
(* one.                                                                    *)
Only(key, S) == \A c \in Cars, k \in Keys : <<c, k>> \in phones => k = key /\ c \in S

Have(key, S) == \A c \in S : <<c, key>> \in phones

Untouched == presence \in {"kept", "reloading"} /\ \A f \in Forms : ~Open(f, "loop")

Agreed ==
    /\ Untouched => /\ Have(options.key, options.control) /\ Only(options.key, Cars)
                    /\ ~failed => Only(options.key, options.control)
    /\ \A f \in Forms : Open(f, "loop") =>
          /\ Have(form[f].key, form[f].want \ form[f].todo)
          /\ Only(form[f].key, Cars)
          /\ ~failed => Only(form[f].key, form[f].want \cup form[f].todo)
    /\ presence = "kept" /\ ~failed => identity = options.control \/ (lapsed /\ identity = {})
    /\ presence \in {"removing", "removed"} /\ ~stuck => Only(options.key, leaving)
    /\ presence = "removed" => leaving = {}

PhoneInv == PhoneShapes /\ KeysUsed /\ Alone /\ (~limited /\ ~overlapped => Agreed)

LEMMA SetsIs ==
    ASSUME PhoneShapes, NEW f \in Forms, NEW r \in FormState, Sets(f, r)
    PROVE  /\ form' \in [Forms -> FormState] /\ form'[f] = r
           /\ \A g \in Forms \ {f} : form'[g] = form[g]
BY DEF PhoneShapes, Sets

LEMMA FormIs ==
    ASSUME PhoneShapes, NEW f \in Forms
    PROVE  /\ form[f] \in FormState /\ form[f].at \in {"none", "open", "reading", "loop"}
           /\ form[f].copy \in Options /\ form[f].want \in SUBSET Cars
           /\ form[f].key \in Keys \cup {NoKey} /\ form[f].new \in BOOLEAN
           /\ form[f].todo \in SUBSET Cars
           /\ options \in Options /\ options.control \in SUBSET Cars
           /\ options.key \in Keys \cup {NoKey}
           /\ NotOpen \in FormState
BY DEF PhoneShapes, FormState, Options, NotOpen

(* A form that is not in its loop changes nothing of the entry.            *)
LEMMA OutsideLoopKeeps ==
    ASSUME PhoneInv, NEW f \in Forms, NEW r \in FormState, ~Open(f, "loop"), r.at # "loop",
           Sets(f, r), r.key \in used \cup {NoKey}, r.copy.key \in used \cup {NoKey},
           overlapped' \in BOOLEAN, overlapped => overlapped',
           ~overlapped' /\ r.at # "none" =>
              presence = "kept" /\ r.copy = options /\ \A g \in Forms \ {f} : Open(g, "none"),
           ~overlapped' /\ r.at = "none" => ~Open(f, "none"),
           UNCHANGED <<phones, twoFactor, options, presence, identity, leaving, used, limited,
                       failed, lapsed, stuck>>
    PROVE  PhoneInv'
<1>1. PhoneShapes /\ KeysUsed /\ Alone /\ (~limited /\ ~overlapped => Agreed)
  BY DEF PhoneInv
<1>2. /\ form' \in [Forms -> FormState] /\ form'[f] = r
      /\ \A g \in Forms \ {f} : form'[g] = form[g]
  BY <1>1, SetsIs
<1>3. PhoneShapes'
  BY <1>1, <1>2 DEF PhoneShapes
<1>4. KeysUsed'
  BY <1>1, <1>2 DEF KeysUsed, Open
<1>5. \A g \in Forms : Open(g, "loop")' => g # f /\ Open(g, "loop")
  BY <1>2 DEF Open
<1>6. Alone'
  <2> SUFFICES ASSUME ~overlapped'
               PROVE  /\ \A g \in Forms : FormAlone(g)'
                      /\ options'.control # {} => options'.key # NoKey
    BY DEF Alone
  <2>1. (\A g \in Forms : FormAlone(g)) /\ (options.control # {} => options.key # NoKey)
    BY <1>1 DEF Alone
  <2>2. FormAlone(f)'
    BY <1>2 DEF FormAlone, Open
  <2>3. ASSUME NEW g \in Forms \ {f}
        PROVE  FormAlone(g)'
    <3>1. CASE Open(g, "none")
      BY <1>2, <3>1 DEF FormAlone, Open
    <3>2. CASE ~Open(g, "none")
      <4>1. Open(f, "none") /\ FormAlone(g)
        BY <2>1, <3>2 DEF FormAlone
      <4>2. r.at = "none"
        BY <3>2
      <4> QED
        BY <4>1, <4>2
    <3> QED
      BY <3>1, <3>2
  <2> QED
    BY <2>1, <2>2, <2>3
<1>7. Agreed => Agreed'
  <2>1. Untouched => Untouched'
    BY <1>5 DEF Untouched
  <2>2. Untouched' => Untouched
    BY <1>2 DEF Untouched, Open
  <2> QED
    BY <1>2, <1>5, <2>2 DEF Agreed, Only, Have
<1> QED
  BY <1>1, <1>3, <1>4, <1>6, <1>7 DEF PhoneInv

LEMMA FormOpensKeeps ==
    ASSUME PhoneInv, NEW f \in Forms, FormOpens(f)
    PROVE  PhoneInv'
<1>1. PhoneShapes /\ KeysUsed
  BY DEF PhoneInv
<1> DEFINE r == [NotOpen EXCEPT !.at = "open", !.copy = options]
<1>2. r \in FormState /\ r.at = "open" /\ r.copy = options /\ r.key = NoKey
  BY <1>1, FormIs DEF NotOpen, FormState
<1>3. /\ presence = "kept" /\ Open(f, "none") /\ Sets(f, r)
      /\ UNCHANGED <<phones, twoFactor, options, presence, identity, leaving, used, limited,
                     failed, lapsed, stuck>>
  BY DEF FormOpens, account, entry
<1>4. overlapped' \in BOOLEAN /\ (overlapped' <=> overlapped \/ ~Idle)
  <2>1. (overlapped \/ ~Idle) \in BOOLEAN
    OBVIOUS
  <2> QED
    BY <2>1, Zenon DEF FormOpens
<1>5. options.key \in used \cup {NoKey}
  BY <1>1 DEF KeysUsed
<1> HIDE DEF r
<1>6. ~overlapped' => \A g \in Forms \ {f} : Open(g, "none")
  BY <1>4 DEF Idle, Open
<1> QED
  BY <1>2, <1>3, <1>4, <1>5, <1>6, OutsideLoopKeeps DEF Open

LEMMA FormClosedKeeps ==
    ASSUME PhoneInv, NEW f \in Forms, FormClosed(f)
    PROVE  PhoneInv'
<1>1. PhoneShapes /\ KeysUsed
  BY DEF PhoneInv
<1>2. NotOpen \in FormState /\ NotOpen.at = "none" /\ NotOpen.copy.key = NoKey /\ NotOpen.key = NoKey
  BY <1>1, FormIs DEF NotOpen
<1>3. /\ Open(f, "open") /\ Sets(f, NotOpen)
      /\ UNCHANGED <<phones, twoFactor, options, presence, identity, leaving, used, limited,
                     overlapped, failed, lapsed, stuck>>
  BY DEF FormClosed, account, entry, faults
<1>4. overlapped' \in BOOLEAN
  BY <1>1, <1>3 DEF PhoneShapes
<1> QED
  BY <1>2, <1>3, <1>4, OutsideLoopKeeps DEF Open

(* A form that stays one, with the options it copied.                      *)
LEMMA FormStaysKeeps ==
    ASSUME PhoneInv, NEW f \in Forms, NEW r \in FormState, Open(f, "open") \/ Open(f, "reading"),
           r.at \in {"open", "reading"}, Sets(f, r), r.key = form[f].key, r.copy = form[f].copy,
           UNCHANGED <<phones, twoFactor, options, presence, identity, leaving, used, limited,
                       overlapped, failed, lapsed, stuck>>
    PROVE  PhoneInv'
<1>1. PhoneShapes /\ KeysUsed /\ Alone
  BY DEF PhoneInv
<1>2. r.key \in used \cup {NoKey} /\ r.copy.key \in used \cup {NoKey}
  BY <1>1 DEF KeysUsed
<1>3. overlapped' \in BOOLEAN
  BY <1>1 DEF PhoneShapes
<1>4. ~overlapped => presence = "kept" /\ r.copy = options /\ \A g \in Forms \ {f} : Open(g, "none")
  BY <1>1 DEF Alone, FormAlone, Open
<1> QED
  BY <1>2, <1>3, <1>4, OutsideLoopKeeps DEF Open

LEMMA SubmittedKeeps ==
    ASSUME PhoneInv, NEW f \in Forms, Submitted(f)
    PROVE  PhoneInv'
<1>1. PICK want \in SUBSET Cars :
         Sets(f, [form[f] EXCEPT !.at = "reading", !.want = want])
  BY DEF Submitted
<1> DEFINE r == [form[f] EXCEPT !.at = "reading", !.want = want]
<1>2. /\ r \in FormState /\ r.at = "reading" /\ r.key = form[f].key /\ r.copy = form[f].copy
  BY FormIs DEF PhoneInv, FormState
<1>3. /\ Open(f, "open")
      /\ UNCHANGED <<phones, twoFactor, options, presence, identity, leaving, used, limited,
                     overlapped, failed, lapsed, stuck>>
  BY DEF Submitted, account, entry, faults
<1> HIDE DEF r
<1> QED
  BY <1>1, <1>2, <1>3, FormStaysKeeps DEF r

(* The account's phones of the key say what there is to do; a new key has  *)
(* none.                                                                   *)
LEMMA AccountReadKeeps ==
    ASSUME PhoneInv, NEW f \in Forms, AccountRead(f)
    PROVE  PhoneInv'
<1>1. /\ Open(f, "reading")
      /\ UNCHANGED <<phones, twoFactor, options, presence, identity, leaving, limited,
                     overlapped, failed, lapsed, stuck>>
  BY DEF AccountRead, account, entry, faults
<1>2. PhoneShapes /\ KeysUsed /\ Alone /\ (~limited /\ ~overlapped => Agreed)
  BY DEF PhoneInv
<1>3. CASE Sets(f, [form[f] EXCEPT !.at = "open"]) /\ UNCHANGED used
  <2> DEFINE r == [form[f] EXCEPT !.at = "open"]
  <2>1. r \in FormState /\ r.at = "open" /\ r.key = form[f].key /\ r.copy = form[f].copy
    BY <1>2, FormIs DEF FormState
  <2>2. Sets(f, r)
    BY <1>3
  <2> HIDE DEF r
  <2> QED
    BY <1>1, <1>3, <2>1, <2>2, FormStaysKeeps
<1>4. ASSUME NEW key \in (IF NeedsKey(f) THEN Keys \ used ELSE {options.key}),
             form[f].want # {} => twoFactor,
             Sets(f, [form[f] EXCEPT !.at = "loop", !.key = key, !.new = NeedsKey(f),
                             !.todo = Differing(form[f].want, Enrolled(key))]),
             used' = IF NeedsKey(f) THEN used \cup {key} ELSE used
      PROVE  PhoneInv'
  <2>1. PICK need \in BOOLEAN : need = NeedsKey(f)
    <3>1. NeedsKey(f) \in BOOLEAN
      BY DEF NeedsKey
    <3> QED
      BY <3>1
  <2>2. need <=> form[f].want # {} /\ options.key = NoKey
    BY <2>1 DEF NeedsKey
  <2>3. /\ key \in Keys \cup {NoKey} /\ (need => key \in Keys \ used) /\ (~need => key = options.key)
        /\ (need => used' = used \cup {key}) /\ (~need => used' = used)
    BY <1>2, <1>4, <2>1, FormIs
  <2> DEFINE todo == Differing(form[f].want, Enrolled(key))
             r == [form[f] EXCEPT !.at = "loop", !.key = key, !.new = need, !.todo = todo]
  <2>4. todo \in SUBSET Cars
    BY <1>2, FormIs DEF Differing, Enrolled
  <2>5. \A c \in Cars : c \in todo <=> (c \in form[f].want <=> <<c, key>> \notin phones)
    BY <1>2, FormIs DEF Differing, Enrolled
  <2> HIDE DEF todo
  <2>6. /\ r \in FormState /\ r.at = "loop" /\ r.key = key /\ r.new = need /\ r.todo = todo
        /\ r.copy = form[f].copy /\ r.want = form[f].want
    BY <1>2, <2>3, <2>4, FormIs DEF FormState
  <2>7. Sets(f, r)
    BY <1>4, <2>1 DEF todo
  <2> HIDE DEF r
  <2>8. /\ form' \in [Forms -> FormState] /\ form'[f] = r
        /\ \A g \in Forms \ {f} : form'[g] = form[g]
    BY <1>2, <2>6, <2>7, SetsIs
  <2>9. used \subseteq used' /\ used' \in SUBSET Keys /\ key \in used' \cup {NoKey}
    BY <1>2, <2>3 DEF PhoneShapes, KeysUsed
  <2>10. PhoneShapes'
    BY <1>1, <1>2, <2>8, <2>9 DEF PhoneShapes
  <2>11. r.want # {} => key # NoKey /\ twoFactor
    BY <1>2, <1>4, <2>2, <2>3, <2>6, PhoneAssumption
  <2>12. KeysUsed'
    <3>1. /\ \A c \in Cars, k \in Keys : <<c, k>> \in phones' => k \in used'
          /\ options'.key \in used' \cup {NoKey}
          /\ options'.control # {} => twoFactor' \/ lapsed'
      BY <1>1, <1>2, <2>9 DEF KeysUsed
    <3>2. ASSUME NEW g \in Forms
          PROVE  /\ form'[g].key \in used' \cup {NoKey} /\ form'[g].copy.key \in used' \cup {NoKey}
                 /\ form'[g].at = "loop" /\ form'[g].want # {} =>
                       form'[g].key # NoKey /\ (twoFactor' \/ lapsed')
      <4>1. CASE g = f
        BY <1>1, <1>2, <2>6, <2>8, <2>9, <2>11, <4>1 DEF KeysUsed
      <4>2. CASE g # f
        BY <1>1, <1>2, <2>8, <2>9, <4>2 DEF KeysUsed, Open
      <4> QED
        BY <4>1, <4>2
    <3> QED
      BY <3>1, <3>2 DEF KeysUsed, Open
  <2>13. Alone'
    <3> SUFFICES ASSUME ~overlapped
                 PROVE  /\ \A g \in Forms : FormAlone(g)'
                        /\ options.control # {} => options.key # NoKey
      BY <1>1 DEF Alone
    <3>1. (\A g \in Forms : FormAlone(g)) /\ (options.control # {} => options.key # NoKey)
      BY <1>2 DEF Alone
    <3>2. /\ presence = "kept" /\ form[f].copy = options
          /\ \A g \in Forms \ {f} : Open(g, "none")
      BY <1>1, <3>1 DEF FormAlone, Open
    <3>3. r.key = (IF r.new THEN r.key ELSE r.copy.key) /\ (r.new => options.key = NoKey)
      BY <2>2, <2>3, <2>6, <3>2
    <3>4. FormAlone(f)'
      BY <1>1, <2>6, <2>8, <3>2, <3>3 DEF FormAlone, Open, SavedKey
    <3>5. ASSUME NEW g \in Forms \ {f}
          PROVE  FormAlone(g)'
      BY <2>8, <3>2 DEF FormAlone, Open
    <3> QED
      BY <3>1, <3>4, <3>5
  <2>14. ~limited /\ ~overlapped => Agreed'
    <3> SUFFICES ASSUME ~limited, ~overlapped
                 PROVE  Agreed'
      OBVIOUS
    <3>1. Agreed /\ presence = "kept" /\ \A g \in Forms \ {f} : Open(g, "none")
      BY <1>1, <1>2 DEF Alone, FormAlone, Open
    <3>2. Untouched
      BY <1>1, <3>1 DEF Untouched, Open
    <3>3. Only(options.key, Cars) /\ (~failed => Only(options.key, options.control))
      BY <3>1, <3>2 DEF Agreed
    <3>4. need => \A c \in Cars, k \in Keys : <<c, k>> \notin phones
      BY <2>2, <3>3, PhoneAssumption DEF Only
    <3>5. /\ Have(key, r.want \ r.todo) /\ Only(key, Cars)
          /\ Only(key, r.want \cup r.todo)
      <4>1. \A c \in r.want : c \in Cars
        BY <1>2, <2>6, FormIs
      <4>2. Only(key, Cars)
        BY <2>3, <3>3, <3>4 DEF Only
      <4>3. Have(key, r.want \ r.todo)
        BY <2>5, <2>6, <4>1 DEF Have
      <4>4. Only(key, r.want \cup r.todo)
        BY <2>5, <2>6, <4>2 DEF Only
      <4> QED
        BY <4>2, <4>3, <4>4
    <3>6. \A g \in Forms : Open(g, "loop")' => g = f
      BY <2>8, <3>1 DEF Open
    <3>7. ~Untouched'
      BY <2>6, <2>8 DEF Untouched, Open
    <3>8. \A g \in Forms : Open(g, "loop")' =>
             /\ Have(form[g].key, form[g].want \ form[g].todo)'
             /\ Only(form[g].key, Cars)'
             /\ Only(form[g].key, form[g].want \cup form[g].todo)'
      BY <1>1, <2>6, <2>8, <3>5, <3>6 DEF Have, Only
    <3>9. /\ presence' = "kept"
          /\ ~failed' => identity' = options'.control \/ (lapsed' /\ identity' = {})
      BY <1>1, <3>1 DEF Agreed
    <3> QED
      BY <3>7, <3>8, <3>9 DEF Agreed
  <2> QED
    BY <1>1, <2>10, <2>12, <2>13, <2>14 DEF PhoneInv
<1> QED
  BY <1>3, <1>4 DEF AccountRead

(* A step of a form's loop settles one vehicle: it has a phone if it is    *)
(* still wanted, and, unless a request failed, only then.                  *)
LEMMA LoopStepKeeps ==
    ASSUME PhoneInv, NEW f \in Forms, Open(f, "loop"), NEW c \in Cars, NEW r \in FormState,
           Sets(f, r), r.at = "loop", r.copy = form[f].copy, r.key = form[f].key,
           r.new = form[f].new, r.todo = form[f].todo \ {c},
           r.want = form[f].want \/ r.want = form[f].want \ {c},
           phones' \in SUBSET (Cars \X Keys), failed' \in BOOLEAN, failed => failed',
           \A d \in Cars, k \in Keys :
              d # c \/ k # form[f].key => (<<d, k>> \in phones' <=> <<d, k>> \in phones),
           c \in r.want => <<c, form[f].key>> \in phones',
           ~failed' /\ <<c, form[f].key>> \in phones' => c \in r.want,
           UNCHANGED <<twoFactor, options, presence, identity, leaving, used, limited,
                       overlapped, lapsed, stuck>>
    PROVE  PhoneInv'
<1>1. PhoneShapes /\ KeysUsed /\ Alone /\ (~limited /\ ~overlapped => Agreed)
  BY DEF PhoneInv
<1>2. /\ form' \in [Forms -> FormState] /\ form'[f] = r
      /\ \A g \in Forms \ {f} : form'[g] = form[g]
  BY <1>1, SetsIs
<1>3. PhoneShapes'
  BY <1>1, <1>2 DEF PhoneShapes
<1>4. KeysUsed'
  <2>1. form[f].key \in used \cup {NoKey}
    BY <1>1 DEF KeysUsed
  <2>2. \A d \in Cars, k \in Keys : <<d, k>> \in phones' => k \in used
    BY <1>1, <2>1, PhoneAssumption DEF KeysUsed
  <2>3. ASSUME NEW g \in Forms
        PROVE  /\ form'[g].key \in used' \cup {NoKey} /\ form'[g].copy.key \in used' \cup {NoKey}
               /\ form'[g].at = "loop" /\ form'[g].want # {} =>
                     form'[g].key # NoKey /\ (twoFactor' \/ lapsed')
    BY <1>1, <1>2 DEF KeysUsed, Open
  <2>4. /\ options'.key \in used' \cup {NoKey}
        /\ options'.control # {} => twoFactor' \/ lapsed'
    BY <1>1 DEF KeysUsed
  <2> QED
    BY <2>2, <2>3, <2>4 DEF KeysUsed, Open
<1>5. \A g \in Forms \ {f} : Open(g, "loop")' <=> Open(g, "loop")
  BY <1>2 DEF Open
<1>6. Alone'
  <2>1. \A g \in Forms : FormAlone(g) => FormAlone(g)'
    BY <1>2 DEF FormAlone, Open, SavedKey
  <2> QED
    BY <1>1, <2>1 DEF Alone
<1>7. ~limited /\ ~overlapped => Agreed'
  <2> SUFFICES ASSUME ~limited, ~overlapped
               PROVE  Agreed'
    OBVIOUS
  <2>1. Agreed /\ presence = "kept" /\ \A g \in Forms \ {f} : Open(g, "none")
    BY <1>1 DEF Alone, FormAlone, Open
  <2>2. ~Untouched'
    BY <1>2 DEF Untouched, Open
  <2>3. /\ Have(form[f].key, form[f].want \ form[f].todo) /\ Only(form[f].key, Cars)
        /\ ~failed => Only(form[f].key, form[f].want \cup form[f].todo)
    BY <2>1 DEF Agreed
  <2>4. form[f].want \in SUBSET Cars /\ form[f].key \in Keys \cup {NoKey}
    BY <1>1, FormIs
  <2>5. Have(r.key, r.want \ r.todo)'
    <3> SUFFICES ASSUME NEW d \in r.want \ r.todo
                 PROVE  <<d, form[f].key>> \in phones'
      BY DEF Have
    <3>1. CASE d = c
      BY <3>1
    <3>2. CASE d # c
      <4>1. d \in form[f].want \ form[f].todo /\ d \in Cars
        BY <2>4, <3>2
      <4>2. <<d, form[f].key>> \in phones
        BY <2>3, <4>1 DEF Have
      <4>3. form[f].key \in Keys
        BY <1>1, <4>2 DEF PhoneShapes
      <4> QED
        BY <3>2, <4>1, <4>2, <4>3
    <3> QED
      BY <3>1, <3>2
  <2>6. Only(r.key, Cars)'
    BY <2>3 DEF Only
  <2>7. ~failed' => Only(r.key, r.want \cup r.todo)'
    BY <2>3 DEF Only
  <2>8. \A g \in Forms : Open(g, "loop")' => g = f
    BY <1>2, <2>1 DEF Open
  <2>9. \A g \in Forms : Open(g, "loop")' =>
           /\ Have(form[g].key, form[g].want \ form[g].todo)'
           /\ Only(form[g].key, Cars)'
           /\ (~failed => Only(form[g].key, form[g].want \cup form[g].todo))'
    BY <1>2, <2>5, <2>6, <2>7, <2>8
  <2>10. /\ presence' = "kept"
         /\ ~failed' => identity' = options'.control \/ (lapsed' /\ identity' = {})
    BY <2>1 DEF Agreed
  <2> QED
    BY <2>2, <2>9, <2>10 DEF Agreed
<1> QED
  BY <1>1, <1>3, <1>4, <1>6, <1>7 DEF PhoneInv

LEMMA EnrolsKeeps ==
    ASSUME PhoneInv, NEW f \in Forms, NEW c \in Cars, Enrols(f, c)
    PROVE  PhoneInv'
<1> DEFINE key == form[f].key
           done == phones \cup {<<c, key>>}
<1>1. PhoneShapes /\ KeysUsed /\ Alone /\ failed \in BOOLEAN
  BY DEF PhoneInv, PhoneShapes
<1>2. /\ Open(f, "loop") /\ c \in form[f].todo \cap form[f].want
      /\ UNCHANGED <<twoFactor, options, presence, identity, leaving, used, overlapped, lapsed,
                     stuck>>
  BY DEF Enrols, entry
<1>3. \/ phones' = done /\ Sets(f, Looked(f, c)) /\ UNCHANGED <<limited, failed>>
      \/ MayBe(done) /\ Sets(f, AfterFailure(f, c)) /\ UNCHANGED limited
      \/ /\ limited' = TRUE /\ UNCHANGED <<phones, failed>>
         /\ Sets(f, [NotOpen EXCEPT !.at = "open", !.copy = form[f].copy])
  BY DEF Enrols
<1>4. key \in Keys /\ key \in used
  <2>1. key # NoKey /\ key \in used \cup {NoKey}
    BY <1>1, <1>2 DEF KeysUsed
  <2> QED
    BY <1>1, <2>1, FormIs
<1>5. done \in SUBSET (Cars \X Keys) /\ phones \in SUBSET (Cars \X Keys)
  BY <1>1, <1>4 DEF PhoneShapes
<1>6. \A d \in Cars, k \in Keys : d # c \/ k # key => (<<d, k>> \in done <=> <<d, k>> \in phones)
  OBVIOUS
<1>7. <<c, key>> \in done
  OBVIOUS
<1> HIDE DEF done
<1>8. CASE phones' = done /\ Sets(f, Looked(f, c)) /\ UNCHANGED <<limited, failed>>
  <2> DEFINE r == Looked(f, c)
  <2>1. /\ r \in FormState /\ r.at = "loop" /\ r.copy = form[f].copy /\ r.key = form[f].key
        /\ r.new = form[f].new /\ r.todo = form[f].todo \ {c} /\ r.want = form[f].want
    BY <1>1, <1>2, FormIs DEF Looked, FormState, Open
  <2>2. Sets(f, r)
    BY <1>8
  <2> HIDE DEF r
  <2> QED
    BY <1>1, <1>2, <1>5, <1>6, <1>7, <1>8, <2>1, <2>2, LoopStepKeeps
<1>9. CASE MayBe(done) /\ Sets(f, AfterFailure(f, c)) /\ UNCHANGED limited
  <2> DEFINE r == AfterFailure(f, c)
  <2>1. /\ r \in FormState /\ r.at = "loop" /\ r.copy = form[f].copy /\ r.key = form[f].key
        /\ r.new = form[f].new /\ r.todo = form[f].todo \ {c} /\ r.want = form[f].want \ {c}
    BY <1>1, <1>2, FormIs DEF AfterFailure, Looked, FormState, Open
  <2>2. Sets(f, r)
    BY <1>9
  <2>3. failed' = TRUE /\ (phones' = done \/ phones' = phones)
    BY <1>9 DEF MayBe
  <2> HIDE DEF r
  <2>4. c \notin r.want
    BY <2>1
  <2>5. phones' \in SUBSET (Cars \X Keys) /\ failed' \in BOOLEAN
    BY <1>5, <2>3
  <2>6. \A d \in Cars, k \in Keys :
           d # c \/ k # form[f].key => (<<d, k>> \in phones' <=> <<d, k>> \in phones)
    BY <1>6, <2>3
  <2> QED
    BY <1>2, <1>9, <2>1, <2>2, <2>3, <2>4, <2>5, <2>6, LoopStepKeeps
<1>10. CASE /\ limited' = TRUE /\ UNCHANGED <<phones, failed>>
            /\ Sets(f, [NotOpen EXCEPT !.at = "open", !.copy = form[f].copy])
  <2> DEFINE r == [NotOpen EXCEPT !.at = "open", !.copy = form[f].copy]
  <2>1. /\ r \in FormState /\ r.at = "open" /\ r.copy = form[f].copy /\ r.key = NoKey
    BY <1>1, FormIs DEF NotOpen, FormState
  <2>2. Sets(f, r)
    BY <1>10
  <2> HIDE DEF r
  <2>3. /\ form' \in [Forms -> FormState] /\ form'[f] = r
        /\ \A g \in Forms \ {f} : form'[g] = form[g]
    BY <1>1, <2>1, <2>2, SetsIs
  <2>4. PhoneShapes'
    BY <1>1, <1>2, <1>10, <2>3 DEF PhoneShapes
  <2>5. KeysUsed'
    BY <1>1, <1>2, <1>10, <2>1, <2>3 DEF KeysUsed, Open
  <2>6. \A g \in Forms : FormAlone(g) => FormAlone(g)'
    BY <1>2, <2>1, <2>3 DEF FormAlone, Open, SavedKey
  <2>7. Alone'
    BY <1>1, <1>2, <2>6 DEF Alone
  <2> QED
    BY <1>10, <2>4, <2>5, <2>7 DEF PhoneInv
<1> QED
  BY <1>3, <1>8, <1>9, <1>10

LEMMA DisenrolsKeeps ==
    ASSUME PhoneInv, NEW f \in Forms, NEW c \in Cars, Disenrols(f, c)
    PROVE  PhoneInv'
<1> DEFINE key == form[f].key
           done == phones \ {<<c, key>>}
           r    == Looked(f, c)
<1>1. PhoneShapes /\ failed \in BOOLEAN
  BY DEF PhoneInv, PhoneShapes
<1>2. /\ Open(f, "loop") /\ c \notin form[f].want
      /\ UNCHANGED <<twoFactor, options, presence, identity, leaving, used, limited, overlapped,
                     lapsed, stuck>>
  BY DEF Disenrols, entry
<1>3. Sets(f, r) /\ ((phones' = done /\ UNCHANGED failed) \/ MayBe(done))
  BY DEF Disenrols
<1>4. done \in SUBSET (Cars \X Keys) /\ phones \in SUBSET (Cars \X Keys)
  BY <1>1 DEF PhoneShapes
<1>5. \A d \in Cars, k \in Keys : d # c \/ k # key => (<<d, k>> \in done <=> <<d, k>> \in phones)
  OBVIOUS
<1>6. <<c, key>> \notin done
  OBVIOUS
<1>7. /\ r \in FormState /\ r.at = "loop" /\ r.copy = form[f].copy /\ r.key = form[f].key
      /\ r.new = form[f].new /\ r.todo = form[f].todo \ {c} /\ r.want = form[f].want
  BY <1>1, <1>2, FormIs DEF Looked, FormState, Open
<1> HIDE DEF done, r
<1>8. /\ phones' = done \/ phones' = phones
      /\ phones' = done \/ failed'
      /\ failed => failed'
  BY <1>3 DEF MayBe
<1>9. failed' \in BOOLEAN
  BY <1>1, <1>3 DEF MayBe
<1>10. \A d \in Cars, k \in Keys :
          d # c \/ k # form[f].key => (<<d, k>> \in phones' <=> <<d, k>> \in phones)
  BY <1>5, <1>8
<1>11. ~failed' /\ <<c, form[f].key>> \in phones' => c \in r.want
  BY <1>6, <1>8
<1> QED
  BY <1>2, <1>3, <1>4, <1>7, <1>8, <1>9, <1>10, <1>11, LoopStepKeeps

(* What the form enrolled becomes what the options say.                    *)
LEMMA FormEndsKeeps ==
    ASSUME PhoneInv, NEW f \in Forms, FormEnds(f)
    PROVE  PhoneInv'
<1>1. PhoneShapes /\ KeysUsed /\ Alone /\ (~limited /\ ~overlapped => Agreed)
  BY DEF PhoneInv
<1>2. /\ Open(f, "loop") /\ form[f].todo = {} /\ presence # "reloading"
      /\ options' = [control |-> form[f].want, key |-> SavedKey(f)]
      /\ presence' = (IF options' = options THEN presence ELSE "reloading")
      /\ Sets(f, NotOpen)
      /\ UNCHANGED <<phones, twoFactor, identity, leaving, used, limited, overlapped, failed,
                     lapsed, stuck>>
  BY DEF FormEnds, account, faults
<1>3. /\ form' \in [Forms -> FormState] /\ form'[f] = NotOpen
      /\ \A g \in Forms \ {f} : form'[g] = form[g]
  BY <1>1, <1>2, FormIs, SetsIs
<1>4. NotOpen.at = "none" /\ NotOpen.key = NoKey /\ NotOpen.copy.key = NoKey
  BY DEF NotOpen
<1>5. /\ options'.control = form[f].want /\ options'.key = SavedKey(f)
      /\ SavedKey(f) \in used \cup {NoKey} /\ SavedKey(f) \in Keys \cup {NoKey}
      /\ options' \in Options
  <2>1. SavedKey(f) \in used \cup {NoKey}
    BY <1>1 DEF KeysUsed, SavedKey
  <2>2. SavedKey(f) \in Keys \cup {NoKey}
    BY <1>1, <2>1 DEF PhoneShapes
  <2> QED
    BY <1>1, <1>2, <2>1, <2>2, FormIs DEF Options
<1>6. PhoneShapes'
  BY <1>1, <1>2, <1>3, <1>5 DEF PhoneShapes
<1>7. KeysUsed'
  <2>1. form[f].want # {} => twoFactor \/ lapsed
    BY <1>1, <1>2 DEF KeysUsed
  <2> QED
    BY <1>1, <1>2, <1>3, <1>4, <1>5, <2>1 DEF KeysUsed, Open
<1>8. ~overlapped => /\ presence = "kept" /\ \A g \in Forms \ {f} : Open(g, "none")
                     /\ form[f].key = SavedKey(f)
  BY <1>1, <1>2 DEF Alone, FormAlone, Open
<1>9. Alone'
  <2> SUFFICES ASSUME ~overlapped
               PROVE  /\ \A g \in Forms : FormAlone(g)'
                      /\ options'.control # {} => options'.key # NoKey
    BY <1>2 DEF Alone
  <2>1. \A g \in Forms : FormAlone(g)'
    BY <1>3, <1>4, <1>8 DEF FormAlone, Open
  <2>2. form[f].want # {} => form[f].key # NoKey
    BY <1>1, <1>2 DEF KeysUsed
  <2> QED
    BY <1>5, <1>8, <2>1, <2>2
<1>10. ~limited /\ ~overlapped => Agreed'
  <2> SUFFICES ASSUME ~limited, ~overlapped
               PROVE  Agreed'
    OBVIOUS
  <2>1. Agreed /\ presence = "kept" /\ form[f].key = SavedKey(f)
    BY <1>1, <1>8
  <2>2. /\ Have(form[f].key, form[f].want \ form[f].todo) /\ Only(form[f].key, Cars)
        /\ ~failed => Only(form[f].key, form[f].want \cup form[f].todo)
    BY <1>2, <2>1 DEF Agreed
  <2>3. form[f].want \ form[f].todo = form[f].want /\ form[f].want \cup form[f].todo = form[f].want
    BY <1>2
  <2>4. /\ Have(options.key, options.control)' /\ Only(options.key, Cars)'
        /\ (~failed => Only(options.key, options.control))'
    BY <1>2, <1>5, <2>1, <2>2, <2>3 DEF Have, Only
  <2>5. \A g \in Forms : ~Open(g, "loop")'
    BY <1>3, <1>4, <1>8 DEF Open
  <2>6. presence' \in {"kept", "reloading"}
    BY <1>2, <2>1
  <2>7. presence' = "kept" /\ ~failed' => identity' = options'.control \/ (lapsed' /\ identity' = {})
    BY <1>2, <2>1 DEF Agreed
  <2> QED
    BY <2>4, <2>5, <2>6, <2>7 DEF Agreed
<1> QED
  BY <1>1, <1>2, <1>6, <1>7, <1>9, <1>10 DEF PhoneInv

(* The entry signs for the vehicles it is asked to control.                *)
LEMMA EntryReloadsKeeps ==
    ASSUME PhoneInv, EntryReloads
    PROVE  PhoneInv'
<1>1. PhoneShapes /\ KeysUsed /\ Alone /\ (~limited /\ ~overlapped => Agreed)
  BY DEF PhoneInv
<1>2. /\ presence = "reloading" /\ presence' = "kept" /\ identity' = Identities
      /\ UNCHANGED <<phones, twoFactor, options, form, leaving, used, limited, overlapped, failed,
                     lapsed, stuck>>
  BY DEF EntryReloads, account, faults
<1>3. Identities \in SUBSET Cars
  BY DEF Identities, Enrolled
<1>4. PhoneShapes'
  BY <1>1, <1>2, <1>3 DEF PhoneShapes
<1>5. KeysUsed'
  BY <1>1, <1>2 DEF KeysUsed, Open
<1>6. ~overlapped => \A g \in Forms : Open(g, "none")
  BY <1>1, <1>2 DEF Alone, FormAlone
<1>7. Alone'
  BY <1>1, <1>2, <1>6 DEF Alone, FormAlone, Open
<1>8. ~limited /\ ~overlapped => Agreed'
  <2> SUFFICES ASSUME ~limited, ~overlapped
               PROVE  Agreed'
    OBVIOUS
  <2>1. Agreed /\ Untouched
    BY <1>1, <1>2, <1>6 DEF Untouched, Open
  <2>2. /\ Have(options.key, options.control) /\ Only(options.key, Cars)
        /\ ~failed => Only(options.key, options.control)
    BY <2>1 DEF Agreed
  <2>3. ~failed => identity' = options.control \/ (lapsed /\ identity' = {})
    <3> SUFFICES ASSUME ~failed
                 PROVE  identity' = options.control \/ (lapsed /\ identity' = {})
      OBVIOUS
    <3>1. CASE options.control = {}
      BY <1>2, <3>1 DEF Identities
    <3>2. CASE options.control # {} /\ ~twoFactor
      BY <1>1, <1>2, <3>2 DEF Identities, KeysUsed
    <3>3. CASE options.control # {} /\ twoFactor
      <4>1. options.key \in Keys /\ options.control \in SUBSET Cars
        BY <1>1, <3>3, FormIs DEF Alone, PhoneShapes, Options
      <4>2. Enrolled(options.key) = options.control
        BY <2>2, <4>1 DEF Enrolled, Have, Only
      <4> QED
        BY <1>2, <3>3, <4>2 DEF Identities
    <3> QED
      BY <3>1, <3>2, <3>3
  <2>4. \A g \in Forms : ~Open(g, "loop")'
    BY <1>2, <1>6 DEF Open
  <2> QED
    BY <1>2, <2>2, <2>3, <2>4 DEF Agreed, Have, Only
<1> QED
  BY <1>1, <1>2, <1>4, <1>5, <1>7, <1>8 DEF PhoneInv

LEMMA SecondFactorKeeps ==
    ASSUME PhoneInv, SecondFactor
    PROVE  PhoneInv'
<1>1. PhoneShapes /\ KeysUsed /\ Alone /\ (~limited /\ ~overlapped => Agreed)
  BY DEF PhoneInv
<1>2. /\ Idle /\ twoFactor' = ~twoFactor
      /\ UNCHANGED <<phones, options, form, presence, identity, leaving, used, limited, overlapped,
                     failed, stuck>>
  BY DEF SecondFactor, entry
<1>3. twoFactor' \in BOOLEAN /\ lapsed' \in BOOLEAN /\ (lapsed' <=> lapsed \/ twoFactor)
  <2>1. (lapsed \/ twoFactor) \in BOOLEAN /\ (~twoFactor) \in BOOLEAN
    OBVIOUS
  <2>2. lapsed' = (lapsed \/ twoFactor)
    BY DEF SecondFactor
  <2> QED
    BY <1>2, <2>1, <2>2, Zenon
<1>4. PhoneShapes'
  BY <1>1, <1>2, <1>3 DEF PhoneShapes
<1>5. KeysUsed'
  BY <1>1, <1>2, <1>3 DEF KeysUsed, Open, Idle
<1>6. Alone'
  BY <1>1, <1>2 DEF Alone, FormAlone, Open, SavedKey
<1>7. Agreed => Agreed'
  BY <1>2, <1>3 DEF Agreed, Untouched, Have, Only, Open
<1> QED
  BY <1>1, <1>2, <1>4, <1>5, <1>6, <1>7 DEF PhoneInv

-----------------------------------------------------------------------------
(* The removal: no form is open.                                           *)
LEMMA RemovalKeeps ==
    ASSUME PhoneInv, ~overlapped => Idle, presence' \in {"removing", "removed"},
           phones' \in SUBSET phones, leaving' \in SUBSET Cars, stuck' \in BOOLEAN,
           ~limited /\ ~overlapped /\ ~stuck' => Only(options.key, leaving)',
           presence' = "removed" => leaving' = {},
           UNCHANGED <<twoFactor, options, form, identity, used, limited, overlapped, failed, lapsed>>
    PROVE  PhoneInv'
<1>1. PhoneShapes /\ KeysUsed /\ Alone
  BY DEF PhoneInv
<1>2. PhoneShapes'
  BY <1>1 DEF PhoneShapes
<1>3. KeysUsed'
  BY <1>1 DEF KeysUsed, Open
<1>4. Alone'
  BY <1>1 DEF Alone, FormAlone, Open, Idle
<1>5. ~limited /\ ~overlapped => Agreed'
  <2>1. ~overlapped => \A g \in Forms : ~Open(g, "loop")'
    BY DEF Idle, Open
  <2>2. ~Untouched' /\ presence' # "kept"
    BY DEF Untouched
  <2> QED
    BY <2>1, <2>2 DEF Agreed
<1> QED
  BY <1>2, <1>3, <1>4, <1>5 DEF PhoneInv

LEMMA RemovalBeginsKeeps ==
    ASSUME PhoneInv, RemovalBegins
    PROVE  PhoneInv'
<1>1. PhoneShapes /\ KeysUsed /\ Alone /\ (~limited /\ ~overlapped => Agreed)
  BY DEF PhoneInv
<1>2. /\ presence = "kept" /\ Idle /\ presence' = "removing"
      /\ UNCHANGED <<phones, twoFactor, options, form, identity, used, limited, overlapped, failed,
                     lapsed>>
  BY DEF RemovalBegins, account
<1>3. \/ options.key # NoKey /\ leaving' = Enrolled(options.key) /\ UNCHANGED stuck
      \/ leaving' = {} /\ stuck' = (options.key # NoKey)
  BY DEF RemovalBegins, ToLeave
<1>4. leaving' \in SUBSET Cars /\ stuck' \in BOOLEAN
  BY <1>1, <1>3 DEF Enrolled, PhoneShapes
<1>5. ~limited /\ ~overlapped /\ ~stuck' => Only(options.key, leaving)'
  <2> SUFFICES ASSUME ~limited, ~overlapped, ~stuck'
               PROVE  Only(options.key, leaving)'
    OBVIOUS
  <2>1. Untouched
    BY <1>2 DEF Untouched, Idle, Open
  <2>2. Only(options.key, Cars)
    BY <1>1, <2>1 DEF Agreed
  <2>3. CASE leaving' = Enrolled(options.key)
    BY <1>2, <2>2, <2>3 DEF Only, Enrolled
  <2>4. CASE leaving' = {} /\ stuck' = (options.key # NoKey)
    BY <1>2, <2>2, <2>4, PhoneAssumption DEF Only
  <2> QED
    BY <1>3, <2>3, <2>4
<1> QED
  BY <1>1, <1>2, <1>4, <1>5, RemovalKeeps DEF PhoneInv

LEMMA RemovalDisenrolsKeeps ==
    ASSUME PhoneInv, NEW c \in Cars, RemovalDisenrols(c)
    PROVE  PhoneInv'
<1> DEFINE done == phones \ {<<c, options.key>>}
<1>1. PhoneShapes /\ Alone /\ (~limited /\ ~overlapped => Agreed)
  BY DEF PhoneInv
<1>2. /\ presence = "removing" /\ presence' = "removing" /\ c \in leaving
      /\ UNCHANGED <<twoFactor, options, form, identity, used, limited, overlapped, failed, lapsed>>
  BY DEF RemovalDisenrols
<1>3. \/ phones' = done /\ leaving' = leaving \ {c} /\ UNCHANGED stuck
      \/ /\ stuck' = TRUE /\ (phones' = done \/ UNCHANGED phones)
         /\ leaving' \in {leaving \ {c}, {}}
  BY DEF RemovalDisenrols
<1>4. \A d \in Cars, k \in Keys :
         <<d, k>> \in done <=> <<d, k>> \in phones /\ (d # c \/ k # options.key)
  OBVIOUS
<1>5. done \in SUBSET phones
  OBVIOUS
<1> HIDE DEF done
<1>6. phones' \in SUBSET phones /\ leaving' \in SUBSET Cars /\ stuck' \in BOOLEAN
  BY <1>1, <1>3, <1>5 DEF PhoneShapes
<1>7. ~overlapped => Idle
  BY <1>1, <1>2 DEF Alone, FormAlone, Idle, Open
<1>8. ~limited /\ ~overlapped /\ ~stuck' => Only(options.key, leaving)'
  <2> SUFFICES ASSUME ~limited, ~overlapped, ~stuck'
               PROVE  Only(options.key, leaving)'
    OBVIOUS
  <2>1. phones' = done /\ leaving' = leaving \ {c} /\ ~stuck
    BY <1>3
  <2>2. Only(options.key, leaving)
    BY <1>1, <1>2, <2>1 DEF Agreed
  <2> QED
    BY <1>2, <1>4, <2>1, <2>2 DEF Only
<1> QED
  BY <1>2, <1>6, <1>7, <1>8, RemovalKeeps

LEMMA RemovalEndsKeeps ==
    ASSUME PhoneInv, RemovalEnds
    PROVE  PhoneInv'
<1>1. PhoneShapes /\ Alone /\ (~limited /\ ~overlapped => Agreed)
  BY DEF PhoneInv
<1>2. /\ presence = "removing" /\ leaving = {} /\ presence' = "removed"
      /\ UNCHANGED <<phones, twoFactor, options, form, identity, leaving, used, limited, overlapped,
                     failed, lapsed, stuck>>
  BY DEF RemovalEnds, account, faults
<1>3. ~overlapped => Idle
  BY <1>1, <1>2 DEF Alone, FormAlone, Idle, Open
<1>4. phones' \in SUBSET phones /\ leaving' \in SUBSET Cars /\ stuck' \in BOOLEAN
  BY <1>1, <1>2 DEF PhoneShapes
<1>5. ~limited /\ ~overlapped /\ ~stuck' => Only(options.key, leaving)'
  BY <1>1, <1>2 DEF Agreed, Only
<1> QED
  BY <1>2, <1>3, <1>4, <1>5, RemovalKeeps

-----------------------------------------------------------------------------
LEMMA PhoneInvInit == PhoneInit => PhoneInv
<1> SUFFICES ASSUME PhoneInit
             PROVE  PhoneInv
  OBVIOUS
<1>1. /\ phones = {} /\ twoFactor \in BOOLEAN /\ options = [control |-> {}, key |-> NoKey]
      /\ form = [f \in Forms |-> NotOpen] /\ presence = "kept" /\ identity = {} /\ leaving = {}
      /\ used = {} /\ limited = FALSE /\ overlapped = FALSE /\ failed = FALSE
      /\ stuck = FALSE /\ lapsed = FALSE
  BY DEF PhoneInit
<1>2. NotOpen \in FormState /\ NotOpen.at = "none" /\ NotOpen.key = NoKey /\ NotOpen.copy.key = NoKey
  BY DEF NotOpen, FormState, Options
<1>3. options \in Options /\ options.control = {} /\ options.key = NoKey
  BY <1>1 DEF Options
<1>4. PhoneShapes
  BY <1>1, <1>2, <1>3 DEF PhoneShapes
<1>5. \A f \in Forms : form[f] = NotOpen
  BY <1>1
<1>6. KeysUsed
  BY <1>1, <1>2, <1>3, <1>5 DEF KeysUsed, Open
<1>7. Alone
  BY <1>2, <1>3, <1>5 DEF Alone, FormAlone, Open
<1>8. Agreed
  BY <1>1, <1>2, <1>3, <1>5 DEF Agreed, Have, Only, Open
<1> QED
  BY <1>4, <1>6, <1>7, <1>8 DEF PhoneInv

LEMMA PhoneInvNext == PhoneInv /\ [PhoneNext]_phoneVars => PhoneInv'
<1> SUFFICES ASSUME PhoneInv, [PhoneNext]_phoneVars
             PROVE  PhoneInv'
  OBVIOUS
<1>1. CASE UNCHANGED phoneVars
  <2>1. UNCHANGED <<phones, twoFactor, options, form, presence, identity, leaving, used, limited,
                    overlapped, failed, lapsed, stuck>>
    BY <1>1 DEF phoneVars, account, entry, faults
  <2> QED
    BY <2>1 DEF PhoneInv, PhoneShapes, KeysUsed, Alone, FormAlone, Open, SavedKey, Agreed,
       Untouched, Have, Only
<1>2. ASSUME NEW f \in Forms,
             \/ FormOpens(f) \/ FormClosed(f) \/ Submitted(f) \/ AccountRead(f) \/ FormEnds(f)
             \/ \E c \in Cars : Enrols(f, c) \/ Disenrols(f, c)
      PROVE  PhoneInv'
  BY <1>2, FormOpensKeeps, FormClosedKeeps, SubmittedKeeps, AccountReadKeeps, FormEndsKeeps,
     EnrolsKeeps, DisenrolsKeeps
<1> QED
  BY <1>1, <1>2, EntryReloadsKeeps, SecondFactorKeeps, RemovalBeginsKeeps, RemovalEndsKeeps,
     RemovalDisenrolsKeeps DEF PhoneNext

(* The options, the phones enrolled at the server and the identities the   *)
(* entry signs with agree, whatever request failed, and the removal of the *)
(* entry leaves no phone (config_flow.py, async_remove_entry).             *)
THEOREM OptionsMatchPhones == PhoneSpec => []OptionsTellPhones
<1>1. PhoneInv => OptionsTellPhones
  <2> SUFFICES ASSUME PhoneInv
               PROVE  OptionsTellPhones
    OBVIOUS
  <2>1. PhoneShapes /\ KeysUsed /\ Alone /\ (~limited /\ ~overlapped => Agreed)
    BY DEF PhoneInv
  <2>2. phones \in SUBSET (Cars \X Keys) /\ options.control \in SUBSET Cars
    BY <2>1 DEF PhoneShapes, Options
  <2>3. PhoneTypeOK
    <3>1. {p[2] : p \in phones} \subseteq used
      BY <2>1, <2>2 DEF KeysUsed
    <3>2. options.control # {} /\ ~overlapped => options.key # NoKey
      BY <2>1 DEF Alone
    <3> QED
      BY <2>1, <3>1, <3>2 DEF PhoneTypeOK, PhoneShapes, FormState
  <2>4. AtRest => Untouched
    BY DEF AtRest, Idle, Untouched, Open
  <2>5. ControlMeansEnrolled
    BY <2>1, <2>2, <2>4 DEF ControlMeansEnrolled, Agreed, Have, Enrolled
  <2>6. NoOrphanPhone
    <3> SUFFICES ASSUME AtRest, ~limited, ~overlapped, ~failed
                 PROVE  phones \subseteq options.control \X {options.key}
      BY DEF NoOrphanPhone
    <3>1. Only(options.key, options.control)
      BY <2>1, <2>4 DEF Agreed
    <3> QED
      BY <2>2, <3>1 DEF Only
  <2>7. IdentityIsEnrolled
    BY <2>1 DEF IdentityIsEnrolled, Agreed, AtRest
  <2>8. RemovedLeavesNothing
    <3> SUFFICES ASSUME presence = "removed", ~limited, ~overlapped, ~stuck
                 PROVE  phones = {}
      BY DEF RemovedLeavesNothing
    <3>1. Only(options.key, leaving) /\ leaving = {}
      BY <2>1 DEF Agreed
    <3>2. \A c \in Cars, k \in Keys : <<c, k>> \notin phones
      BY <3>1 DEF Only
    <3> QED
      BY <2>2, <3>2
  <2> QED
    BY <2>3, <2>5, <2>6, <2>7, <2>8 DEF OptionsTellPhones
<1> QED
  BY <1>1, PhoneInvInit, PhoneInvNext, PTL DEF PhoneSpec
=============================================================================
