----------------------------- MODULE ConfigEntry -----------------------------
(***************************************************************************)
(* The life of the integration's config entries (__init__.py): login and   *)
(* reauthentication (config_flow.py), setup with its first refreshes,      *)
(* unload, reload, and what they leave: the websocket client that the      *)
(* coordinators of an entry's vehicles share, the entry's record in        *)
(* hass.data, and the one service all entries share.                       *)
(*                                                                         *)
(* Home Assistant is external: it serialises setup and unload of an entry, *)
(* retries a setup that was not ready, and after an unload or a failed     *)
(* setup shuts the entry's coordinators down, in any order.  A debounced   *)
(* refresh is a task of its own, which nothing cancels.                    *)
(***************************************************************************)
EXTENDS Naturals, FiniteSets

CONSTANTS Entries, Vehicles, None, MaxFailures

ASSUME EntryAssumption == None \notin Entries /\ MaxFailures \in Nat

VARIABLES
    cars,      \* external: the vehicles of each entry's account
    state,     \* external: the entry's state
    at,        \* where its setup or unload is suspended
    after,     \* the state that follows the shutdowns
    built,     \* vehicles whose coordinators exist and are not shut down
    feeds,     \* vehicles subscribed to the client of the last setup
    client,    \* its websocket: "none" was opened, "open" or "closed"
    stray,     \* an earlier client of the entry has an open websocket
    flight,    \* vehicles with a refresh under way
    data,      \* the entries in hass.data[DOMAIN]
    service,   \* the entry whose closure set_charging_schedule is
    valid,     \* external: the server accepts the entry's tokens
    login,     \* the form a login or reauthentication shows
    otpNeeded, \* Rivian._otp_needed of the login's client
    reloads,   \* reloads asked for
    failures,  \* bound: failed requests of setup and login
    outlived,  \* history: a refresh went on after its coordinator's shutdown
    together   \* history: two entries were in hass.data at once

entryVars == <<cars, state, at, after, built, feeds, client, stray, flight, data,
               service, valid, login, otpNeeded, reloads, failures, outlived, together>>
clients == <<feeds, client, stray>>
logins  == <<login, otpNeeded>>

Resting == {"absent", "not_loaded", "retry", "error", "loaded", "failed"}

EntryTypeOK ==
    /\ cars \in [Entries -> SUBSET Vehicles]
    /\ state \in [Entries -> Resting \cup {"setup", "unloading", "cleaning"}]
    /\ at \in [Entries -> {"", "csrf", "user", "vehicle", "more", "wallbox",
                           "features", "platforms"}]
    /\ after \in [Entries -> {"", "not_loaded", "retry", "error"}]
    /\ \A e \in Entries : /\ built[e] \subseteq cars[e] /\ flight[e] \subseteq cars[e]
                          /\ feeds[e] \subseteq cars[e]
                          /\ (at[e] # "") = (state[e] \in {"setup", "unloading"})
                          /\ (after[e] # "") = (state[e] = "cleaning")
                          /\ state[e] = "loaded" => e \in data /\ built[e] = cars[e]
    /\ client \in [Entries -> {"none", "open", "closed"}]
    /\ {stray, valid, otpNeeded, outlived} \subseteq [Entries -> BOOLEAN]
    /\ data \subseteq Entries /\ service \in Entries \cup {None}
    /\ login \in [Entries -> {"none", "credentials", "otp"}]
    /\ reloads \in [Entries -> 0 .. 2] /\ failures \in [Entries -> 0 .. MaxFailures] /\ together \in BOOLEAN

Everywhere(x) == [e \in Entries |-> x]

EntryInit ==
    /\ cars \in [Entries -> SUBSET Vehicles]
    /\ state = Everywhere("absent") /\ at = Everywhere("") /\ after = Everywhere("")
    /\ built = Everywhere({}) /\ feeds = Everywhere({}) /\ flight = Everywhere({})
    /\ client = Everywhere("none") /\ stray = Everywhere(FALSE)
    /\ data = {} /\ service = None
    /\ valid = Everywhere(FALSE) /\ login \in [Entries -> {"none", "credentials"}]
    /\ otpNeeded = Everywhere(FALSE) /\ reloads = Everywhere(0)
    /\ failures = Everywhere(0)
    /\ outlived = Everywhere(FALSE) /\ together = FALSE

Put(f, e, x) == [f EXCEPT ![e] = x]

(* A request that fails, or that does not.                                 *)
Fails(e)  == failures[e] < MaxFailures /\ failures' = Put(failures, e, failures[e] + 1)
Answers == UNCHANGED failures

-----------------------------------------------------------------------------
(* Setup.  A new client is made; the last one must have been closed.       *)
SetupBegins(e) ==
    /\ \/ state[e] \in {"not_loaded", "retry"}
       \/ state[e] = "error" /\ reloads[e] > 0
    /\ state' = Put(state, e, "setup") /\ at' = Put(at, e, "csrf")
    /\ reloads' = Put(reloads, e, IF reloads[e] > 0 THEN reloads[e] - 1 ELSE 0)
    /\ stray' = Put(stray, e, stray[e] \/ client[e] = "open" \/ flight[e] # {})
    /\ client' = Put(client, e, "none")
    /\ feeds' = Put(feeds, e, {}) /\ flight' = Put(flight, e, {})
    /\ UNCHANGED <<cars, failures, after, built, data, service, valid, logins, outlived, together>>

Proceeds(e, next) ==
    /\ at' = Put(at, e, next)
    /\ UNCHANGED <<state, after>>

(* A setup that raises: Home Assistant shuts down what was built and tries *)
(* again later, or waits for the tokens.                                   *)
SetupFails(e, next) ==
    /\ state' = Put(state, e, "cleaning") /\ at' = Put(at, e, "")
    /\ after' = Put(after, e, next)

CsrfReturns(e) ==
    /\ state[e] = "setup" /\ at[e] = "csrf"
    /\ \/ Answers /\ Proceeds(e, "user") /\ UNCHANGED client
       \/ Fails(e) /\ SetupFails(e, "retry") /\ client' = Put(client, e, "closed")
    /\ UNCHANGED <<cars, built, feeds, stray, flight, data, service, valid, logins,
                   reloads, outlived, together>>

(* The user's first refresh, and the phones; rejected tokens close the     *)
(* client and ask for a login.                                             *)
UserReturns(e) ==
    /\ state[e] = "setup" /\ at[e] = "user"
    /\ \/ /\ valid[e] /\ Answers /\ UNCHANGED <<client, login>>
          /\ Proceeds(e, IF cars[e] = {} THEN "wallbox" ELSE "vehicle")
       \/ Fails(e) /\ SetupFails(e, "retry") /\ UNCHANGED <<client, login>>
       \/ /\ ~valid[e] /\ Answers /\ SetupFails(e, "error")
          /\ client' = Put(client, e, "closed")
          /\ login' = Put(login, e, IF login[e] = "none" THEN "credentials" ELSE login[e])
    /\ UNCHANGED <<cars, built, feeds, stray, flight, data, service, valid, otpNeeded,
                   reloads, outlived, together>>

(* The first refresh of the next vehicle's coordinator: when it fails its  *)
(* subscriptions, and the websocket, may have been made.                   *)
VehicleReturns(e) ==
    /\ state[e] = "setup" /\ at[e] = "vehicle"
    /\ \E v \in cars[e] \ built[e] :
          /\ built' = Put(built, e, built[e] \cup {v})
          /\ \/ /\ feeds' = Put(feeds, e, feeds[e] \cup {v})
                /\ client' = Put(client, e, "open")
                /\ \/ Answers /\ Proceeds(e, "more")
                   \/ Fails(e) /\ SetupFails(e, "retry")
             \/ Fails(e) /\ SetupFails(e, "retry") /\ UNCHANGED <<feeds, client>>
    /\ UNCHANGED <<cars, stray, flight, data, service, valid, logins, reloads,
                   outlived, together>>

FirstVehicleOnly(e) == "wallbox"   \* mutant: the loop ends after one vehicle

AfterVehicle(e) == IF built[e] = cars[e] THEN "wallbox" ELSE "vehicle"

(* The other first refreshes: the vehicle's charging and drivers, the      *)
(* wallboxes.  The supported features may fail without consequence.        *)
OtherReturns(e) ==
    /\ state[e] = "setup" /\ at[e] \in {"more", "wallbox", "features"}
    /\ \/ /\ at[e] = "more" /\ Answers
          /\ Proceeds(e, AfterVehicle(e))
       \/ at[e] = "wallbox" /\ Answers /\ Proceeds(e, "features")
       \/ at[e] # "features" /\ Fails(e) /\ SetupFails(e, "retry")
       \/ at[e] = "features" /\ Answers /\ Proceeds(e, "platforms")
    /\ data' = IF at[e] = "features" THEN data \cup {e} ELSE data
    /\ together' = (together \/ Cardinality(data') > 1)
    /\ UNCHANGED <<cars, built, clients, flight, service, valid, logins, reloads,
                   outlived>>

(* The platforms are set up; the service is registered if it is not there. *)
SetupEnds(e) ==
    /\ state[e] = "setup" /\ at[e] = "platforms"
    /\ state' = Put(state, e, "loaded") /\ at' = Put(at, e, "")
    /\ service' = IF service = None THEN e ELSE service
    /\ UNCHANGED <<cars, failures, after, built, clients, flight, data, valid, logins, reloads,
                   outlived, together>>

-----------------------------------------------------------------------------
(* Unload, by the user or for a reload.                                    *)
UnloadBegins(e) ==
    /\ state[e] = "loaded"
    /\ state' = Put(state, e, "unloading") /\ at' = Put(at, e, "platforms")
    /\ reloads' = Put(reloads, e, IF reloads[e] > 0 THEN reloads[e] - 1 ELSE 0)
    /\ UNCHANGED <<cars, failures, after, built, clients, flight, data, service, valid, logins,
                   outlived, together>>

ServiceKept(left) == service   \* mutant: the service is never removed

ServiceGone(left) == None   \* mutant: removed with any entry

ServiceAfter(left) == IF left = {} THEN None ELSE service

(* The client is closed whether or not the platforms unloaded.             *)
UnloadEnds(e) ==
    /\ state[e] = "unloading"
    /\ at' = Put(at, e, "")
    /\ client' = Put(client, e, "closed")
    /\ \/ /\ state' = Put(state, e, "cleaning") /\ after' = Put(after, e, "not_loaded")
          /\ data' = data \ {e}
          /\ service' = ServiceAfter(data \ {e})
       \/ /\ state' = Put(state, e, "failed")
          /\ UNCHANGED <<after, data, service>>
    /\ UNCHANGED <<cars, failures, built, feeds, stray, flight, valid, logins, reloads, outlived,
                   together>>

ShutdownKeepsSocket(e) == UNCHANGED client   \* mutant: unsubscribes, and no more

ShutdownCloses(e) == client' = Put(client, e, "closed")

(* VehicleCoordinator.async_shutdown: the subscriptions end, and the       *)
(* websocket that the entry's other vehicles use is closed.                *)
ShutsDown(e, v) ==
    /\ state[e] = "cleaning" /\ v \in built[e]
    /\ built' = Put(built, e, built[e] \ {v})
    /\ feeds' = Put(feeds, e, feeds[e] \ {v})
    /\ ShutdownCloses(e)
    /\ outlived' = Put(outlived, e, outlived[e] \/ v \in flight[e])
    /\ UNCHANGED <<cars, failures, state, at, after, stray, flight, data, service, valid, logins,
                   reloads, together>>

(* All are shut down.  A reload goes on with the setup.                    *)
CleanedUp(e) ==
    /\ state[e] = "cleaning" /\ built[e] = {}
    /\ state' = Put(state, e, after[e]) /\ after' = Put(after, e, "")
    /\ UNCHANGED <<cars, failures, at, built, clients, flight, data, service, valid, logins,
                   reloads, outlived, together>>

(* A reload of an entry that did not unload raises.                        *)
ReloadRefused(e) ==
    /\ state[e] = "failed" /\ reloads[e] > 0
    /\ reloads' = Put(reloads, e, reloads[e] - 1)
    /\ UNCHANGED <<cars, failures, state, at, after, built, clients, flight, data, service, valid,
                   logins, outlived, together>>

(* The options were changed: update_listener reloads the entry.            *)
OptionsChange(e) ==
    /\ state[e] = "loaded" /\ reloads[e] = 0
    /\ reloads' = Put(reloads, e, 1)
    /\ UNCHANGED <<cars, failures, state, at, after, built, clients, flight, data, service, valid,
                   logins, outlived, together>>

-----------------------------------------------------------------------------
(* A refresh of a vehicle, by its watchdog or its debouncer: subscribes,   *)
(* connecting the client anew if it must.                                  *)
RefreshBegins(e, v) ==
    /\ v \in built[e] \ flight[e]
    /\ flight' = Put(flight, e, flight[e] \cup {v})
    /\ UNCHANGED <<cars, failures, state, at, after, built, clients, data, service, valid, logins,
                   reloads, outlived, together>>

RefreshEnds(e, v) ==
    /\ v \in flight[e]
    /\ flight' = Put(flight, e, flight[e] \ {v})
    /\ \/ feeds' = Put(feeds, e, feeds[e] \cup {v}) /\ client' = Put(client, e, "open")
       \/ UNCHANGED <<feeds, client>>
    /\ UNCHANGED <<cars, failures, state, at, after, built, stray, data, service, valid, logins,
                   reloads, outlived, together>>

(* External: the tokens expire.                                            *)
TokensExpire(e) ==
    /\ state[e] = "loaded" /\ valid[e] /\ reloads[e] = 0
    /\ valid' = Put(valid, e, FALSE)
    /\ UNCHANGED <<cars, failures, state, at, after, built, clients, flight, data, service, logins,
                   reloads, outlived, together>>

AuthFailsQuietly(e) ==   \* mutant: an update that failed like any other
    /\ state[e] = "loaded" /\ ~valid[e] /\ login[e] = "none"
    /\ client' = Put(client, e, "closed")
    /\ UNCHANGED <<cars, failures, state, at, after, built, feeds, stray, flight, data, service,
                   valid, logins, reloads, outlived, together>>

(* A coordinator's poll is told so: it closes the client the others share, *)
(* and Home Assistant asks for a login.                                    *)
AuthFails(e) ==
    /\ state[e] = "loaded" /\ ~valid[e] /\ login[e] = "none"
    /\ client' = Put(client, e, "closed")
    /\ login' = Put(login, e, "credentials") /\ otpNeeded' = Put(otpNeeded, e, FALSE)
    /\ UNCHANGED <<cars, failures, state, at, after, built, feeds, stray, flight, data, service,
                   valid, reloads, outlived, together>>

-----------------------------------------------------------------------------
(* async_step_user.  An error other than "unauthenticated", a wrong        *)
(* one-time password among them, raises and leaves the form as it is.      *)
Shows(e, form) ==
    /\ login' = Put(login, e, form)
    /\ UNCHANGED <<cars, state, at, after, built, clients, flight, data, service, valid,
                   reloads, outlived, together>>

(* The login is accepted: an entry is made, or the one that asked is       *)
(* updated and reloaded, by the flow and, if it is loaded, its listener.   *)
LoginEnds(e) ==
    /\ login' = Put(login, e, "none") /\ otpNeeded' = Put(otpNeeded, e, FALSE)
    /\ valid' = Put(valid, e, TRUE)
    /\ \/ state[e] = "absent" /\ state' = Put(state, e, "not_loaded") /\ UNCHANGED reloads
       \/ /\ state[e] # "absent" /\ UNCHANGED state
          /\ reloads' = Put(reloads, e, IF state[e] = "loaded" THEN 2 ELSE 1)
    /\ UNCHANGED <<cars, failures, at, after, built, clients, flight, data, service, outlived,
                   together>>

(* Credentials; the client of the flow remembers that a one-time password  *)
(* was asked for once.                                                     *)
Credentials(e) ==
    /\ login[e] = "credentials"
    /\ \/ otpNeeded' = Put(otpNeeded, e, TRUE) /\ Shows(e, "otp") /\ Answers
       \/ ~otpNeeded[e] /\ LoginEnds(e)

OneTimePassword(e) ==
    /\ login[e] = "otp"
    /\ \/ LoginEnds(e)
       \/ Fails(e) /\ Shows(e, "credentials") /\ UNCHANGED otpNeeded

-----------------------------------------------------------------------------
EntryStep(e) ==
    \/ SetupBegins(e) \/ CsrfReturns(e) \/ UserReturns(e) \/ VehicleReturns(e)
    \/ OtherReturns(e) \/ SetupEnds(e) \/ UnloadBegins(e) \/ UnloadEnds(e)
    \/ CleanedUp(e) \/ ReloadRefused(e) \/ OptionsChange(e)
    \/ TokensExpire(e) \/ AuthFails(e) \/ Credentials(e) \/ OneTimePassword(e)
    \/ \E v \in cars[e] : ShutsDown(e, v) \/ RefreshBegins(e, v) \/ RefreshEnds(e, v)

EntryNext == \E e \in Entries : EntryStep(e)

EntrySpec == EntryInit /\ [][EntryNext]_entryVars

(* Home Assistant goes on with what it began, requests end, and an owner   *)
(* who is asked logs in.                                                   *)
GoesOn(e) ==
    \/ SetupBegins(e) \/ CsrfReturns(e) \/ UserReturns(e) \/ VehicleReturns(e)
    \/ OtherReturns(e) \/ SetupEnds(e) \/ UnloadEnds(e) \/ CleanedUp(e)
    \/ \E v \in cars[e] : ShutsDown(e, v)
    \/ reloads[e] > 0 /\ UnloadBegins(e)
    \/ AuthFails(e) \/ Credentials(e) \/ OneTimePassword(e)

EntryFairness == \A e \in Entries : WF_entryVars(GoesOn(e))

-----------------------------------------------------------------------------
(* An entry at rest that is not loaded has no websocket and no             *)
(* subscription, of this setup or an earlier one: whichever first refresh  *)
(* failed and in whatever order the vehicles shut down, unless a refresh   *)
(* went on after the shutdown of its coordinator.                          *)
NothingLeftOpen == \A e \in Entries :
    state[e] \in {"not_loaded", "retry", "error"} /\ ~outlived[e]
        => client[e] # "open" /\ feeds[e] = {} /\ ~stray[e]

(* The service is there exactly while the integration holds an entry,      *)
(* whichever of them is set up or unloaded first.                          *)
ServiceWithEntries ==
    (\A e \in Entries : at[e] # "platforms") => (service # None <=> data # {})

(* The service speaks for an entry that is there, unless two were there    *)
(* at once: it is bound to the one that registered it.                     *)
ServiceAnswers == service # None /\ ~together => service \in data

(* An entry whose tokens expired is loaded with new ones, unless it did    *)
(* not unload.                                                             *)
ReauthRecovers == \A e \in Entries :
    (state[e] = "loaded" /\ ~valid[e])
        ~> ((state[e] = "loaded" /\ valid[e]) \/ state[e] = "failed")

(* Whatever of a setup failed, what it opened is closed with it, and the   *)
(* one service lives as long as an entry that can answer it.               *)
EntryLeavesNothing ==
    /\ EntryTypeOK
    /\ NothingLeftOpen
    /\ ServiceWithEntries
    /\ ServiceAnswers
=============================================================================
