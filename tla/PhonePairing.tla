---------------------------- MODULE PhonePairing ----------------------------
(***************************************************************************)
(* Pairing the phone key over Bluetooth: the pair button of a vehicle      *)
(* (button.py), the legacy handshake (ble.py) and that of the second       *)
(* generation (ble_gen2.py), and the trace both leave (ble_trace.py).      *)
(*                                                                         *)
(* The vehicle advertises under addresses that change; what answers may be *)
(* another vehicle, or this one with an answer to another nonce; every     *)
(* step, and closing the connection too, may raise.  A reload of the entry *)
(* makes a new button while a press of the old one goes on: the two share  *)
(* the trace.                                                              *)
(***************************************************************************)
EXTENDS Naturals

CONSTANTS
    Vehicle,      \* the vehicle to pair with
    Other,        \* another vehicle
    NoId,         \* no identity stated
    MaxAttempts,  \* GEN2_MAX_ATTEMPTS
    MaxAddresses, \* bound: addresses the vehicle advertises under
    MaxReloads    \* bound: reloads of the entry

ASSUME PairingAssumption ==
    /\ Vehicle # Other /\ NoId \notin {Vehicle, Other}
    /\ MaxAttempts \in Nat \ {0} /\ MaxAddresses \in Nat /\ MaxReloads \in Nat

Buttons == 0 .. MaxReloads   \* the button, and those that reloads made

VARIABLES
    current,    \* the button there is now
    press,      \* where each button's press is
    done,       \* the pairing of a button is complete: no press is taken again
    tried,      \* how many addresses its press has tried
    advert,     \* the advertisement it follows
    link,       \* where its handshake is
    peer,       \* history: what was accepted as the vehicle's answer
    attempts,   \* BleTrace.attempts, their number
    traceOutcome, \* and the outcome of the last
    generation, \* BleTrace.generation
    issue,      \* the repair issue gen2_pairing_failed
    crossed,    \* history: two presses were under way at once
    second      \* history: its attempts at a second-generation advertisement

pairingVars == <<current, press, done, tried, advert, link, peer, attempts, traceOutcome,
                 generation, issue, crossed, second>>
traceVars == <<attempts, traceOutcome, generation>>

(* A vehicle's answer: the identity it states, if any; the vehicle whose   *)
(* key signed it, and whether over this attempt's nonce.                   *)
Replies == [id : {Vehicle, Other, NoId}, signer : {Vehicle, Other}, fresh : BOOLEAN]
Nobody  == [id |-> NoId, signer |-> Other, fresh |-> FALSE]

(* What an advertisement shows: the name of a phone key, or the service    *)
(* named after the vehicle.                                                *)
Adverts == {a \in [named : BOOLEAN, uuid : BOOLEAN] : a.named \/ a.uuid}

(* advertisement_generation: the name decides before the service does.     *)
GenerationOf(a) == IF a.named THEN 1 ELSE 2

(* The reasons of a failure are one: "timeout", "bad_reply" and the rest.  *)
Outcomes == {"", "failed", "bonded"}

PairTypeOK ==
    /\ current \in Buttons
    /\ press \in [Buttons -> {"idle", "searching", "linking", "checking"}]
    /\ done \in [Buttons -> BOOLEAN] /\ tried \in [Buttons -> 0 .. MaxAddresses]
    /\ \A b \in Buttons : press[b] = "linking" => advert[b] \in Adverts
    /\ link \in [Buttons -> {"none", "detect", "ids", "nonce", "pair", "auth1", "reply",
                             "auth2", "bond"}]
    /\ \A b \in Buttons : (link[b] # "none") = (press[b] = "linking")
    /\ peer \in [Buttons -> Replies]
    /\ attempts \in Nat /\ traceOutcome \in Outcomes
    /\ generation \in {0, 2} /\ issue \in BOOLEAN /\ crossed \in BOOLEAN
    /\ second \in [Buttons -> 0 .. MaxAddresses]

PairInit ==
    /\ current = 0
    /\ press = [b \in Buttons |-> "idle"] /\ done = [b \in Buttons |-> FALSE]
    /\ tried = [b \in Buttons |-> 0] /\ link = [b \in Buttons |-> "none"]
    /\ advert \in [Buttons -> {CHOOSE a \in Adverts : a.named}]
    /\ peer = [b \in Buttons |-> Nobody]
    /\ attempts = 0 /\ traceOutcome = "" /\ generation = 0 /\ issue = FALSE
    /\ crossed = FALSE /\ second = [b \in Buttons |-> 0]

At(b, where)  == press[b] = where
Goes(b, where) == press' = [press EXCEPT ![b] = where]
Links(b, step) == link' = [link EXCEPT ![b] = step]
Changed(f, b, x) == [f EXCEPT ![b] = x]

-----------------------------------------------------------------------------
TraceKept == UNCHANGED traceVars   \* mutant: attempts of all presses add up

TraceReset == attempts' = 0 /\ traceOutcome' = "" /\ generation' = 0

(* A press is refused while one is under way or once it has succeeded; the *)
(* trace starts again.                                                     *)
Pressed(b) ==
    /\ b = current /\ At(b, "idle") /\ ~done[b]
    /\ Goes(b, "searching") /\ tried' = Changed(tried, b, 0)
    /\ TraceReset
    /\ crossed' = (crossed \/ \E o \in Buttons : press[o] # "idle" \/ done[o])
    /\ second' = Changed(second, b, 0)
    /\ UNCHANGED <<current, done, advert, link, peer, issue>>

(* The entry is reloaded, and the phone is not paired: a new button; what  *)
(* a press of the old one does goes on.                                    *)
Reloaded ==
    /\ current < MaxReloads /\ ~done[current] /\ current' = current + 1
    /\ UNCHANGED <<press, done, tried, advert, link, peer, traceVars, issue, crossed,
                   second>>

AnyAddress(b) == 0   \* mutant: an address that failed is tried again

(* The addresses tried once the vehicle is found: never one of them again. *)
TriedAfter(b) == tried[b] + 1

(* The vehicle is found under an address not tried yet: an attempt begins. *)
Found(b) ==
    /\ At(b, "searching")
    /\ tried[b] < MaxAddresses /\ tried' = Changed(tried, b, TriedAfter(b))
    /\ \E a \in Adverts :
          /\ advert' = Changed(advert, b, a)
          /\ Links(b, IF GenerationOf(a) = 2 THEN "auth1" ELSE "detect")
          /\ generation' = IF GenerationOf(a) = 2 THEN 2 ELSE generation
          /\ second' = Changed(second, b, second[b] + GenerationOf(a) - 1)
    /\ Goes(b, "linking")
    /\ attempts' = attempts + 1 /\ traceOutcome' = ""
    /\ peer' = Changed(peer, b, Nobody)
    /\ UNCHANGED <<current, done, issue, crossed>>

IssueRaised == generation = 2

(* The search of thirty seconds finds nothing, or there are no more tries. *)
GivesUp(b) ==
    /\ Goes(b, "idle")
    /\ issue' = (issue \/ IssueRaised)

NotFound(b) ==
    /\ At(b, "searching") /\ GivesUp(b)
    /\ UNCHANGED <<current, done, tried, advert, link, peer, traceVars, crossed, second>>

NoLimit(b) == advert[b].uuid /\ GenerationOf(advert[b]) # 2   \* mutant: tries on

LastTry(b) ==
    /\ advert[b].uuid
    /\ GenerationOf(advert[b]) # 2 \/ attempts >= MaxAttempts

(* A handshake that returned False.                                        *)
AttemptFails(b) ==
    /\ Links(b, "none")
    /\ IF LastTry(b) THEN GivesUp(b) ELSE Goes(b, "searching") /\ UNCHANGED issue

OnlySuccess(x) ==   \* mutant: a failure returns without an outcome
    traceOutcome' = IF x = "bonded" THEN x ELSE traceOutcome

(* Only the last attempt of the trace takes the outcome, and if none was   *)
(* begun since the trace was reset it is lost.                             *)
Outcome(x) == traceOutcome' = IF attempts > 0 THEN x ELSE traceOutcome

linkVars == <<current, done, tried, advert, attempts, generation, crossed, second>>

-----------------------------------------------------------------------------
(* The first generation.  Detection makes a connection of its own, and may *)
(* find the second generation, or neither; only errors of the radio make   *)
(* an attempt fail, any other raises through the press.                    *)
Raises(b) ==
    /\ At(b, "linking") /\ link[b] \in {"ids", "nonce"}
    /\ Links(b, "none") /\ Goes(b, "idle")
    /\ UNCHANGED <<linkVars, peer, traceOutcome, issue>>

Detected(b) ==
    /\ link[b] = "detect"
    /\ \/ Links(b, "ids") /\ UNCHANGED generation
       \/ Links(b, "auth1") /\ generation' = 2
    /\ UNCHANGED <<current, press, done, tried, advert, peer, attempts, traceOutcome, issue, crossed, second>>

FirstGenerationFails(b) ==
    /\ link[b] \in {"detect", "ids", "nonce", "pair"}
    /\ AttemptFails(b)
    /\ UNCHANGED <<linkVars, peer, traceOutcome>>

RightId(id) == id = Vehicle

(* The vehicle states its identity.  Its nonce is waited for, not checked. *)
IdStated(b) ==
    /\ link[b] = "ids"
    /\ \E id \in {Vehicle, Other} :
          IF RightId(id)
          THEN /\ Links(b, "nonce") /\ peer' = Changed(peer, b, [Nobody EXCEPT !.id = id])
               /\ UNCHANGED <<current, press, issue>>
          ELSE AttemptFails(b) /\ UNCHANGED peer
    /\ UNCHANGED <<linkVars, traceOutcome>>

NonceStated(b) ==
    /\ link[b] = "nonce" /\ Links(b, "pair")
    /\ UNCHANGED <<linkVars, peer, traceOutcome, press, issue>>

(* Bonded: unless closing the connection raises the attempt has succeeded. *)
Bonds(b) ==
    \/ Links(b, "none") /\ Goes(b, "checking") /\ UNCHANGED issue
    \/ AttemptFails(b)

FirstGenerationPairs(b) ==
    link[b] = "pair" /\ Bonds(b) /\ UNCHANGED <<linkVars, peer, traceOutcome>>

-----------------------------------------------------------------------------
(* The second generation: every failure ends in an outcome.                *)
SecondFails(b) ==
    /\ AttemptFails(b) /\ Outcome("failed")
    /\ UNCHANGED <<linkVars, peer>>

AnyFresh(r) == r.signer = Vehicle /\ r.id # Other   \* mutant: not over the nonce

(* verify_auth1_reply: a well-formed answer, whose signature is the        *)
(* vehicle's over its own identity and this attempt's nonce.               *)
Verified(r) == r.id \in {Vehicle, NoId} /\ r.signer = Vehicle /\ r.fresh

Auth1(b) ==
    /\ link[b] = "auth1"
    /\ \/ Links(b, "reply") /\ UNCHANGED <<linkVars, peer, traceOutcome, press, issue>>
       \/ SecondFails(b)

Reply(b) ==
    /\ link[b] = "reply"
    /\ \/ \E r \in {r \in Replies : Verified(r)} :
             /\ Links(b, "auth2") /\ peer' = Changed(peer, b, r)
             /\ UNCHANGED <<linkVars, traceOutcome, press, issue>>
       \/ SecondFails(b)

Auth2(b) ==
    /\ link[b] = "auth2"
    /\ \/ Links(b, "bond") /\ UNCHANGED <<linkVars, peer, traceOutcome, press, issue>>
       \/ SecondFails(b)

(* _subscribe_encrypted: refused at first, then bonded and tried until the *)
(* link is gone or 45 seconds have passed.                                 *)
SubscribeEncrypted(b) ==
    /\ link[b] = "bond"
    /\ \/ /\ Bonds(b) /\ Outcome(IF press'[b] = "checking" THEN "bonded" ELSE "failed")
          /\ UNCHANGED <<linkVars, peer>>
       \/ SecondFails(b)

-----------------------------------------------------------------------------
IssueKept == UNCHANGED issue   \* mutant: success leaves the issue

IssueDeleted == issue' = FALSE

(* Ten seconds later the account is asked whether the phone is paired.     *)
Checked(b) ==
    /\ At(b, "checking") /\ Goes(b, "idle")
    /\ \/ done' = Changed(done, b, TRUE) /\ IssueDeleted
       \/ UNCHANGED <<done, issue>>
    /\ UNCHANGED <<current, tried, advert, link, peer, traceVars, crossed, second>>

LinkStep(b) ==
    \/ Raises(b) \/ Detected(b) \/ FirstGenerationFails(b) \/ IdStated(b)
    \/ NonceStated(b) \/ FirstGenerationPairs(b)
    \/ Auth1(b) \/ Reply(b) \/ Auth2(b) \/ SubscribeEncrypted(b)

PressStep(b) == Found(b) \/ NotFound(b) \/ LinkStep(b) \/ Checked(b)

PairNext == Reloaded \/ \E b \in Buttons : Pressed(b) \/ PressStep(b)

PairSpec == PairInit /\ [][PairNext]_pairingVars

(* Every wait of a press has a timeout.                                    *)
PairFairness == \A b \in Buttons : WF_pairingVars(PressStep(b))

-----------------------------------------------------------------------------
(* The adapter is asked to bond after an answer of this vehicle only: in   *)
(* the second generation one signed over this attempt's nonce, in the      *)
(* first one that states its identity.                                     *)
BondsWithVehicle == \A b \in Buttons :
    /\ link[b] = "pair" => peer[b].id = Vehicle
    /\ link[b] = "bond" => /\ peer[b].id # Other
                           /\ peer[b].signer = Vehicle /\ peer[b].fresh

(* A press makes no more attempts than it may at a vehicle that advertises *)
(* as the second generation, unless another press reset the trace that     *)
(* counts them.                                                            *)
AttemptsBounded == \A b \in Buttons : ~crossed => second[b] <= MaxAttempts

(* The repair issue is gone once the pairing is complete.                  *)
IssueEnds == (\E b \in Buttons : done[b]) /\ ~crossed => ~issue

(* An attempt of the second generation that ended left its outcome.        *)
Attempted(b) == /\ press[b] \in {"searching", "checking"} /\ attempts > 0
                /\ GenerationOf(advert[b]) = 2

OutcomeKept == \A b \in Buttons :
    ~crossed /\ Attempted(b)
        => traceOutcome # "" /\ (At(b, "checking") => traceOutcome = "bonded")

(* A press ends: no address is tried twice.                                *)
PressEnds == \A b \in Buttons : press[b] # "idle" ~> press[b] = "idle"

(* A press of the pair button makes a bounded number of attempts, leaves a *)
(* trace and no stale repair issue, and bonds with this vehicle only.      *)
PairingServes ==
    /\ PairTypeOK
    /\ BondsWithVehicle
    /\ AttemptsBounded
    /\ IssueEnds
    /\ OutcomeKept
=============================================================================
