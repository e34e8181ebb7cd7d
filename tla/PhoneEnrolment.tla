--------------------------- MODULE PhoneEnrolment ---------------------------
(***************************************************************************)
(* Vehicle control: which vehicles have Home Assistant enrolled as a phone *)
(* (config_flow.py, validate_vehicle_control), which identity the loaded   *)
(* entry signs its commands with (__init__.py), and what the removal of    *)
(* the entry takes back.  An options form keeps a copy of the options of   *)
(* when it was opened, and two may be open at once; a request is refused,  *)
(* or fails, with or without effect.                                       *)
(***************************************************************************)
EXTENDS Naturals, FiniteSets

CONSTANTS Cars, Keys, Forms, NoKey

ASSUME PhoneAssumption == NoKey \notin Keys

VARIABLES
    phones,     \* external: the vehicles and keys enrolled
    twoFactor,  \* external: the account has a second factor
    options,    \* the entry's options: the vehicles to control and the key
    form,       \* the options forms
    presence,   \* the entry: "kept", "reloading", "removing" or "removed"
    identity,   \* the vehicles the loaded entry has a phone identity for
    leaving,    \* the identities the removal has yet to disenrol
    used,       \* history: the keys generated
    limited,    \* history: the account's limit of phones was met
    overlapped, \* history: two forms were open at once
    failed,     \* history: a request to enrol or disenrol failed in a form
    lapsed,     \* history: the second factor was turned off
    stuck       \* history: a request of the removal failed

account   == <<phones, twoFactor>>
entry     == <<options, presence, identity, leaving>>
faults    == <<limited, overlapped, failed, lapsed, stuck>>
phoneVars == <<account, form, entry, used, faults>>

Options == [control : SUBSET Cars, key : Keys \cup {NoKey}]

(* A form: where it is, the options it copied, the vehicles asked for, the *)
(* key enrolled with, whether that key is new, and the vehicles its loop    *)
(* has yet to enrol or disenrol.                                           *)
NotOpen == [at |-> "none", copy |-> [control |-> {}, key |-> NoKey], want |-> {},
            key |-> NoKey, new |-> FALSE, todo |-> {}]

PhoneTypeOK ==
    /\ phones \subseteq Cars \X Keys
    /\ twoFactor \in BOOLEAN /\ {limited, overlapped, failed, lapsed, stuck} \subseteq BOOLEAN
    /\ options \in Options
    /\ options.control # {} /\ ~overlapped => options.key # NoKey
    /\ form \in [Forms -> [at : {"none", "open", "reading", "loop"}, copy : Options,
                           want : SUBSET Cars, key : Keys \cup {NoKey}, new : BOOLEAN,
                           todo : SUBSET Cars]]
    /\ presence \in {"kept", "reloading", "removing", "removed"}
    /\ identity \subseteq Cars /\ leaving \subseteq Cars /\ used \subseteq Keys
    /\ {p[2] : p \in phones} \subseteq used

PhoneInit ==
    /\ phones = {} /\ twoFactor \in BOOLEAN
    /\ options = [control |-> {}, key |-> NoKey]
    /\ form = [f \in Forms |-> NotOpen]
    /\ presence = "kept" /\ identity = {} /\ leaving = {} /\ used = {}
    /\ limited = FALSE /\ overlapped = FALSE /\ failed = FALSE
    /\ stuck = FALSE /\ lapsed = FALSE

Enrolled(key) == {c \in Cars : <<c, key>> \in phones}

Open(f, at) == form[f].at = at
Sets(f, r)  == form' = [form EXCEPT ![f] = r]
Idle        == \A f \in Forms : form[f].at = "none"

-----------------------------------------------------------------------------
FormOpens(f) ==
    /\ presence = "kept" /\ Open(f, "none")
    /\ Sets(f, [NotOpen EXCEPT !.at = "open", !.copy = options])
    /\ overlapped' = (overlapped \/ ~Idle)
    /\ UNCHANGED <<account, entry, used, limited, failed, lapsed, stuck>>

FormClosed(f) ==
    /\ Open(f, "open") /\ Sets(f, NotOpen)
    /\ UNCHANGED <<account, entry, used, faults>>

Submitted(f) ==
    /\ Open(f, "open")
    /\ \E want \in SUBSET Cars :
          Sets(f, [form[f] EXCEPT !.at = "reading", !.want = want])
    /\ UNCHANGED <<account, entry, used, faults>>

KeyEachTime(f) == form[f].want # {}   \* mutant: a new pair whenever control is asked

NeedsKey(f) == form[f].want # {} /\ options.key = NoKey

(* The vehicles the loop has something to do for.                          *)
Differing(want, seen) == (want \ seen) \cup (seen \ want)

(* The account is read.  Without it, or without a second factor, the form  *)
(* stays; a key pair is made the first time.                               *)
AccountRead(f) ==
    /\ Open(f, "reading")
    /\ \/ Sets(f, [form[f] EXCEPT !.at = "open"]) /\ UNCHANGED used
       \/ /\ form[f].want # {} => twoFactor
          /\ \E key \in IF NeedsKey(f) THEN Keys \ used ELSE {options.key} :
                /\ Sets(f, [form[f] EXCEPT !.at = "loop", !.key = key, !.new = NeedsKey(f),
                               !.todo = Differing(form[f].want, Enrolled(key))])
                /\ used' = IF NeedsKey(f) THEN used \cup {key} ELSE used
    /\ UNCHANGED <<account, entry, faults>>

(* A request that failed may have been carried out.                        *)
MayBe(done) == failed' = TRUE /\ (phones' = done \/ UNCHANGED phones)

Looked(f, c) == [form[f] EXCEPT !.todo = @ \ {c}]

KeepsOnFailure(f, c) == Looked(f, c)   \* mutant: logs, and saves it as controlled

AfterFailure(f, c) == [Looked(f, c) EXCEPT !.want = @ \ {c}]

Enrols(f, c) ==
    /\ Open(f, "loop") /\ c \in form[f].todo \cap form[f].want
    /\ LET done == phones \cup {<<c, form[f].key>>}
       IN  \/ phones' = done /\ Sets(f, Looked(f, c)) /\ UNCHANGED <<limited,
                                                                     failed>>
           \/ MayBe(done) /\ Sets(f, AfterFailure(f, c)) /\ UNCHANGED limited
           \/ /\ limited' = TRUE /\ UNCHANGED <<phones, failed>>
              /\ Sets(f, [NotOpen EXCEPT !.at = "open", !.copy = form[f].copy])
    /\ UNCHANGED <<twoFactor, entry, used, overlapped, lapsed, stuck>>

Disenrols(f, c) ==
    /\ Open(f, "loop") /\ c \in form[f].todo \ form[f].want
    /\ LET done == phones \ {<<c, form[f].key>>}
       IN  \/ phones' = done /\ UNCHANGED failed
           \/ MayBe(done)
    /\ Sets(f, Looked(f, c))
    /\ UNCHANGED <<twoFactor, entry, used, limited, overlapped, lapsed, stuck>>

SavedCopyKey(f) == form[f].copy.key   \* mutant: forgets the key it made

SavedKey(f) == IF form[f].new THEN form[f].key ELSE form[f].copy.key

(* The form's copy of the options, the vehicles left, and a new key become *)
(* the entry's options; the entry is reloaded if they changed.             *)
FormEnds(f) ==
    /\ Open(f, "loop") /\ form[f].todo = {} /\ presence # "reloading"
    /\ options' = [control |-> form[f].want, key |-> SavedKey(f)]
    /\ presence' = IF options' = options THEN presence ELSE "reloading"
    /\ Sets(f, NotOpen)
    /\ UNCHANGED <<account, identity, leaving, used, faults>>

-----------------------------------------------------------------------------
IdentitiesOfControl == identity   \* mutant: the identities of the first setup

(* Setup: the identities of the entry's key, if control is asked for and   *)
(* the account still has a second factor.                                  *)
Identities ==
    IF options.control # {} /\ twoFactor THEN Enrolled(options.key) ELSE {}

EntryReloads ==
    /\ presence = "reloading" /\ presence' = "kept"
    /\ identity' = Identities
    /\ UNCHANGED <<account, options, form, leaving, used, faults>>

(* External: the owner turns the second factor on or off.                  *)
SecondFactor ==
    /\ presence = "kept" /\ Idle /\ twoFactor' = ~twoFactor
    /\ lapsed' = (lapsed \/ twoFactor)
    /\ UNCHANGED <<phones, entry, form, used, limited, overlapped, failed,
                   stuck>>

ControlledOnly == options.control   \* mutant: those that are controlled

ToLeave == Enrolled(options.key)

(* async_remove_entry: if there is a key and the account can be read.      *)
RemovalBegins ==
    /\ presence = "kept" /\ Idle
    /\ \/ options.key # NoKey /\ leaving' = ToLeave /\ UNCHANGED stuck
       \/ leaving' = {} /\ stuck' = (options.key # NoKey)
    /\ presence' = "removing"
    /\ UNCHANGED <<account, options, form, identity, used, limited, overlapped,
                   failed, lapsed>>

(* A refusal is ignored; an error ends the removal of the others.          *)
RemovalDisenrols(c) ==
    /\ presence = "removing" /\ c \in leaving
    /\ LET done == phones \ {<<c, options.key>>}
       IN  \/ phones' = done /\ leaving' = leaving \ {c} /\ UNCHANGED stuck
           \/ /\ stuck' = TRUE /\ (phones' = done \/ UNCHANGED phones)
              /\ leaving' \in {leaving \ {c}, {}}
    /\ UNCHANGED <<twoFactor, options, form, presence, identity, used, limited,
                   overlapped, failed, lapsed>>

RemovalEnds ==
    /\ presence = "removing" /\ leaving = {} /\ presence' = "removed"
    /\ UNCHANGED <<account, options, form, identity, leaving, used, faults>>

PhoneNext ==
    \/ \E f \in Forms : \/ FormOpens(f) \/ FormClosed(f) \/ Submitted(f)
                        \/ AccountRead(f) \/ FormEnds(f)
                        \/ \E c \in Cars : Enrols(f, c) \/ Disenrols(f, c)
    \/ EntryReloads \/ SecondFactor \/ RemovalBegins \/ RemovalEnds
    \/ \E c \in Cars : RemovalDisenrols(c)

PhoneSpec == PhoneInit /\ [][PhoneNext]_phoneVars

-----------------------------------------------------------------------------
AtRest == Idle /\ presence = "kept"

(* A vehicle the options say is controlled has Home Assistant enrolled     *)
(* with the entry's key, whatever failed, unless the limit of phones was   *)
(* met or two forms overlapped.                                            *)
ControlMeansEnrolled ==
    AtRest /\ ~limited /\ ~overlapped => options.control \subseteq Enrolled(options.key)

(* No phone is left that the options do not know of: not one of another    *)
(* key, nor of a vehicle that is not controlled.                           *)
NoOrphanPhone ==
    AtRest /\ ~limited /\ ~overlapped /\ ~failed
        => phones \subseteq options.control \X {options.key}

(* The loaded entry has an identity to sign with for the vehicles it is    *)
(* asked to control, and for no other; for none, if the second factor was  *)
(* turned off.                                                             *)
IdentityIsEnrolled ==
    AtRest /\ ~limited /\ ~overlapped /\ ~failed
        => identity = options.control \/ (lapsed /\ identity = {})

(* The removal of the entry leaves no phone of Home Assistant's, those     *)
(* that an options form could not disenrol included.                       *)
RemovedLeavesNothing ==
    presence = "removed" /\ ~limited /\ ~overlapped /\ ~stuck => phones = {}

(* The entry's options, the phones at the server and the identities the    *)
(* entry signs with agree, whatever request failed, and its removal leaves *)
(* no phone.                                                               *)
OptionsTellPhones ==
    /\ PhoneTypeOK
    /\ ControlMeansEnrolled
    /\ NoOrphanPhone
    /\ IdentityIsEnrolled
    /\ RemovedLeavesNothing
=============================================================================
