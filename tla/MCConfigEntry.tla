---------------------------- MODULE MCConfigEntry ----------------------------
(* The instance of ConfigEntry and PhoneEnrolment that TLC checks: the entry, *)
(* and its options forms.  They share no state, so a behaviour is of one of   *)
(* them and the other stays in one initial state.                             *)
EXTENDS ConfigEntry, PhoneEnrolment, TLC

CONSTANTS e1, e2, v1, v2, k1, k2, f1, f2
MCEntries == {e1, e2}
MCVehicles == {v1, v2}
MCKeys == {k1, k2}
MCForms == {f1, f2}

VARIABLE part
mcVars == <<entryVars, phoneVars, part>>

(* One entry of two vehicles, or two entries of which one has a vehicle.     *)
MCEntryInit ==
    /\ EntryInit
    /\ login[e1] = "credentials" /\ cars[e2] = {}
    /\ cars[e1] = IF login[e2] = "none" THEN {v1, v2} ELSE {v1}

MCInit ==
    /\ part \in {"entry", "forms"}
    /\ MCEntryInit /\ PhoneInit
    /\ part = "entry" \/ login[e2] = "none"
    /\ part = "forms" \/ ~twoFactor

(* Two forms that overlap know the first vehicle only.                        *)
MCNext ==
    /\ UNCHANGED part
    /\ \/ /\ part = "entry" /\ EntryNext /\ UNCHANGED phoneVars
       \/ /\ part = "forms" /\ PhoneNext /\ UNCHANGED entryVars
          /\ overlapped' => /\ \A f \in MCForms : form'[f].want \subseteq {v1}
                            /\ phones' \subseteq {v1} \X MCKeys

(* EntryFairness, of the behaviours of the entry.                             *)
MCFairness == \A e \in MCEntries : WF_entryVars(part = "entry" /\ GoesOn(e))

MCSpec == MCInit /\ [][MCNext]_mcVars /\ MCFairness
=============================================================================
