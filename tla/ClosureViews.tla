---------------------------- MODULE ClosureViews -----------------------------
(***************************************************************************)
(* What Home Assistant shows of a closure (cover.py, with the enumerations *)
(* of next_action_states.py) and of the lock (lock.py), while the vehicle  *)
(* moves it and its frames come, do not come, or bring no usable value.    *)
(* The vehicle reports the next action of a closure, which says what it    *)
(* can do next, and whether the closure is open; the record keeps the last *)
(* usable value of each, but for a null, which replaces it (see            *)
(* VehicleRecord).  A behaviour is the life of one closure, or of the      *)
(* locks.                                                                  *)
(***************************************************************************)
EXTENDS Naturals, FiniteSets

CONSTANTS Locks,      \* the keys of LOCK_STATE_ENTITIES
          None

ASSUME ViewsAssumption == Locks # {} /\ IsFiniteSet(Locks)

VARIABLES
    kind,       \* the closure of this behaviour, or "locks"
    position,   \* the vehicle: where the closure is
    next,       \* the record's next action, or None
    closure,    \* the record's closure value, or None
    inStep,     \* history: the last next action of a frame is of this position
    said,       \* history: the last next action that was not unavailable,
                \* a null too
    lock,       \* the record's value of each lock, or None
    stated      \* history: the last value stated of each lock, a null too

closureVars == <<position, next, closure, inStep, said>>
lockVars    == <<lock, stated>>
viewVars    == <<kind, closureVars, lockVars>>

Unavailable == "sna"       \* of a next action, "signal_not_available" of a value
Null        == "null"      \* a value of null that a frame brings
Positions == {"closed", "opening", "open", "closing"}
LockWords == {"locked", "unlocked", "unlisted", Unavailable, Null, None}

-----------------------------------------------------------------------------
(* The classes of next_action_states.py: the actions each method names.    *)

OpenActions ==
    {"open_allowed", "open_not_available", "open_not_allowed_faulted"}
CloseActions ==
    {"close_allowed", "close_not_available", "close_not_allowed_faulted"}

FrunkNextActionState ==
    [open |-> CloseActions \cup {"closing", "close_not_allowed_no_powered_operation",
                 "obstructed_while_opening_close_allowed",
                 "obstructed_while_closing_open_allowed"},
     closed |-> OpenActions \cup {"opening", "open_allowed_no_powered_operation"},
     opening |-> {"opening"}, closing |-> {"closing"}, other |-> {"sna"}]

LiftgateNextActionState ==
    [open |-> CloseActions \cup {"closing", "close_not_allowed_no_powered_operation",
                 "obstructed_while_opening_close_allowed",
                 "obstructed_while_closing_close_allowed",
                 "lower_gate_open_close_not_allowed",
                 "close_allowed_obstacle_detected", "close_allowed_trailer_detected"},
     closed |-> OpenActions \cup {"opening", "open_allowed_no_powered_operation",
                   "open_allowed_trailer_detected", "open_allowed_obstacle_detected"},
     opening |-> {"opening", "opening_pause_not_allowed"},
     closing |-> {"closing", "closing_pause_not_allowed"},
     other |-> {"sna", "processing"}]

ChargePortObstructedClosed ==   \* mutant: an obstructed door is closed
    [open |-> CloseActions \cup {"closing"},
     closed |-> OpenActions \cup {"opening", "obstructed_while_opening_open_allowed",
                   "obstructed_while_opening_close_allowed",
                   "obstructed_while_closing_close_allowed"},
     opening |-> {"opening"}, closing |-> {"closing"}, other |-> {"sna"}]

ChargePortDoorNextActionState ==
    [open |-> CloseActions \cup {"closing", "obstructed_while_opening_close_allowed",
                 "obstructed_while_closing_close_allowed"},
     closed |-> OpenActions \cup {"opening", "obstructed_while_opening_open_allowed"},
     opening |-> {"opening"}, closing |-> {"closing"}, other |-> {"sna"}]

WindowsNextActionState ==
    [open |-> CloseActions \cup {"opening", "closing", "moving",
                 "obstructed_while_closing_close_allowed", "close_not_allowed_uncalibrated"},
     closed |-> OpenActions \cup {"open_not_allowed_uncalibrated"},
     opening |-> {"opening", "moving"}, closing |-> {"closing", "moving"}, other |-> {"sna"}]

(* NEXT_ACTION_MAPPING; the tonneau has no next action.                    *)
NextActions ==
    [k \in {"frunk", "liftgate", "charge_port", "windows", "tonneau"} |->
        CASE k = "frunk"       -> FrunkNextActionState
          [] k = "liftgate"    -> LiftgateNextActionState
          [] k = "charge_port" -> ChargePortDoorNextActionState
          [] k = "windows"     -> WindowsNextActionState
          [] k = "tonneau"     -> [open |-> {}, closed |-> {}, opening |-> {},
                                   closing |-> {}, other |-> {}]]

Members(c) == c.open \cup c.closed \cup c.opening \cup c.closing \cup c.other

ASSUME NoneIsNoWord ==
    /\ \A k \in DOMAIN NextActions : None \notin Members(NextActions[k])
    /\ None \notin {"unlisted", "open", "closed", "locked", "unlocked", Unavailable, Null}
    /\ None \notin BOOLEAN

-----------------------------------------------------------------------------
(* The cover.  A value outside the enumeration is as none: the closure's   *)
(* own value decides.                                                      *)

Class == NextActions[kind]

GetNextActionState(n) == IF n \in Members(Class) THEN n ELSE None

IsClosed(n, c) ==
    IF GetNextActionState(n) # None THEN n \in Class.closed ELSE c # "open"

(* CoverEntity.state, of is_opening, is_closing and is_closed.             *)
CoverState(n, c) ==
    IF n \in Class.opening THEN "opening"
    ELSE IF n \in Class.closing THEN "closing"
    ELSE IF IsClosed(n, c) THEN "closed" ELSE "open"

LockedUnlessAll ==   \* mutant: locked unless every closure is unlocked
    LET usable == {k \in Locks : lock[k] \notin {None, Null, Unavailable}} IN
    IF usable = {} THEN None ELSE ~\A k \in usable : lock[k] = "unlocked"

(* _closures_are_locked: any word but one counts as locked.                *)
IsLocked ==
    LET usable == {k \in Locks : lock[k] \notin {None, Null, Unavailable}} IN
    IF usable = {} THEN None ELSE ~\E k \in usable : lock[k] = "unlocked"

-----------------------------------------------------------------------------
ViewTypeOK ==
    /\ kind \in DOMAIN NextActions \cup {"locks"} /\ position \in Positions
    /\ kind # "locks" => next \in Members(Class) \cup {"unlisted", Null, None}
    /\ said # None => next \notin {None, Unavailable}
    /\ closure \in {"open", "closed", Unavailable, Null, None}
    /\ lock \in [Locks -> LockWords]

ViewInit ==
    /\ kind \in DOMAIN NextActions \cup {"locks"} /\ position = "closed"
    /\ next = None /\ closure = None /\ inStep = FALSE /\ said = None
    /\ lock = [k \in Locks |-> None] /\ stated = lock

(* What the vehicle may report of a closure at each position.              *)
ReportedAt(p) ==
    Members(Class) \cap
      (CASE p = "closed"  -> OpenActions \cup {"open_allowed_no_powered_operation",
                                "open_allowed_trailer_detected",
                                "open_allowed_obstacle_detected",
                                "open_not_allowed_uncalibrated",
                                "obstructed_while_opening_open_allowed"}
         [] p = "opening" -> {"opening", "opening_pause_not_allowed", "moving"}
         [] p = "closing" -> {"closing", "closing_pause_not_allowed", "moving"}
         [] p = "open"    -> CloseActions \cup {"close_not_allowed_no_powered_operation",
                                "obstructed_while_opening_close_allowed",
                                "obstructed_while_closing_open_allowed",
                                "obstructed_while_closing_close_allowed",
                                "lower_gate_open_close_not_allowed",
                                "close_allowed_obstacle_detected",
                                "close_allowed_trailer_detected",
                                "close_not_allowed_uncalibrated"})

KeepTakesAll(old, new) == IF new = None THEN old ELSE new   \* mutant

(* A value the frame brings (None: it brings none): one that is unusable   *)
(* does not replace the one the record holds; a null is not unusable.      *)
Keep(old, new) ==
    IF new = None \/ (new = Unavailable /\ old # None) THEN old ELSE new

Moves(p) ==
    /\ kind # "locks" /\ position' = p /\ inStep' = FALSE
    /\ \/ position \in {"closed", "closing"} /\ p = "opening"
       \/ position \in {"opening", "closing"} /\ p \in {"open", "closed"}
       \/ position \in {"open", "opening"} /\ p = "closing"
    /\ UNCHANGED <<kind, next, closure, said, lockVars>>

(* A frame of the vehicle's state: the next action n and the value c.      *)
ClosureFrame(n, c) ==
    /\ kind # "locks"
    /\ next' = Keep(next, n) /\ closure' = Keep(closure, c)
    /\ said' = IF n \notin {None, Unavailable} THEN n ELSE said
    /\ inStep' = (n \in ReportedAt(position) \/ (n = None /\ inStep))
    /\ UNCHANGED <<kind, position, lockVars>>

LockFrame(f) ==
    /\ kind = "locks"
    /\ lock' = [k \in Locks |-> Keep(lock[k], f[k])]
    /\ stated' = [k \in Locks |->
                     IF f[k] \notin {None, Unavailable} THEN f[k] ELSE stated[k]]
    /\ UNCHANGED <<kind, closureVars>>

ViewNext ==
    \/ \E p \in Positions : Moves(p)
    \/ /\ kind # "locks"
       /\ \E n \in ReportedAt(position) \cup {None, Null, "unlisted"} \cup Class.other,
             c \in {None, Null, Unavailable,
                    IF position = "closed" THEN "closed" ELSE "open"} :
             ClosureFrame(n, c)
    \/ \E f \in [Locks -> LockWords] : LockFrame(f)

ViewSpec == ViewInit /\ [][ViewNext]_viewVars

-----------------------------------------------------------------------------
(* A cover whose next action is up to date shows where the closure is,     *)
(* whatever the vehicle's reason for the action: the enumerations put      *)
(* every action on the right side (next_action_states.py, is_closed,       *)
(* is_opening, is_closing).  "moving" tells no direction.                  *)
CoverFollows ==
    kind # "locks" /\ inStep /\ next # "moving" => CoverState(next, closure) = position

(* A report without a usable next action does not move the cover: it shows *)
(* what the last usable one said, whatever the closure's own value does,   *)
(* until a null takes that back and leaves the cover to the closure's own  *)
(* value (cover.is_closed over the record the coordinator merges).         *)
LastActionStands ==
    kind # "locks" /\ said # None => CoverState(next, closure) = CoverState(said, closure)

(* The lock shows locked only when some closure is known to be locked (or  *)
(* in a word that is not listed) and none that ever stated its state was   *)
(* unlocked when it last did: one that falls silent does not lock the      *)
(* vehicle.  One that states null does: it counts no more, whatever it had *)
(* stated before (lock._closures_are_locked).                              *)
LockedIsKnown ==
    kind = "locks" =>
        /\ IsLocked = TRUE => /\ \E k \in Locks : stated[k] \in {"locked", "unlisted"}
                              /\ \A k \in Locks : stated[k] # "unlocked"
        /\ (IsLocked = None) <=> \A k \in Locks : stated[k] \in {None, Null}

(* Covers and the lock show what is known of the closures, and no frame    *)
(* without news moves them; a null is news that nothing is known.          *)
ClosureShown ==
    /\ ViewTypeOK
    /\ CoverFollows
    /\ LastActionStands
    /\ LockedIsKnown
=============================================================================
