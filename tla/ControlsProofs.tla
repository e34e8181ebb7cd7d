---------------------------- MODULE ControlsProofs ----------------------------
(***************************************************************************)
(* Proofs about the control of the vehicle, for any commands, buttons and  *)
(* services: what the table of command records keeps (CommandTracking),    *)
(* when a control is offered (ControlAccess), what a call of the climate   *)
(* entity leaves behind (CabinClimate), and the button that pairs the      *)
(* phone (PhonePairing).                                                   *)
(***************************************************************************)
EXTENDS CommandTracking, CabinClimate, ControlAccess, PhonePairing, TLAPS

-----------------------------------------------------------------------------
(* CommandTracking.  The ids of the commands are told apart.               *)
LEMMA IdsDiffer ==
    /\ \A c \in Calls : Main(c) \in Ids
    /\ \A c \in Sleepers : Wake(c) \in Ids
    /\ \A c, d \in Calls : Main(c) = Main(d) => c = d
    /\ \A c, d \in Calls : Wake(c) = Wake(d) => c = d
    /\ \A c, d \in Calls : Main(c) # Wake(d)
  BY CommandAssumption DEF Main, Wake, Ids, CommandAssumption

-----------------------------------------------------------------------------
(* The ids an execution has still to subscribe are new to the client and   *)
(* to the table.                                                           *)
Unused(i) == i \notin reg /\ i \notin seen
IdsUnused == \A c \in Calls :
    /\ pc[c] \in {"idle", "post", "sub"} => Unused(Current(c))
    /\ pc[c] = "idle" \/ c \in waking => Unused(Main(c))
    /\ pc[c] = "idle" /\ c \in Sleepers => Unused(Wake(c))

(* The record of the id an execution subscribes or waits for is young, and *)
(* so it is still there if there was a frame.                              *)
AwaitedIsYoung == \A c \in Calls : pc[c] \in {"write", "poll"} =>
    /\ Current(c) \notin old
    /\ Current(c) \in seen => Current(c) \in rec

(* A subscription without a handle is still being written, or its write    *)
(* raised; one whose record is old is past its write.                      *)
HandleIsKept == \A i \in reg :
    i \in held \/ i \in lost \/ \E c \in Calls : pc[c] = "write" /\ i = Current(c)
OldIsHeld == \A i \in old : i \in reg => i \in held \/ i \in lost

(* What is subscribed or about to be was announced.                        *)
StartIsAnnounced ==
    /\ reg \subseteq initiated
    /\ \A c \in Calls : pc[c] = "sub" => Current(c) \in initiated

(* A record, and an end, is of a command of which a frame came.            *)
SeenFirst == rec \subseteq seen /\ ended \subseteq seen

TrackingInv ==
    /\ RecordsKept
    /\ IdsUnused /\ AwaitedIsYoung /\ HandleIsKept /\ OldIsHeld
    /\ StartIsAnnounced /\ SeenFirst

-----------------------------------------------------------------------------
(* The commands of an execution: the wake's id while it is sent, its own   *)
(* id otherwise; no other execution has it.                                *)
LEMMA CurrentId ==
    ASSUME TypeOK
    PROVE  /\ \A c \in Calls : Current(c) \in Ids
           /\ \A c \in Calls : Current(c) = IF c \in waking THEN Wake(c) ELSE Main(c)
           /\ \A c, d \in Calls : c # d =>
                 /\ Current(c) # Current(d) /\ Current(c) # Main(d)
                 /\ Current(c) # Wake(d)
  BY IdsDiffer DEF Current, TypeOK

(* A step of c moves no other execution.                                   *)
LEMMA OthersStay ==
    ASSUME TypeOK, NEW c \in Calls, NEW s, Goto(c, s),
           waking' \in {waking, waking \cup {c}, waking \ {c}}
    PROVE  /\ pc'[c] = s
           /\ \A d \in Calls : d # c => /\ pc'[d] = pc[d] /\ (d \in waking' <=> d \in waking)
                                        /\ Current(d)' = Current(d)
           /\ \A d \in Calls : Current(d)' = IF d \in waking' THEN Wake(d) ELSE Main(d)
<1>1. pc \in [Calls -> {"idle", "post", "sub", "write", "poll", "done"}]
  BY DEF TypeOK
<1> QED
  BY <1>1 DEF Goto, Current

(* How send_vehicle_command and _execute_command may end: what they do to  *)
(* the execution.                                                          *)
LEMMA SentShape ==
    ASSUME TypeOK, NEW c \in Calls, NEW hasId \in BOOLEAN, Sent(c, hasId, rec)
    PROVE  /\ waking' = waking \ {c}
           /\ \/ Goto(c, "post") /\ c \in waking
              \/ Goto(c, "done")
              \/ Goto(c, "poll") /\ c \notin waking /\ Main(c) \notin rec
           /\ inProgress' \in {inProgress, None} /\ status' \in {status, "answered"}
  BY DEF Sent, Returns

(* What a step needs to keep the invariant, when it moves one execution    *)
(* and leaves the records alone.                                           *)
LEMMA ExecutionTypes ==
    ASSUME TypeOK, NEW c \in Calls, NEW s \in {"post", "sub", "write", "poll", "done"},
           Goto(c, s), waking' \in SUBSET Sleepers,
           waking' \in {waking, waking \cup {c}, waking \ {c}},
           c \in waking' => s \in {"post", "sub", "write"},
           inProgress' \in {inProgress, None, c},
           status' \in {status, "answered", "timeout"},
           reg' \in {reg, reg \cup {Current(c)}}, lost' \in {lost, lost \cup {Current(c)}},
           initiated' \in {initiated, initiated \cup {Current(c)}},
           \/ UNCHANGED <<held, timer>>
           \/ held' = held \cup {Current(c)} /\ timer' = timer \cup {Current(c)},
           UNCHANGED <<dropping, leaving, down, records, outcome, seen, ended>>
    PROVE  TypeOK'
<1>1. Current(c) \in Ids
  BY CurrentId
<1>2. pc' \in [Calls -> {"idle", "post", "sub", "write", "poll", "done"}]
  BY DEF TypeOK, Goto
<1>3. waking' \in SUBSET {d \in Sleepers : pc'[d] \in {"post", "sub", "write"}}
  <2> SUFFICES ASSUME NEW d \in waking'
               PROVE  d \in Sleepers /\ pc'[d] \in {"post", "sub", "write"}
    OBVIOUS
  <2>1. d \in Calls /\ d \in Sleepers
    BY CommandAssumption DEF CommandAssumption
  <2> QED
    BY <2>1, OthersStay DEF TypeOK
<1>4. inProgress' \in Calls \cup {None} /\ status' \in {"none", "answered", "timeout"}
  BY DEF TypeOK
<1>5. {reg', held', timer', lost', initiated'} \subseteq SUBSET Ids
  BY <1>1 DEF TypeOK
<1>6. held' \subseteq timer'
  BY DEF TypeOK
<1>7. /\ {dropping', rec', terminal', old', leaving', outcome', seen', ended'} \subseteq SUBSET Ids
      /\ terminal' \cup old' \subseteq rec' /\ down' \in BOOLEAN
  BY DEF TypeOK, records
<1> QED
  BY <1>2, <1>3, <1>4, <1>5, <1>6, <1>7 DEF TypeOK

(* What an execution does, seen from the invariant: where it may go from   *)
(* where it is, and what it subscribes on the way.                         *)
Travels(c, s) ==
    /\ Goto(c, s)
    /\ CASE s = "post"  -> \/ pc[c] = "idle" /\ waking' \in {waking, waking \cup {c}}
                           \/ c \in waking /\ waking' = waking \ {c}
         [] s = "sub"   -> pc[c] = "post" /\ waking' = waking /\ Current(c) \in initiated'
         [] s = "write" -> pc[c] = "sub" /\ waking' = waking
         [] s = "poll"  -> /\ pc[c] \in {"sub", "write"} /\ waking' = waking
                           /\ c \notin waking /\ Main(c) \notin rec
         [] s = "done"  -> waking' = waking \ {c}
    /\ waking' \subseteq Sleepers
    /\ inProgress' \in {inProgress, None, c} /\ status' \in {status, "answered", "timeout"}
    /\ \/ UNCHANGED reg
       \/ /\ reg' = reg \cup {Current(c)} /\ pc[c] = "sub"
          /\ s = "write" \/ Current(c) \in lost'
    /\ \/ UNCHANGED <<held, timer>> /\ pc[c] # "write"
       \/ held' = held \cup {Current(c)} /\ timer' = timer \cup {Current(c)}
    /\ lost' \in {lost, lost \cup {Current(c)}}
    /\ initiated' \in {initiated, initiated \cup {Current(c)}}
    /\ UNCHANGED <<dropping, leaving, down, records, outcome, seen, ended>>

LEMMA ExecutionKeeps ==
    ASSUME TrackingInv, NEW c \in Calls, NEW s \in {"post", "sub", "write", "poll", "done"},
           Travels(c, s)
    PROVE  TrackingInv'
<1>1. TypeOK /\ TypeOK'
  <2>1. TypeOK /\ waking' \in {waking, waking \cup {c}, waking \ {c}}
    BY DEF TrackingInv, RecordsKept, Travels
  <2>2. c \in waking' => s \in {"post", "sub", "write"}
    BY <2>1 DEF Travels, TypeOK
  <2> QED
    BY <2>1, <2>2, ExecutionTypes DEF Travels
<1>2. /\ pc'[c] = s
      /\ \A d \in Calls : d # c => /\ pc'[d] = pc[d] /\ (d \in waking' <=> d \in waking)
                                   /\ Current(d)' = Current(d)
      /\ \A d \in Calls : Current(d)' = IF d \in waking' THEN Wake(d) ELSE Main(d)
  BY <1>1, OthersStay DEF Travels
<1>3. /\ \A d \in Calls : Current(d) \in Ids
      /\ \A d \in Calls : Current(d) = IF d \in waking THEN Wake(d) ELSE Main(d)
      /\ \A d, e \in Calls : d # e =>
            /\ Current(d) # Current(e) /\ Current(d) # Main(e) /\ Current(d) # Wake(e)
      /\ Main(c) # Wake(c)
  BY <1>1, CurrentId, IdsDiffer
<1>4. UNCHANGED <<rec, terminal, old, outcome, seen, ended, dropping>>
      /\ reg \subseteq reg' /\ held \subseteq held' /\ lost \subseteq lost'
      /\ initiated \subseteq initiated' /\ reg' \subseteq reg \cup {Current(c)}
  BY DEF Travels, records
<1>5. c \in waking => pc[c] \in {"post", "sub", "write"} /\ c \in Sleepers
  BY <1>1 DEF TypeOK
<1>6. IdsUnused'
  <2>1. ASSUME NEW d \in Calls, d # c
        PROVE  /\ pc'[d] \in {"idle", "post", "sub"} => Unused(Current(d))'
               /\ pc'[d] = "idle" \/ d \in waking' => Unused(Main(d))'
               /\ pc'[d] = "idle" /\ d \in Sleepers => Unused(Wake(d))'
    BY <1>2, <1>3, <1>4, <2>1 DEF TrackingInv, IdsUnused, Unused, Main, Wake
  <2>2. pc'[c] \in {"post", "sub"} => Unused(Current(c))'
    <3>1. CASE s = "post"
      <4>1. Unused(Current(c)')
        BY <1>2, <1>3, <1>5, <3>1 DEF TrackingInv, IdsUnused, Travels
      <4>2. reg' \subseteq reg \cup {Current(c)} /\ (reg' # reg => Current(c)' # Current(c))
        BY <1>2, <1>3, <1>4, <3>1 DEF Travels
      <4> QED
        BY <1>4, <4>1, <4>2 DEF Unused
    <3>2. CASE s = "sub"
      BY <1>2, <1>3, <1>4, <3>2 DEF TrackingInv, IdsUnused, Unused, Travels
    <3> QED
      BY <1>2, <3>1, <3>2
  <2>3. pc'[c] # "idle"
    BY <1>2
  <2>4. c \in waking' => Unused(Main(c))'
    <3>1. c \in waking' => (c \in waking \/ pc[c] = "idle")
      BY DEF Travels
    <3>2. c \in waking' => Unused(Main(c))
      BY <3>1 DEF TrackingInv, IdsUnused
    <3>3. c \in waking' => Main(c) \notin reg' \ reg
      BY <1>3, <1>4, <1>5, <3>1 DEF Travels
    <3> QED
      BY <1>4, <3>2, <3>3 DEF Unused, Main
  <2> QED
    BY <2>1, <2>2, <2>3, <2>4 DEF IdsUnused
<1>7. AwaitedIsYoung'
  <2>1. ASSUME NEW d \in Calls, d # c, pc'[d] \in {"write", "poll"}
        PROVE  Current(d)' \notin old' /\ (Current(d)' \in seen' => Current(d)' \in rec')
    BY <1>2, <1>4, <2>1 DEF TrackingInv, AwaitedIsYoung
  <2>2. CASE s = "write"
    <3>1. Current(c)' = Current(c) /\ Unused(Current(c))
      BY <1>2, <1>3, <2>2 DEF Travels, TrackingInv, IdsUnused
    <3>2. old \subseteq seen
      BY <1>1 DEF TrackingInv, SeenFirst, TypeOK
    <3> QED
      BY <1>4, <2>1, <3>1, <3>2 DEF AwaitedIsYoung, Unused
  <2>3. CASE s = "poll"
    <3>1. Current(c)' = Current(c)
      BY <1>2, <1>3, <2>3 DEF Travels
    <3>2. Current(c) \notin old /\ (Current(c) \in seen => Current(c) \in rec)
      <4>1. old \subseteq seen
        BY <1>1 DEF TrackingInv, SeenFirst, TypeOK
      <4>2. CASE pc[c] = "sub"
        BY <4>1, <4>2 DEF TrackingInv, IdsUnused, Unused
      <4>3. CASE pc[c] = "write"
        BY <4>3 DEF TrackingInv, AwaitedIsYoung
      <4> QED
        BY <2>3, <4>2, <4>3 DEF Travels
    <3> QED
      BY <1>4, <2>1, <3>1, <3>2 DEF AwaitedIsYoung
  <2>4. CASE s \notin {"write", "poll"}
    BY <1>2, <2>1, <2>4 DEF AwaitedIsYoung
  <2> QED
    BY <2>2, <2>3, <2>4
<1>8. HandleIsKept'
  <2> SUFFICES ASSUME NEW i \in reg'
               PROVE  i \in held' \/ i \in lost'
                        \/ \E d \in Calls : pc'[d] = "write" /\ i = Current(d)'
    BY DEF HandleIsKept
  <2>1. CASE i \in reg
    <3>1. CASE i \in held \/ i \in lost
      BY <1>4, <3>1
    <3>2. CASE \E d \in Calls : pc[d] = "write" /\ i = Current(d)
      <4>1. PICK d \in Calls : pc[d] = "write" /\ i = Current(d)
        BY <3>2
      <4>2. CASE d = c
        BY <4>1, <4>2 DEF Travels
      <4>3. CASE d # c
        BY <1>2, <4>1, <4>3
      <4> QED
        BY <4>2, <4>3
    <3> QED
      BY <2>1, <3>1, <3>2 DEF TrackingInv, HandleIsKept
  <2>2. CASE i \notin reg
    <3>1. i = Current(c) /\ (s = "write" \/ i \in lost')
      BY <2>2 DEF Travels
    <3>2. s = "write" => Current(c)' = Current(c)
      BY <1>2, <1>3 DEF Travels
    <3> QED
      BY <1>2, <3>1, <3>2
  <2> QED
    BY <2>1, <2>2
<1>9. OldIsHeld'
  <2> SUFFICES ASSUME NEW i \in old', i \in reg'
               PROVE  i \in held' \/ i \in lost'
    BY DEF OldIsHeld
  <2>1. CASE i \in reg
    BY <1>4, <2>1 DEF TrackingInv, OldIsHeld
  <2>2. CASE i \notin reg
    <3>1. i = Current(c) /\ pc[c] = "sub"
      BY <2>2 DEF Travels
    <3>2. old \subseteq seen
      BY <1>1 DEF TrackingInv, SeenFirst, TypeOK
    <3> QED
      BY <1>4, <3>1, <3>2 DEF TrackingInv, IdsUnused, Unused
  <2> QED
    BY <2>1, <2>2
<1>10. StartIsAnnounced'
  <2>1. reg' \subseteq initiated'
    BY <1>4 DEF TrackingInv, StartIsAnnounced, Travels
  <2>2. \A d \in Calls : pc'[d] = "sub" => Current(d)' \in initiated'
    BY <1>2, <1>3, <1>4 DEF TrackingInv, StartIsAnnounced, Travels
  <2> QED
    BY <2>1, <2>2 DEF StartIsAnnounced
<1>11. SeenFirst'
  BY <1>4 DEF TrackingInv, SeenFirst
<1>12. RecordsKept'
  <2>1. EvictedForGood'
    <3> SUFFICES ASSUME NEW i \in seen' \ rec'
                 PROVE  i \in Ids /\ i \notin reg' \ lost'
      BY DEF EvictedForGood
    <3>1. i \in Ids /\ i \notin reg \ lost
      BY <1>4 DEF TrackingInv, RecordsKept, EvictedForGood
    <3>2. i \notin reg' \ reg
      BY <1>4 DEF TrackingInv, IdsUnused, Unused, Travels
    <3> QED
      BY <1>4, <3>1, <3>2
  <2>2. AnswerIsKept'
    <3>1. \A d \in Calls : pc'[d] = "poll" => d \notin waking'
      BY <1>1 DEF TypeOK
    <3>2. \A d \in Calls : pc'[d] = "poll" => Main(d)' = Current(d)'
      BY <1>2, <3>1 DEF Main
    <3> QED
      BY <1>7, <3>2 DEF AwaitedIsYoung, AnswerIsKept
  <2>3. EndIsRemembered' /\ OutcomeAfterStart'
    BY <1>4 DEF TrackingInv, RecordsKept, EndIsRemembered, OutcomeAfterStart
  <2> QED
    BY <1>1, <2>1, <2>2, <2>3 DEF RecordsKept
<1> QED
  BY <1>6, <1>7, <1>8, <1>9, <1>10, <1>11, <1>12 DEF TrackingInv

(* The actions of an execution are such steps.                             *)
LEMMA ExecutionTravels ==
    ASSUME TypeOK, NEW c \in Calls, Start(c) \/ ExecutionStep(c)
    PROVE  \E s \in {"post", "sub", "write", "poll", "done"} : Travels(c, s)
<1> USE DEF tracking, history
<1>1. waking \subseteq Sleepers
  BY DEF TypeOK
<1>2. ASSUME NEW hasId \in BOOLEAN, Sent(c, hasId, rec),
             \/ reg' = reg
             \/ reg' = reg \cup {Current(c)} /\ pc[c] = "sub" /\ Current(c) \in lost',
             \/ UNCHANGED <<held, timer>> /\ pc[c] # "write"
             \/ held' = held \cup {Current(c)} /\ timer' = timer \cup {Current(c)},
             hasId => pc[c] \in {"sub", "write"},
             lost' \in {lost, lost \cup {Current(c)}}, UNCHANGED initiated,
             UNCHANGED <<dropping, leaving, down, records, outcome, seen, ended>>
      PROVE  \E s \in {"post", "sub", "write", "poll", "done"} : Travels(c, s)
  <2>1. waking' = waking \ {c} /\ inProgress' \in {inProgress, None} /\ status' \in {status, "answered"}
    BY <1>2, SentShape
  <2>2. CASE Goto(c, "post") /\ c \in waking
    <3>1. Travels(c, "post")
      BY <1>1, <1>2, <2>1, <2>2 DEF Travels
    <3> QED
      BY <3>1
  <2>3. CASE Goto(c, "done")
    <3>1. Travels(c, "done")
      BY <1>1, <1>2, <2>1, <2>3 DEF Travels
    <3> QED
      BY <3>1
  <2>4. CASE hasId /\ Goto(c, "poll") /\ c \notin waking /\ Main(c) \notin rec
    <3>1. Travels(c, "poll")
      BY <1>1, <1>2, <2>1, <2>4 DEF Travels
    <3> QED
      BY <3>1
  <2>5. \/ Goto(c, "post") /\ c \in waking
        \/ Goto(c, "done")
        \/ hasId /\ Goto(c, "poll") /\ c \notin waking /\ Main(c) \notin rec
    BY <1>2 DEF Sent, Returns
  <2> QED
    BY <2>2, <2>3, <2>4, <2>5
<1>3. CASE Start(c)
  <2>1. Travels(c, "post")
    BY <1>1, <1>3 DEF Start, Travels
  <2> QED
    BY <2>1
<1>4. CASE PostReturns(c)
  <2>1. CASE initiated' = initiated \cup {Current(c)} /\ Goto(c, "sub")
             /\ UNCHANGED <<waking, inProgress, status>>
    <3>1. Travels(c, "sub")
      BY <1>1, <1>4, <2>1 DEF PostReturns, Travels
    <3> QED
      BY <3>1
  <2>2. CASE Sent(c, FALSE, rec) /\ UNCHANGED initiated
    BY <1>2, <1>4, <2>2 DEF PostReturns
  <2>3. CASE Returns(c) /\ UNCHANGED <<status, initiated>>
    <3>1. Travels(c, "done")
      BY <1>1, <1>4, <2>3 DEF PostReturns, Returns, Travels
    <3> QED
      BY <3>1
  <2> QED
    BY <1>4, <2>1, <2>2, <2>3 DEF PostReturns
<1>5. CASE Subscribe(c)
  <2>1. CASE reg' = reg \cup {Current(c)} /\ Goto(c, "write")
             /\ UNCHANGED <<waking, inProgress, status, held, timer, lost>>
    <3>1. Travels(c, "write")
      BY <1>1, <1>5, <2>1 DEF Subscribe, Travels
    <3> QED
      BY <3>1
  <2>2. CASE Sent(c, TRUE, rec)
    <3>1. /\ pc[c] = "sub" /\ UNCHANGED initiated
          /\ UNCHANGED <<dropping, leaving, down, records, outcome, seen, ended>>
      BY <1>5 DEF Subscribe
    <3>2. CASE Goto(c, "write")
      BY <2>1, <3>2, <1>5, <2>2 DEF Subscribe, Sent, Returns, Goto, TypeOK
    <3>3. CASE ~Goto(c, "write")
      <4>1. /\ \/ reg' = reg
               \/ reg' = reg \cup {Current(c)} /\ Current(c) \in lost'
            /\ \/ UNCHANGED <<held, timer>>
               \/ held' = held \cup {Current(c)} /\ timer' = timer \cup {Current(c)}
            /\ lost' \in {lost, lost \cup {Current(c)}}
        BY <1>5, <3>3 DEF Subscribe
      <4> QED
        BY <1>2, <2>2, <3>1, <4>1
    <3> QED
      BY <3>2, <3>3
  <2> QED
    BY <1>5, <2>1, <2>2 DEF Subscribe
<1>6. CASE Subscribed(c)
  BY <1>2, <1>6 DEF Subscribed
<1>7. CASE PollFinds(c) \/ PollTimesOut(c)
  <2>1. Travels(c, "done")
    BY <1>1, <1>7 DEF PollFinds, PollTimesOut, Returns, Travels
  <2> QED
    BY <2>1
<1> QED
  BY <1>3, <1>4, <1>5, <1>6, <1>7 DEF ExecutionStep

-----------------------------------------------------------------------------
(* What pruning removes is old and has no handle; what it removes from one *)
(* part of the table it removes from all.                                  *)
LEMMA Pruned ==
    ASSUME NEW r, NEW t, Prune(r, t)
    PROVE  \E gone \in SUBSET (old \cap r) :
              /\ \A i \in gone : i \notin held
              /\ rec' = r \ gone /\ terminal' = t \ gone /\ old' = old \ gone
  BY DEF Prune, Expired

(* No execution moves while a frame is handled or a subscription ends.     *)
LEMMA ExecutionsStay ==
    ASSUME UNCHANGED <<pc, waking>>
    PROVE  \A c \in Calls : /\ Current(c)' = Current(c) /\ pc'[c] = pc[c]
                            /\ Main(c)' = Main(c) /\ Wake(c)' = Wake(c)
  BY DEF Current, Main, Wake

(* A frame keeps the invariant: a record that goes is old, so its          *)
(* subscription has ended or its write raised.                             *)
LEMMA FrameKeeps ==
    ASSUME TrackingInv, NEW i \in Ids, NEW kind \in {"open", "number", "string"}, Frame(i, kind)
    PROVE  TrackingInv'
<1> USE DEF execution
<1>1. PICK gone \in SUBSET (old \cap (rec \cup {i})) :
         /\ \A j \in gone : j \notin held
         /\ rec' = (rec \cup {i}) \ gone
         /\ terminal' = Terminal(i, kind # "open") \ gone /\ old' = old \ gone
  BY Pruned DEF Frame
<1>2. \A c \in Calls : /\ Current(c)' = Current(c) /\ pc'[c] = pc[c]
                       /\ Main(c)' = Main(c) /\ Wake(c)' = Wake(c)
  BY ExecutionsStay DEF Frame
<1>3. /\ i \in reg /\ seen' = seen \cup {i}
      /\ ended' = IF kind # "open" THEN ended \cup {i} ELSE ended
      /\ UNCHANGED <<pc, waking, inProgress, status, reg, held, timer, leaving, down,
                     initiated, lost>>
  BY DEF Frame
<1>4. TypeOK /\ old \subseteq rec /\ rec \subseteq seen
  BY DEF TrackingInv, RecordsKept, TypeOK, SeenFirst
<1>5. \A j \in gone : j \in reg => j \in lost
  BY <1>1 DEF TrackingInv, OldIsHeld
<1>6. \A c \in Calls : pc[c] \in {"write", "poll"} => Current(c) \notin gone
  BY <1>1 DEF TrackingInv, AwaitedIsYoung
<1>7. TypeOK'
  <2>1. /\ outcome' \in {outcome, outcome \cup {i}} /\ dropping' \in {dropping, dropping \cup {i}}
        /\ Terminal(i, kind # "open") \in {terminal, terminal \cup {i}}
    BY DEF Frame, Terminal
  <2>2. {reg', held', timer', dropping', rec', terminal', old', leaving',
         initiated', outcome', seen', ended', lost'} \subseteq SUBSET Ids
    BY <1>1, <1>3, <1>4, <2>1 DEF TypeOK
  <2>3. terminal' \cup old' \subseteq rec' /\ held' \subseteq timer'
    BY <1>1, <1>3, <1>4, <2>1 DEF TypeOK
  <2> QED
    BY <1>3, <1>4, <2>2, <2>3 DEF TypeOK
<1>8. EvictedForGood'
  <2> SUFFICES ASSUME NEW j \in seen' \ rec'
               PROVE  j \in Ids /\ (j \in reg' => j \in lost')
    BY DEF EvictedForGood
  <2>1. j \in Ids
    BY <1>7 DEF TypeOK
  <2>2. j \in gone \/ j \in seen \ rec
    BY <1>1, <1>3
  <2> QED
    BY <1>3, <1>5, <2>1, <2>2 DEF TrackingInv, RecordsKept, EvictedForGood
<1>9. AwaitedIsYoung'
  BY <1>1, <1>2, <1>3, <1>6 DEF TrackingInv, AwaitedIsYoung
<1>10. AnswerIsKept'
  <2>1. \A c \in Calls : pc[c] = "poll" => Main(c) = Current(c)
    BY <1>4 DEF TypeOK, Current
  <2> QED
    BY <1>2, <1>9, <2>1 DEF AwaitedIsYoung, AnswerIsKept
<1>11. EndIsRemembered'
  <2> SUFFICES ASSUME NEW j \in ended', j \in rec'
               PROVE  j \in terminal' \/ j \in lost'
    BY DEF EndIsRemembered
  <2>1. CASE j = i /\ kind # "open"
    BY <1>1, <2>1 DEF Terminal
  <2>2. CASE j \in ended /\ j \in rec
    BY <1>1, <1>3, <2>2 DEF TrackingInv, RecordsKept, EndIsRemembered, Terminal
  <2>3. CASE j \in ended /\ j = i /\ j \notin rec
    BY <1>3, <2>3 DEF TrackingInv, RecordsKept, EvictedForGood, SeenFirst
  <2> QED
    BY <1>1, <1>3, <2>1, <2>2, <2>3
<1>12. OutcomeAfterStart'
  <2>1. i \in initiated
    BY <1>3 DEF TrackingInv, StartIsAnnounced
  <2> QED
    BY <1>3, <2>1 DEF Frame, TrackingInv, RecordsKept, OutcomeAfterStart
<1>13. IdsUnused'
  BY <1>2, <1>3 DEF TrackingInv, IdsUnused, Unused
<1>14. HandleIsKept' /\ OldIsHeld'
  BY <1>1, <1>2, <1>3 DEF TrackingInv, HandleIsKept, OldIsHeld
<1>15. StartIsAnnounced' /\ SeenFirst'
  BY <1>1, <1>2, <1>3 DEF TrackingInv, StartIsAnnounced, SeenFirst
<1> QED
  BY <1>7, <1>8, <1>9, <1>10, <1>11, <1>12, <1>13, <1>14, <1>15 DEF TrackingInv, RecordsKept

(* So does a step that only ends subscriptions.                            *)
LEMMA DropKeeps ==
    ASSUME TrackingInv, NEW i \in Ids,
           \/ Drop(i) /\ timer' \in {timer, timer \ {i}}
           \/ UNCHANGED <<held, reg, timer>>,
           dropping' \in SUBSET Ids, leaving' \in SUBSET Ids, down' \in BOOLEAN,
           UNCHANGED <<execution, records, history>>
    PROVE  TrackingInv'
<1> USE DEF execution, records, history
<1>1. \A c \in Calls : /\ Current(c)' = Current(c) /\ pc'[c] = pc[c]
                       /\ Main(c)' = Main(c) /\ Wake(c)' = Wake(c)
  BY ExecutionsStay
<1>2. /\ reg' \subseteq reg /\ held' \subseteq held /\ timer' \subseteq timer
      /\ \A j \in reg' : j \in held => j \in held'
      /\ held \subseteq timer => held' \subseteq timer'
  BY DEF Drop
<1>3. TypeOK'
  BY <1>2 DEF TrackingInv, RecordsKept, TypeOK
<1>4. EvictedForGood' /\ AnswerIsKept' /\ EndIsRemembered' /\ OutcomeAfterStart'
  BY <1>1, <1>2 DEF TrackingInv, RecordsKept, EvictedForGood, AnswerIsKept,
                    EndIsRemembered, OutcomeAfterStart
<1>5. IdsUnused' /\ AwaitedIsYoung'
  BY <1>1, <1>2 DEF TrackingInv, IdsUnused, Unused, AwaitedIsYoung
<1>6. HandleIsKept' /\ OldIsHeld'
  BY <1>1, <1>2 DEF TrackingInv, HandleIsKept, OldIsHeld
<1>7. StartIsAnnounced' /\ SeenFirst'
  BY <1>1, <1>2 DEF TrackingInv, StartIsAnnounced, SeenFirst
<1> QED
  BY <1>3, <1>4, <1>5, <1>6, <1>7 DEF TrackingInv, RecordsKept

(* A record that grows old is not awaited, so its subscription has its     *)
(* handle, has ended, or raised.                                           *)
LEMMA AgingKeeps ==
    ASSUME TrackingInv, NEW i \in Ids, RecordAges(i)
    PROVE  TrackingInv'
<1> USE DEF execution, tracking, history
<1>1. \A c \in Calls : /\ Current(c)' = Current(c) /\ pc'[c] = pc[c]
                       /\ Main(c)' = Main(c) /\ Wake(c)' = Wake(c)
  BY ExecutionsStay DEF RecordAges
<1>2. /\ i \in rec /\ old' = old \cup {i}
      /\ \A c \in Calls : i = Current(c) => pc[c] \notin {"write", "poll"}
      /\ UNCHANGED <<execution, tracking, rec, terminal, history>>
  BY DEF RecordAges
<1>3. TypeOK'
  BY <1>2 DEF TrackingInv, RecordsKept, TypeOK
<1>4. EvictedForGood' /\ AnswerIsKept' /\ EndIsRemembered' /\ OutcomeAfterStart'
  BY <1>1, <1>2 DEF TrackingInv, RecordsKept, EvictedForGood, AnswerIsKept,
                    EndIsRemembered, OutcomeAfterStart
<1>5. IdsUnused' /\ AwaitedIsYoung'
  BY <1>1, <1>2 DEF TrackingInv, IdsUnused, Unused, AwaitedIsYoung
<1>6. HandleIsKept' /\ OldIsHeld'
  BY <1>1, <1>2 DEF TrackingInv, HandleIsKept, OldIsHeld
<1>7. StartIsAnnounced' /\ SeenFirst'
  BY <1>1, <1>2 DEF TrackingInv, StartIsAnnounced, SeenFirst
<1> QED
  BY <1>3, <1>4, <1>5, <1>6, <1>7 DEF TrackingInv, RecordsKept

-----------------------------------------------------------------------------
LEMMA TrackingInvariant == Spec => []TrackingInv
<1>1. Init => TrackingInv
  <2> SUFFICES ASSUME Init PROVE TrackingInv
    OBVIOUS
  <2> USE DEF Init
  <2>1. TypeOK
    BY DEF TypeOK
  <2>2. EvictedForGood /\ AnswerIsKept /\ EndIsRemembered /\ OutcomeAfterStart
    BY DEF EvictedForGood, AnswerIsKept, EndIsRemembered, OutcomeAfterStart
  <2>3. IdsUnused /\ AwaitedIsYoung /\ HandleIsKept /\ OldIsHeld
    BY DEF IdsUnused, Unused, AwaitedIsYoung, HandleIsKept, OldIsHeld
  <2>4. StartIsAnnounced /\ SeenFirst
    BY DEF StartIsAnnounced, SeenFirst
  <2> QED
    BY <2>1, <2>2, <2>3, <2>4 DEF TrackingInv, RecordsKept
<1>2. TrackingInv /\ [Next]_vars => TrackingInv'
  <2> SUFFICES ASSUME TrackingInv, [Next]_vars PROVE TrackingInv'
    OBVIOUS
  <2>1. TypeOK
    BY DEF TrackingInv, RecordsKept
  <2>2. ASSUME NEW c \in Calls, Start(c) \/ ExecutionStep(c) PROVE TrackingInv'
    BY <2>1, <2>2, ExecutionTravels, ExecutionKeeps
  <2>3. ASSUME NEW i \in Ids, NEW kind \in {"open", "number", "string"}, Frame(i, kind)
        PROVE  TrackingInv'
    BY <2>3, FrameKeeps
  <2>4. ASSUME NEW i \in Ids, NullFrame(i) PROVE TrackingInv'
    BY <2>1, <2>4, DropKeeps DEF NullFrame, TypeOK
  <2>5. ASSUME NEW i \in Ids, DropRuns(i) PROVE TrackingInv'
    BY <2>1, <2>5, DropKeeps DEF DropRuns, TypeOK
  <2>6. ASSUME NEW i \in Ids, AutoUnsubscribe(i) PROVE TrackingInv'
    BY <2>1, <2>6, DropKeeps DEF AutoUnsubscribe, TypeOK
  <2>7. ASSUME NEW i \in Ids, ShutdownDrops(i) PROVE TrackingInv'
    BY <2>1, <2>7, DropKeeps DEF ShutdownDrops, TypeOK
  <2>8. ASSUME NEW i \in Ids, RecordAges(i) PROVE TrackingInv'
    BY <2>8, AgingKeeps
  <2>9. CASE ShutdownBegins \/ UNCHANGED vars
    <3>1. /\ UNCHANGED <<held, reg, timer, dropping, execution, records, history>>
          /\ leaving' \in SUBSET Ids /\ down' \in BOOLEAN
      BY <2>1, <2>9 DEF ShutdownBegins, vars, execution, records, history, TypeOK
    <3>2. \A c \in Calls : /\ Current(c)' = Current(c) /\ pc'[c] = pc[c]
                           /\ Main(c)' = Main(c) /\ Wake(c)' = Wake(c)
      BY <3>1, ExecutionsStay DEF execution
    <3> USE DEF execution, records, history
    <3>3. TypeOK'
      BY <2>1, <3>1 DEF TypeOK
    <3>4. EvictedForGood' /\ AnswerIsKept' /\ EndIsRemembered' /\ OutcomeAfterStart'
      BY <3>1, <3>2 DEF TrackingInv, RecordsKept, EvictedForGood, AnswerIsKept,
                        EndIsRemembered, OutcomeAfterStart
    <3>5. IdsUnused' /\ AwaitedIsYoung' /\ HandleIsKept' /\ OldIsHeld'
      BY <3>1, <3>2 DEF TrackingInv, IdsUnused, Unused, AwaitedIsYoung, HandleIsKept, OldIsHeld
    <3>6. StartIsAnnounced' /\ SeenFirst'
      BY <3>1, <3>2 DEF TrackingInv, StartIsAnnounced, SeenFirst
    <3> QED
      BY <3>3, <3>4, <3>5, <3>6 DEF TrackingInv, RecordsKept
  <2> QED
    BY <2>2, <2>3, <2>4, <2>5, <2>6, <2>7, <2>8, <2>9 DEF Next, EndsTracking
<1>3. QED
  BY <1>1, <1>2, PTL DEF Spec

(* The table of command records is pruned without loss                     *)
(* (_prune_command_states): no forgotten command comes back, the answer an *)
(* execution looks for is there, an end stays an end, and no outcome comes *)
(* before its start.                                                       *)
THEOREM PruningLosesNothing == Spec => []RecordsKept
<1>1. TrackingInv => RecordsKept
  BY DEF TrackingInv
<1>2. QED
  BY <1>1, TrackingInvariant, PTL


-----------------------------------------------------------------------------
(* ControlAccess.  What is shown was computed from the flags as they are.  *)
AccessInv == AccessTypeOK /\ ShownAsReached

LEMMA RecordHasKeys ==
    /\ DOMAIN (CHOOSE r \in Record : TRUE) = {"power", "gear", "tailgate", "location"}
    /\ \A r \in Record : r = [power |-> r.power, gear |-> r.gear,
                              tailgate |-> r.tailgate, location |-> r.location]
<1>1. [power |-> Unsaid, gear |-> Unsaid, tailgate |-> Unsaid, location |-> Unsaid] \in Record
  BY DEF Record
<1>2. (CHOOSE r \in Record : TRUE) \in Record
  BY <1>1
<1>3. \A r \in Record : DOMAIN r = {"power", "gear", "tailgate", "location"}
  BY DEF Record
<1> QED
  BY <1>2, <1>3 DEF Record

LEMMA RecordKeepsType ==
    ASSUME NEW r \in Record, NEW k \in KeysRead, NEW s \in Record
    PROVE  [r EXCEPT ![k] = s[k]] \in Record
<1>1. k \in {"power", "gear", "tailgate", "location"}
  BY DEF KeysRead
<1> QED
  BY <1>1 DEF Record

LEMMA AccessInvariant == AccessSpec => []AccessInv
<1>1. AccessInit => AccessInv
  <2> SUFFICES ASSUME AccessInit PROVE AccessInv
    OBVIOUS
  <2>1. told \in Record
    BY RecordHasKeys DEF AccessInit, Record
  <2>2. AccessTypeOK
    BY <2>1 DEF AccessInit, AccessTypeOK
  <2>3. ShownAsReached
    BY DEF AccessInit, ShownAsReached
  <2> QED
    BY <2>2, <2>3 DEF AccessInv
<1>2. AccessInv /\ [AccessNext]_accessVars => AccessInv'
  <2> SUFFICES ASSUME AccessInv, [AccessNext]_accessVars PROVE AccessInv'
    OBVIOUS
  <2> USE DEF AccessInv
  <2>1. \A o, r : \A flag \in BOOLEAN : Available(o, r, flag) \in BOOLEAN
    BY DEF Available, Reached
  <2>2. CASE AddedToHass
    <3>1. available' \in BOOLEAN
      BY <2>2 DEF AddedToHass, HandleDriverUpdate, AccessTypeOK
    <3>2. shown' = (stage' = "added" /\ Available(online, told, available')) /\ ~late'
      BY <2>2 DEF AddedToHass, Writes
    <3>3. AccessTypeOK'
      BY <2>2, <3>1, <3>2 DEF AddedToHass, AccessTypeOK, Writes
    <3>4. ShownAsReached'
      <4>1. Available(online, told, available)' = Available(online, told, available')
        BY <2>2 DEF AddedToHass, Available, Reached, ControlAllows
      <4> QED
        BY <2>1, <3>1, <3>2, <4>1 DEF ShownAsReached
    <3> QED
      BY <3>3, <3>4
  <2>3. CASE PhoneChanges \/ UNCHANGED accessVars
    <3>1. AccessTypeOK'
      BY <2>3 DEF PhoneChanges, accessVars, AccessTypeOK
    <3>2. ShownAsReached'
      BY <2>3 DEF PhoneChanges, accessVars, ShownAsReached, Available, Reached, ControlAllows
    <3> QED
      BY <3>1, <3>2
  <2>4. CASE DriversPolled
    <3>1. available' \in BOOLEAN /\ known' \in PhoneStates
      BY <2>4 DEF DriversPolled, HandleDriverUpdate, AccessTypeOK
    <3>2. AccessTypeOK'
      BY <2>4, <3>1 DEF DriversPolled, AccessTypeOK
    <3>3. ShownAsReached'
      <4>1. ~late' => ~late /\ available' = available
        BY <2>4 DEF DriversPolled
      <4> QED
        BY <2>4, <4>1 DEF DriversPolled, ShownAsReached, Available, Reached, ControlAllows
    <3> QED
      BY <3>2, <3>3
  <2>5. CASE FrameArrives
    <3>1. PICK r \in Record : VehicleFrame(r)
      <4>1. PICK k \in KeysRead, s \in Record : VehicleFrame([told EXCEPT ![k] = s[k]])
        BY <2>5 DEF FrameArrives
      <4> QED
        BY <4>1, RecordKeepsType DEF AccessTypeOK
    <3>2. AccessTypeOK'
      BY <3>1 DEF VehicleFrame, Writes, AccessTypeOK
    <3>3. ShownAsReached'
      BY <3>1 DEF VehicleFrame, Writes, ShownAsReached, Available, Reached, ControlAllows
    <3> QED
      BY <3>2, <3>3
  <2>6. ASSUME NEW o \in BOOLEAN \cup {Unsaid}, CloudConnection(o) PROVE AccessInv'
    <3>1. AccessTypeOK'
      BY <2>6 DEF CloudConnection, Writes, AccessTypeOK
    <3>2. ShownAsReached'
      BY <2>6 DEF CloudConnection, Writes, ShownAsReached, Available, Reached, ControlAllows
    <3> QED
      BY <3>1, <3>2
  <2> QED
    BY <2>2, <2>3, <2>4, <2>5, <2>6 DEF AccessNext
<1>3. QED
  BY <1>1, <1>2, PTL DEF AccessSpec

(* A control is offered as the feeds that spoke last have it (entity.py,   *)
(* available): while the vehicle may answer, and silence is no reason to   *)
(* hide it.                                                                *)
THEOREM ControlsAreOffered == AccessSpec => []OfferedAsReached
<1>1. AccessInv => OfferedAsReached
  <2> SUFFICES ASSUME AccessInv, stage = "added", ~late, available, told.gear = "park", ~zoned
               PROVE  /\ control = "lock" /\ online = Unsaid => shown
                      /\ online = FALSE /\ told.power \in {"go", Unsaid} => ~shown
                      /\ control = "wake" /\ told.power = "standby" => (shown <=> online = FALSE)
    BY DEF AccessInv, OfferedAsReached, OfferedWhileItMayAnswer
  <2>1. shown = (Connectivity(online, told.power) # "offline" /\ ControlAllows(online, told))
    BY DEF AccessInv, ShownAsReached, Available, Reached
  <2>2. online \in {TRUE, FALSE, Unsaid} /\ Unsaid \notin {TRUE, FALSE, "sleep", "standby"}
    BY AccessAssumption DEF AccessAssumption, AccessInv, AccessTypeOK
  <2>3. control = "lock" /\ online = Unsaid => shown
    BY <2>1, <2>2 DEF Connectivity, ControlAllows
  <2>4. online = FALSE /\ told.power \in {"go", Unsaid} => ~shown
    BY <2>1, <2>2 DEF Connectivity
  <2>5. control = "wake" /\ told.power = "standby" => (shown <=> online = FALSE)
    BY <2>1, <2>2 DEF Connectivity, ControlAllows
  <2> QED
    BY <2>3, <2>4, <2>5
<1>2. QED
  BY <1>1, AccessInvariant, PTL

-----------------------------------------------------------------------------
(* CabinClimate.  What the stages of a call for a temperature have done to *)
(* the vehicle, while no other call was there and all went well.           *)
Stage(s)   == at[s][1]
Awaits(s)  == at[s][2]

StageCommands == \A s \in Services :
    /\ Stage(s) = "idle" => Awaits(s) = Missing
    /\ Stage(s) = "defrost" => Awaits(s) \in {"defrostOff", Missing}
    /\ Stage(s) = "enabling" => Awaits(s) \in {"enable", Missing}

OneCall == alone => \A s, t \in Services : Stage(s) # "idle" /\ Stage(t) # "idle" => s = t

SettledAtRest == alone /\ settled => \A s \in Services : Stage(s) = "idle"

StagesDone == alone /\ smooth => \A s \in Services :
    /\ Stage(s) = "defrost" /\ Awaits(s) = Missing => ~vehicle.defrost
    /\ Stage(s) \in {"enabling", "setting"} => ~vehicle.defrost
    /\ Stage(s) = "enabling" /\ Awaits(s) = Missing => vehicle.running
    /\ Stage(s) = "setting" => vehicle.running
    /\ Stage(s) = "setting" /\ Awaits(s) = Missing => vehicle.target = Asked

ClimateInv ==
    /\ ClimateServes
    /\ StageCommands /\ OneCall /\ SettledAtRest /\ StagesDone

(* A step changes the place of one call.                                   *)
LEMMA PlaceChanges ==
    ASSUME ClimateTypeOK, NEW s \in Services,
           NEW place \in {"idle", "mode", "defrost", "enabling", "setting"},
           NEW c \in Commands \cup {Missing}, Sends(s, place, c),
           place = "setting" => c \in {"setTemp", Missing}
    PROVE  /\ at' \in [Services -> {"idle", "mode", "defrost", "enabling", "setting"} \X
                                   (Commands \cup {Missing})]
           /\ \A t \in Services : at'[t][1] = "setting" => at'[t][2] \in {"setTemp", Missing}
           /\ at'[s][1] = place /\ at'[s][2] = c
           /\ \A t \in Services : t # s => at'[t] = at[t]
<1>1. <<place, c>> \in {"idle", "mode", "defrost", "enabling", "setting"} \X
                       (Commands \cup {Missing})
  OBVIOUS
<1>2. at' = [at EXCEPT ![s] = <<place, c>>]
  BY DEF Sends
<1>3. at \in [Services -> {"idle", "mode", "defrost", "enabling", "setting"} \X
                          (Commands \cup {Missing})]
  BY DEF ClimateTypeOK
<1>4. at'[s] = <<place, c>> /\ \A t \in Services : t # s => at'[t] = at[t]
  BY <1>2, <1>3
<1>5. \A t \in Services : at[t][1] = "setting" => at[t][2] \in {"setTemp", Missing}
  BY DEF ClimateTypeOK
<1> HIDE DEF Commands
<1> QED
  BY <1>1, <1>2, <1>3, <1>4, <1>5

LEMMA IdleCall ==
    ASSUME ClimateTypeOK, NEW s \in Services
    PROVE  /\ at[s] = Idle => Stage(s) = "idle" /\ Awaits(s) = Missing
           /\ Stage(s) = "idle" /\ Awaits(s) = Missing => at[s] = Idle
  BY DEF ClimateTypeOK, Idle, Stage, Awaits

(* The answer to a command leaves the call where it is.                    *)
LEMMA AnswerStays ==
    ASSUME ClimateTypeOK, NEW s \in Services, at' = [at EXCEPT ![s][2] = Missing]
    PROVE  Sends(s, Stage(s), Missing) /\ Stage(s) \in {"idle", "mode", "defrost", "enabling", "setting"}
<1>1. at[s] \in {"idle", "mode", "defrost", "enabling", "setting"} \X (Commands \cup {Missing})
  BY DEF ClimateTypeOK
<1>2. [at[s] EXCEPT ![2] = Missing] = <<at[s][1], Missing>>
  BY <1>1
<1> QED
  BY <1>1, <1>2 DEF Sends, Stage

(* The second look at the record: right when the record is.                *)
LEMMA EnablesPlaces ==
    ASSUME ClimateTypeOK, NEW s \in Services, Enables(s)
    PROVE  \/ Sends(s, "enabling", "enable")
           \/ Sends(s, "setting", "setTemp") /\ (Fresh /\ ~vehicle.defrost => vehicle.running)
<1>1. vehicle.running \in BOOLEAN
  BY DEF ClimateTypeOK
<1>2. Fresh => record["running"] = vehicle.running /\ record["defrost"] = vehicle.defrost
  BY DEF Fresh
<1>3. Fresh /\ ~vehicle.defrost /\ ~HvacOff => vehicle.running
  BY <1>1, <1>2 DEF HvacOff, Defrosting, ClimateTypeOK
<1> QED
  BY <1>3 DEF Enables

(* A step that moves call s to a place, and what it must ensure.           *)
LEMMA PlaceKeeps ==
    ASSUME ClimateInv, NEW s \in Services,
           NEW place \in {"idle", "mode", "defrost", "enabling", "setting"},
           NEW c \in Commands \cup {Missing}, Sends(s, place, c),
           place = "idle" => c = Missing,
           place = "defrost" => c \in {"defrostOff", Missing},
           place = "enabling" => c \in {"enable", Missing},
           place = "setting" => c \in {"setTemp", Missing},
           vehicle' \in [defrost : BOOLEAN, running : BOOLEAN, target : {Asked, Before}],
           record' = record,
           alone' \in BOOLEAN, smooth' \in BOOLEAN, settled' \in BOOLEAN,
           alone' => alone /\ \A t \in Services : t # s => Stage(t) = "idle",
           alone' /\ settled' => place = "idle",
           alone' /\ smooth' =>
               /\ place = "defrost" /\ c = Missing => ~vehicle'.defrost
               /\ place \in {"enabling", "setting"} => ~vehicle'.defrost
               /\ place = "enabling" /\ c = Missing => vehicle'.running
               /\ place = "setting" => vehicle'.running
               /\ place = "setting" /\ c = Missing => vehicle'.target = Asked
               /\ settled' => /\ ~vehicle'.defrost /\ vehicle'.running
                              /\ vehicle'.target = Asked
    PROVE  ClimateInv'
<1>1. ClimateTypeOK
  BY DEF ClimateInv, ClimateServes
<1>2. /\ at' \in [Services -> {"idle", "mode", "defrost", "enabling", "setting"} \X
                               (Commands \cup {Missing})]
      /\ \A t \in Services : at'[t][1] = "setting" => at'[t][2] \in {"setTemp", Missing}
      /\ at'[s][1] = place /\ at'[s][2] = c
      /\ \A t \in Services : t # s => at'[t] = at[t]
  BY <1>1, PlaceChanges
<1>3. ClimateTypeOK'
  BY <1>1, <1>2 DEF ClimateTypeOK
<1>4. HeatsToAsked'
  BY DEF HeatsToAsked
<1>5. StageCommands'
  BY <1>2 DEF ClimateInv, StageCommands, Stage, Awaits
<1>6. OneCall' /\ SettledAtRest'
  BY <1>2 DEF OneCall, SettledAtRest, Stage
<1>7. StagesDone'
  <2>1. alone' => \A t \in Services : t # s => at'[t][1] = "idle"
    BY <1>2 DEF Stage
  <2> QED
    BY <1>2, <2>1 DEF StagesDone, Stage, Awaits
<1> QED
  BY <1>3, <1>4, <1>5, <1>6, <1>7 DEF ClimateInv, ClimateServes

LEMMA ClimateInvariant == ClimateSpec => []ClimateInv
<1>1. ClimateInit => ClimateInv
  <2> SUFFICES ASSUME ClimateInit PROVE ClimateInv
    OBVIOUS
  <2>1. \A s \in Services : at[s] = <<"idle", Missing>>
    BY DEF ClimateInit, Idle
  <2>2. ClimateTypeOK
    <3>1. vehicle \in [defrost : BOOLEAN, running : BOOLEAN, target : {Asked, Before}]
      BY DEF ClimateInit
    <3>2. record \in [ClimateKeys -> BOOLEAN \cup {Asked, Before, Missing}]
      <4>1. \A k \in ClimateKeys : vehicle[k] \in BOOLEAN \cup {Asked, Before}
        BY <3>1 DEF ClimateKeys
      <4> QED
        BY <4>1 DEF ClimateInit
    <3>3. <<"idle", Missing>> \in {"idle", "mode", "defrost", "enabling", "setting"} \X
                                 (Commands \cup {Missing})
      OBVIOUS
    <3>4. at \in [Services -> {"idle", "mode", "defrost", "enabling", "setting"} \X
                               (Commands \cup {Missing})]
      BY <3>3 DEF ClimateInit, Idle
    <3>5. \A s \in Services : at[s][1] # "setting"
      BY <2>1
    <3>6. {alone, smooth, settled} \subseteq BOOLEAN
      BY DEF ClimateInit
    <3> QED
      BY <3>1, <3>2, <3>4, <3>5, <3>6 DEF ClimateTypeOK
  <2>3. HeatsToAsked
    BY DEF ClimateInit, HeatsToAsked
  <2>4. StageCommands /\ OneCall /\ SettledAtRest /\ StagesDone
    BY <2>1 DEF StageCommands, OneCall, SettledAtRest, StagesDone, Stage, Awaits
  <2> QED
    BY <2>2, <2>3, <2>4 DEF ClimateInv, ClimateServes
<1>2. ClimateInv /\ [ClimateNext]_climateVars => ClimateInv'
  <2> SUFFICES ASSUME ClimateInv, [ClimateNext]_climateVars PROVE ClimateInv'
    OBVIOUS
  <2>1. /\ ClimateTypeOK /\ alone \in BOOLEAN /\ smooth \in BOOLEAN /\ settled \in BOOLEAN
        /\ vehicle \in [defrost : BOOLEAN, running : BOOLEAN, target : {Asked, Before}]
    BY DEF ClimateInv, ClimateServes, ClimateTypeOK
  <2>2. Missing \notin Commands /\ Fresh \in BOOLEAN
    BY ClimateAssumption DEF ClimateAssumption, Fresh
  <2>3. ASSUME NEW s \in Services, CallBegins(s)
        PROVE  /\ Stage(s) = "idle" /\ alone' \in BOOLEAN /\ settled' = FALSE
               /\ alone' => alone /\ \A t \in Services : t # s => Stage(t) = "idle"
               /\ smooth' = Fresh /\ UNCHANGED <<vehicle, record>>
    BY <2>1, <2>3, IdleCall DEF CallBegins
  <2>4. ASSUME NEW s \in Services, SetTemperature(s) PROVE ClimateInv'
    <3> DEFINE begun == /\ alone' \in BOOLEAN /\ settled' = FALSE
                        /\ alone' => alone /\ \A t \in Services : t # s => Stage(t) = "idle"
                        /\ smooth' = Fresh /\ vehicle' = vehicle /\ record' = record
    <3>0. begun
      BY <2>3, <2>4 DEF SetTemperature
    <3>1. CASE Sends(s, "defrost", "defrostOff")
      BY <2>1, <2>2, <3>0, <3>1, PlaceKeeps DEF Commands
    <3>2. CASE ~Defrosting /\ Enables(s)
      <4>1. Fresh => ~vehicle.defrost
        BY <2>1, <3>2 DEF Fresh, Defrosting
      <4>2. CASE Sends(s, "enabling", "enable")
        BY <2>1, <2>2, <3>0, <4>1, <4>2, PlaceKeeps DEF Commands
      <4>3. CASE Sends(s, "setting", "setTemp") /\ (Fresh /\ ~vehicle.defrost => vehicle.running)
        BY <2>1, <2>2, <3>0, <4>1, <4>3, PlaceKeeps DEF Commands
      <4> QED
        BY <2>1, <3>2, <4>2, <4>3, EnablesPlaces
    <3> QED
      BY <2>4, <3>1, <3>2 DEF SetTemperature
  <2>5. ASSUME NEW s \in Services, SetMode(s) PROVE ClimateInv'
    <3>0. /\ alone' \in BOOLEAN /\ settled' = FALSE /\ smooth' \in BOOLEAN
          /\ alone' => alone /\ \A t \in Services : t # s => Stage(t) = "idle"
          /\ vehicle' = vehicle /\ record' = record
      BY <2>2, <2>3, <2>5 DEF SetMode
    <3>1. PICK c \in {"defrostOn", "enable", "disable"} : Sends(s, "mode", c)
      BY <2>5 DEF SetMode
    <3> QED
      BY <2>1, <3>0, <3>1, PlaceKeeps DEF Commands
  <2>6. ASSUME NEW s \in Services, Obeys(s) \/ Ignores(s) PROVE ClimateInv'
    <3>1. /\ Sends(s, Stage(s), Missing) /\ Awaits(s) # Missing /\ record' = record
          /\ alone' = alone /\ settled' = settled
          /\ Stage(s) \in {"idle", "mode", "defrost", "enabling", "setting"}
      BY <2>1, <2>6, AnswerStays DEF Obeys, Ignores, Awaits
    <3>2. /\ Stage(s) # "idle" /\ (Stage(s) = "defrost" => Awaits(s) = "defrostOff")
          /\ (Stage(s) = "enabling" => Awaits(s) = "enable")
          /\ (Stage(s) = "setting" => Awaits(s) = "setTemp")
          /\ Awaits(s) \in Commands
      BY <2>1, <3>1 DEF ClimateInv, StageCommands, ClimateTypeOK, Stage, Awaits
    <3>3. /\ alone => \A t \in Services : t # s => Stage(t) = "idle"
          /\ alone => ~settled
      BY <3>2 DEF ClimateInv, OneCall, SettledAtRest
    <3>4. CASE Ignores(s)
      <4>1. smooth' = FALSE /\ vehicle' = vehicle
        BY <3>4 DEF Ignores
      <4> QED
        BY <2>1, <3>1, <3>2, <3>3, <4>1, PlaceKeeps
    <3>5. CASE Obeys(s)
      <4>1. smooth' = smooth /\ vehicle' = After(vehicle, Awaits(s))
        BY <3>5 DEF Obeys, Awaits
      <4>2. /\ vehicle' \in [defrost : BOOLEAN, running : BOOLEAN, target : {Asked, Before}]
            /\ Awaits(s) = "defrostOff" => ~vehicle'.defrost
            /\ Awaits(s) = "enable" => vehicle'.running /\ vehicle'.defrost = vehicle.defrost
            /\ Awaits(s) = "setTemp" => /\ vehicle'.target = Asked
                                        /\ vehicle'.defrost = vehicle.defrost
                                        /\ vehicle'.running = vehicle.running
        BY <2>1, <3>2, <4>1 DEF After, Commands
      <4>3. alone /\ smooth =>
              /\ Stage(s) \in {"enabling", "setting"} => ~vehicle.defrost
              /\ Stage(s) = "setting" => vehicle.running
        BY DEF ClimateInv, StagesDone
      <4> QED
        BY <2>1, <3>1, <3>2, <3>3, <4>1, <4>2, <4>3, PlaceKeeps
    <3> QED
      BY <2>6, <3>4, <3>5
  <2>7. ASSUME NEW s \in Services, Proceeds(s) PROVE ClimateInv'
    <3>1. /\ Stage(s) # "idle" /\ Awaits(s) = Missing
          /\ smooth' = (smooth /\ (Stage(s) = "defrost" => Fresh))
          /\ settled' = (Stage(s) = "setting") /\ UNCHANGED <<vehicle, record, alone>>
      BY <2>7 DEF Proceeds, Stage, Awaits
    <3>2. alone => \A t \in Services : t # s => Stage(t) = "idle"
      BY <3>1 DEF ClimateInv, OneCall
    <3>3. alone /\ smooth =>
            /\ Stage(s) \in {"defrost", "enabling", "setting"} => ~vehicle.defrost
            /\ Stage(s) \in {"enabling", "setting"} => vehicle.running
            /\ Stage(s) = "setting" => vehicle.target = Asked
      BY <3>1 DEF ClimateInv, StagesDone
    <3>4. CASE Stage(s) = "defrost"
      <4>1. CASE Sends(s, "enabling", "enable")
        BY <2>1, <2>2, <3>1, <3>2, <3>3, <3>4, <4>1, PlaceKeeps DEF Commands
      <4>2. CASE Sends(s, "setting", "setTemp") /\ (Fresh /\ ~vehicle.defrost => vehicle.running)
        BY <2>1, <2>2, <3>1, <3>2, <3>3, <3>4, <4>2, PlaceKeeps DEF Commands
      <4> QED
        BY <2>1, <2>7, <3>4, <4>1, <4>2, EnablesPlaces DEF Proceeds, Stage
    <3>5. CASE Stage(s) = "enabling"
      <4>1. Sends(s, "setting", "setTemp")
        BY <2>7, <3>5 DEF Proceeds, Stage
      <4> QED
        BY <2>1, <2>2, <3>1, <3>2, <3>3, <3>5, <4>1, PlaceKeeps DEF Commands
    <3>6. CASE Stage(s) \notin {"defrost", "enabling"}
      <4>1. Sends(s, "idle", Missing)
        BY <2>7, <3>6 DEF Proceeds, Stage, Sends, Idle
      <4> QED
        BY <2>1, <3>1, <3>2, <3>3, <4>1, PlaceKeeps
    <3> QED
      BY <3>4, <3>5, <3>6
  <2>8. CASE (\E k \in ClimateKeys : Telemetry(k)) \/ UNCHANGED climateVars
    <3>1. UNCHANGED <<vehicle, at, alone, smooth, settled>>
      BY <2>8 DEF Telemetry, climateVars
    <3>2. ClimateTypeOK'
      <4>1. \A k \in ClimateKeys : vehicle[k] \in BOOLEAN \cup {Asked, Before}
        BY <2>1 DEF ClimateKeys
      <4>2. record' \in [ClimateKeys -> BOOLEAN \cup {Asked, Before, Missing}]
        BY <2>1, <2>8, <4>1 DEF Telemetry, climateVars, ClimateTypeOK
      <4> QED
        BY <2>1, <3>1, <4>2 DEF ClimateTypeOK
    <3>3. HeatsToAsked' /\ StageCommands' /\ OneCall' /\ SettledAtRest' /\ StagesDone'
      BY <3>1 DEF ClimateInv, ClimateServes, HeatsToAsked, StageCommands, OneCall,
                  SettledAtRest, StagesDone, Stage, Awaits
    <3> QED
      BY <3>2, <3>3 DEF ClimateInv, ClimateServes
  <2> QED
    BY <2>4, <2>5, <2>6, <2>7, <2>8 DEF ClimateNext
<1>3. QED
  BY <1>1, <1>2, PTL DEF ClimateSpec

(* A call of the climate entity that has ended leaves the cabin as asked,  *)
(* when no other overlapped it and the record told it the truth            *)
(* (climate.async_set_temperature).                                        *)
THEOREM CallsLeaveItAsAsked == ClimateSpec => []ClimateServes
<1>1. ClimateInv => ClimateServes
  BY DEF ClimateInv
<1>2. QED
  BY <1>1, ClimateInvariant, PTL

-----------------------------------------------------------------------------
(* PhonePairing.  The answer a handshake goes on with is the vehicle's.    *)
PeerIsVehicle == \A b \in Buttons :
    /\ link[b] \in {"nonce", "pair"} => peer[b].id = Vehicle
    /\ link[b] \in {"auth2", "bond"} => Verified(peer[b])

(* An attempt of the second generation goes through its own steps.         *)
SecondSteps == {"auth1", "reply", "auth2", "bond"}
SecondFirst == \A b \in Buttons :
    press[b] = "linking" /\ GenerationOf(advert[b]) = 2 => link[b] \in SecondSteps

(* While no two presses crossed there is one, and none after the pairing   *)
(* is complete.                                                            *)
OnePress == ~crossed => \A a \in Buttons : press[a] # "idle" =>
    /\ \A b \in Buttons : press[b] # "idle" => a = b
    /\ \A b \in Buttons : ~done[b]

(* A press that may try again has an attempt left.                         *)
AttemptsLeft == ~crossed => \A b \in Buttons : press[b] # "idle" =>
    /\ second[b] <= attempts
    /\ press[b] = "searching" => second[b] < MaxAttempts
    /\ press[b] = "linking" => attempts > 0
    /\ press[b] = "linking" /\ GenerationOf(advert[b]) = 1 => second[b] < MaxAttempts

PairInv ==
    /\ PairingServes
    /\ advert \in [Buttons -> Adverts] /\ \A b \in Buttons : second[b] <= tried[b]
    /\ PeerIsVehicle /\ SecondFirst /\ OnePress /\ AttemptsLeft

(* A step of a handshake: the step it comes to and where its press is then,*)
(* what it holds for the vehicle's answer.                                 *)
LinkMoves(b, step, where, answer) ==
    /\ link[b] # "none"
    /\ Links(b, step) /\ Goes(b, where) /\ peer' = Changed(peer, b, answer)
    /\ step # "none" <=> where = "linking"
    /\ step \in {"nonce", "pair"} => answer.id = Vehicle
    /\ step \in {"auth2", "bond"} => Verified(answer)
    /\ GenerationOf(advert[b]) = 2 /\ link[b] \in SecondSteps =>
          /\ step \in SecondSteps \cup {"none"}
          /\ attempts > 0 /\ where = "searching" => traceOutcome' # ""
          /\ attempts > 0 /\ where = "checking" => traceOutcome' = "bonded"
    /\ where = "searching" => ~LastTry(b)
    /\ traceOutcome' \in Outcomes /\ generation' \in {0, 2} /\ issue' \in BOOLEAN
    /\ UNCHANGED <<current, done, tried, advert, attempts, crossed, second>>

LinkSteps == {"none", "detect", "ids", "nonce", "pair", "auth1", "reply", "auth2", "bond"}

LEMMA HandshakeMoves ==
    ASSUME PairInv, NEW b \in Buttons, LinkStep(b)
    PROVE  \E step \in LinkSteps, where \in {"idle", "searching", "linking", "checking"},
              answer \in Replies : LinkMoves(b, step, where, answer)
<1> DEFINE Moved == \E step \in LinkSteps, where \in {"idle", "searching", "linking", "checking"},
                       answer \in Replies : LinkMoves(b, step, where, answer)
           Kept == UNCHANGED <<current, done, tried, advert, attempts, crossed, second>>
<1>1. /\ peer[b] \in Replies /\ peer = Changed(peer, b, peer[b])
      /\ press[b] = "linking" <=> link[b] # "none"
      /\ press[b] = "linking" => press = [press EXCEPT ![b] = "linking"]
      /\ traceOutcome \in Outcomes /\ generation \in {0, 2} /\ issue \in BOOLEAN
  BY DEF PairInv, PairingServes, PairTypeOK, Changed
<1>2. ASSUME link[b] # "none", AttemptFails(b), UNCHANGED <<peer, generation>>, Kept,
             traceOutcome' \in Outcomes,
             link[b] \in SecondSteps /\ attempts > 0 => traceOutcome' = "failed"
      PROVE  Moved
  <2>1. CASE LastTry(b)
    <3>1. LinkMoves(b, "none", "idle", peer[b])
      BY <1>1, <1>2, <2>1 DEF AttemptFails, GivesUp, IssueRaised, LinkMoves
    <3> QED
      BY <1>1, <3>1 DEF LinkSteps
  <2>2. CASE ~LastTry(b)
    <3>1. LinkMoves(b, "none", "searching", peer[b])
      BY <1>1, <1>2, <2>2 DEF AttemptFails, LinkMoves
    <3> QED
      BY <1>1, <3>1 DEF LinkSteps
  <2> QED
    BY <2>1, <2>2
<1>3. ASSUME NEW step \in LinkSteps \ {"none"}, NEW answer \in Replies,
             link[b] # "none", Links(b, step), peer' = Changed(peer, b, answer),
             step \in {"nonce", "pair"} => answer.id = Vehicle,
             step \in {"auth2", "bond"} => Verified(answer),
             link[b] \in SecondSteps => step \in SecondSteps,
             UNCHANGED <<press, traceOutcome, issue>>, generation' \in {0, 2}, Kept
      PROVE  Moved
  <2>1. LinkMoves(b, step, "linking", answer)
    BY <1>1, <1>3 DEF Goes, LinkMoves
  <2> QED
    BY <1>3, <2>1
<1>4. ASSUME link[b] \notin SecondSteps \/ traceOutcome' = IF attempts > 0 THEN "bonded" ELSE traceOutcome,
             link[b] # "none", Links(b, "none"), Goes(b, "checking"),
             traceOutcome' \in Outcomes, UNCHANGED <<peer, generation, issue>>, Kept
      PROVE  Moved
  <2>1. LinkMoves(b, "none", "checking", peer[b])
    BY <1>1, <1>4 DEF LinkMoves
  <2> QED
    BY <1>1, <2>1 DEF LinkSteps
<1>5. link[b] \in {"nonce", "pair"} => peer[b].id = Vehicle
  BY DEF PairInv, PeerIsVehicle
<1>6. link[b] \in {"auth2", "bond"} => Verified(peer[b])
  BY DEF PairInv, PeerIsVehicle
<1> SUFFICES Moved
  OBVIOUS
<1> HIDE DEF Moved
<1>7. ASSUME Outcome("failed")
      PROVE  traceOutcome' \in Outcomes /\ (attempts > 0 => traceOutcome' = "failed")
  BY <1>1, <1>7 DEF Outcome, Outcomes
<1>8. CASE Raises(b)
  <2>1. LinkMoves(b, "none", "idle", peer[b])
    BY <1>1, <1>8 DEF Raises, At, linkVars, LinkMoves, SecondSteps
  <2> QED
    BY <1>1, <2>1 DEF LinkSteps, Moved
<1>9. CASE Detected(b)
  <2>1. CASE Links(b, "ids") /\ UNCHANGED generation
    BY <1>1, <1>3, <1>9, <2>1 DEF Detected, LinkSteps, SecondSteps
  <2>2. CASE Links(b, "auth1") /\ generation' = 2
    BY <1>1, <1>3, <1>9, <2>2 DEF Detected, LinkSteps, SecondSteps
  <2> QED
    BY <1>9, <2>1, <2>2 DEF Detected
<1>10. CASE FirstGenerationFails(b)
  BY <1>1, <1>2, <1>10 DEF FirstGenerationFails, linkVars, SecondSteps
<1>11. CASE IdStated(b)
  <2>1. PICK id \in {Vehicle, Other} :
           IF RightId(id)
           THEN /\ Links(b, "nonce") /\ peer' = Changed(peer, b, [Nobody EXCEPT !.id = id])
                /\ UNCHANGED <<current, press, issue>>
           ELSE AttemptFails(b) /\ UNCHANGED peer
    BY <1>11 DEF IdStated
  <2>2. CASE RightId(id)
    <3>1. [Nobody EXCEPT !.id = id] \in Replies /\ [Nobody EXCEPT !.id = id].id = Vehicle
      BY <2>2 DEF Nobody, Replies, RightId
    <3> QED
      BY <1>1, <1>3, <1>11, <2>1, <2>2, <3>1 DEF IdStated, linkVars, LinkSteps, SecondSteps
  <2>3. CASE ~RightId(id)
    BY <1>1, <1>2, <1>11, <2>1, <2>3 DEF IdStated, linkVars, SecondSteps
  <2> QED
    BY <2>2, <2>3
<1>12. CASE NonceStated(b)
  BY <1>1, <1>3, <1>5, <1>12 DEF NonceStated, linkVars, LinkSteps, SecondSteps
<1>13. CASE FirstGenerationPairs(b)
  <2>1. CASE Links(b, "none") /\ Goes(b, "checking") /\ UNCHANGED issue
    BY <1>1, <1>4, <1>13, <2>1 DEF FirstGenerationPairs, linkVars, SecondSteps
  <2>2. CASE AttemptFails(b)
    BY <1>1, <1>2, <1>13, <2>2 DEF FirstGenerationPairs, linkVars, SecondSteps
  <2> QED
    BY <1>13, <2>1, <2>2 DEF FirstGenerationPairs, Bonds
<1>14. ASSUME SecondFails(b), link[b] # "none" PROVE Moved
  BY <1>2, <1>7, <1>14 DEF SecondFails, linkVars
<1>15. CASE Auth1(b)
  <2>1. CASE Links(b, "reply") /\ UNCHANGED <<linkVars, peer, traceOutcome, press, issue>>
    BY <1>1, <1>3, <2>1, <1>15 DEF Auth1, linkVars, LinkSteps, SecondSteps
  <2> QED
    BY <1>14, <1>15, <2>1 DEF Auth1
<1>16. CASE Reply(b)
  <2>1. ASSUME NEW r \in {r \in Replies : Verified(r)}, Links(b, "auth2"),
               peer' = Changed(peer, b, r), UNCHANGED <<linkVars, traceOutcome, press, issue>>
        PROVE  Moved
    BY <1>1, <1>3, <1>16, <2>1 DEF Reply, linkVars, LinkSteps, SecondSteps
  <2> QED
    BY <1>14, <1>16, <2>1 DEF Reply
<1>17. CASE Auth2(b)
  <2>1. CASE Links(b, "bond") /\ UNCHANGED <<linkVars, peer, traceOutcome, press, issue>>
    BY <1>1, <1>3, <1>6, <1>17, <2>1 DEF Auth2, linkVars, LinkSteps, SecondSteps
  <2> QED
    BY <1>14, <1>17, <2>1 DEF Auth2
<1>18. CASE SubscribeEncrypted(b)
  <2>1. CASE /\ Bonds(b) /\ Outcome(IF press'[b] = "checking" THEN "bonded" ELSE "failed")
             /\ UNCHANGED <<linkVars, peer>>
    <3>1. press'[b] \in {"checking", "idle", "searching"} /\ (Goes(b, "checking") <=> press'[b] = "checking")
      BY <2>1 DEF Bonds, AttemptFails, GivesUp, Goes, PairInv, PairingServes, PairTypeOK
    <3>2. CASE Links(b, "none") /\ Goes(b, "checking") /\ UNCHANGED issue
      BY <1>1, <1>4, <1>18, <2>1, <3>1, <3>2
         DEF SubscribeEncrypted, Outcome, Outcomes, linkVars
    <3>3. CASE AttemptFails(b)
      <4>1. press'[b] # "checking"
        BY <3>3 DEF AttemptFails, GivesUp, Goes, PairInv, PairingServes, PairTypeOK
      <4> QED
        BY <1>2, <1>7, <1>18, <2>1, <3>3, <4>1 DEF SubscribeEncrypted, linkVars
    <3> QED
      BY <2>1, <3>2, <3>3 DEF Bonds
  <2> QED
    BY <1>14, <1>18, <2>1 DEF SubscribeEncrypted
<1> QED
  BY <1>8, <1>9, <1>10, <1>11, <1>12, <1>13, <1>15, <1>16, <1>17, <1>18 DEF LinkStep

(* An attempt is of the first or of the second generation.                 *)
LEMMA TwoGenerations ==
    \A a \in Adverts : GenerationOf(a) \in {1, 2} /\ (GenerationOf(a) = 2 => a.uuid)
  BY DEF Adverts, GenerationOf

LEMMA HandshakeKeeps ==
    ASSUME PairInv, NEW b \in Buttons, NEW step \in LinkSteps,
           NEW where \in {"idle", "searching", "linking", "checking"}, NEW answer \in Replies,
           LinkMoves(b, step, where, answer)
    PROVE  PairInv'
<1>1. /\ PairTypeOK /\ press[b] = "linking" /\ advert[b] \in Adverts
      /\ advert \in [Buttons -> Adverts]
  BY DEF PairInv, PairingServes, PairTypeOK, LinkMoves
<1>2. /\ press'[b] = where /\ link'[b] = step /\ peer'[b] = answer
      /\ \A o \in Buttons : o # b => press'[o] = press[o] /\ link'[o] = link[o] /\ peer'[o] = peer[o]
      /\ step # "none" <=> where = "linking"
      /\ UNCHANGED <<current, done, tried, advert, attempts, crossed, second>>
  BY <1>1 DEF PairTypeOK, LinkMoves, Links, Goes, Changed
<1>3. PairTypeOK'
  <2>1. press' \in [Buttons -> {"idle", "searching", "linking", "checking"}]
    BY <1>1 DEF PairTypeOK, LinkMoves, Goes
  <2>2. link' \in [Buttons -> {"none", "detect", "ids", "nonce", "pair", "auth1", "reply",
                              "auth2", "bond"}]
    BY <1>1 DEF PairTypeOK, LinkMoves, Links, LinkSteps
  <2>3. peer' \in [Buttons -> Replies]
    BY <1>1 DEF PairTypeOK, LinkMoves, Changed
  <2>4. traceOutcome' \in Outcomes /\ generation' \in {0, 2} /\ issue' \in BOOLEAN
    BY DEF LinkMoves
  <2>5. \A o \in Buttons : press'[o] = "linking" => advert'[o] \in Adverts
    BY <1>1, <1>2
  <2>6. \A o \in Buttons : (link'[o] # "none") = (press'[o] = "linking")
    BY <1>1, <1>2 DEF PairTypeOK
  <2> QED
    BY <1>1, <1>2, <2>1, <2>2, <2>3, <2>4, <2>5, <2>6 DEF PairTypeOK
<1>4. PeerIsVehicle'
  <2>1. /\ step \in {"nonce", "pair"} => answer.id = Vehicle
        /\ step \in {"auth2", "bond"} => Verified(answer)
    BY DEF LinkMoves
  <2> QED
    BY <1>2, <2>1 DEF PairInv, PeerIsVehicle, Verified
<1>5. BondsWithVehicle'
  BY <1>4, PairingAssumption DEF PeerIsVehicle, BondsWithVehicle, Verified, PairingAssumption
<1>6. SecondFirst'
  <2>1. GenerationOf(advert[b]) = 2 => link[b] \in SecondSteps
    BY <1>1 DEF PairInv, SecondFirst
  <2>2. GenerationOf(advert[b]) = 2 /\ where = "linking" => step \in SecondSteps
    BY <1>2, <2>1 DEF LinkMoves
  <2> QED
    BY <1>2, <2>2 DEF PairInv, SecondFirst, GenerationOf
<1>7. OnePress'
  BY <1>1, <1>2 DEF PairInv, OnePress
<1>8. ~crossed => /\ \A o \in Buttons : o # b => press[o] = "idle"
                  /\ \A o \in Buttons : ~done[o]
                  /\ second[b] <= attempts /\ attempts > 0
                  /\ GenerationOf(advert[b]) = 1 => second[b] < MaxAttempts
  BY <1>1 DEF PairInv, OnePress, AttemptsLeft
<1>9. \A o \in Buttons : second[o] \in Nat
  BY <1>1 DEF PairTypeOK
<1>10. MaxAttempts \in Nat /\ attempts \in Nat
  BY <1>1, PairingAssumption DEF PairTypeOK, PairingAssumption
<1>11. AttemptsLeft'
  <2>1. GenerationOf(advert[b]) \in {1, 2} /\ (GenerationOf(advert[b]) = 2 => advert[b].uuid)
    BY <1>1, TwoGenerations
  <2>2. where = "searching" /\ GenerationOf(advert[b]) = 2 => ~(attempts >= MaxAttempts)
    BY <2>1 DEF LinkMoves, LastTry
  <2>3. /\ second[b] <= attempts
        /\ GenerationOf(advert[b]) = 1 => second[b] < MaxAttempts
        => (where = "searching" => second[b] < MaxAttempts)
    BY <1>9, <1>10, <2>1, <2>2
  <2>4. ~crossed => (where = "searching" => second[b] < MaxAttempts)
    BY <1>8, <2>3
  <2>5. ASSUME ~crossed', NEW o \in Buttons, press'[o] # "idle"
        PROVE  /\ second'[o] <= attempts'
               /\ press'[o] = "searching" => second'[o] < MaxAttempts
               /\ press'[o] = "linking" => attempts' > 0
               /\ press'[o] = "linking" /\ GenerationOf(advert[o]) = 1 => second'[o] < MaxAttempts
    BY <1>2, <1>8, <2>4, <2>5
  <2> QED
    BY <1>2, <2>5 DEF AttemptsLeft, GenerationOf
<1>12. AttemptsBounded' /\ IssueEnds'
  <2>1. AttemptsBounded'
    BY <1>2 DEF PairInv, PairingServes, AttemptsBounded
  <2>2. IssueEnds'
    BY <1>2, <1>8 DEF IssueEnds
  <2> QED
    BY <2>1, <2>2
<1>13. OutcomeKept'
  <2> SUFFICES ASSUME ~crossed, attempts > 0, GenerationOf(advert[b]) = 2,
                      where \in {"searching", "checking"}
               PROVE  traceOutcome' # "" /\ (where = "checking" => traceOutcome' = "bonded")
    BY <1>2, <1>8 DEF OutcomeKept, Attempted, At, GenerationOf
  <2>1. link[b] \in SecondSteps
    BY <1>1 DEF PairInv, SecondFirst
  <2> QED
    BY <2>1 DEF LinkMoves
<1>14. advert' \in [Buttons -> Adverts] /\ \A o \in Buttons : second'[o] <= tried'[o]
  BY <1>2 DEF PairInv
<1> QED
  BY <1>3, <1>4, <1>5, <1>6, <1>7, <1>11, <1>12, <1>13, <1>14 DEF PairInv, PairingServes

LEMMA PressKeeps ==
    ASSUME PairInv, NEW b \in Buttons, Pressed(b)
    PROVE  PairInv'
<1>1. PairTypeOK /\ press[b] = "idle" /\ ~done[b]
  BY DEF PairInv, PairingServes, Pressed, At
<1>2. /\ press'[b] = "searching" /\ \A o \in Buttons : o # b => press'[o] = press[o]
      /\ traceOutcome' = "" /\ UNCHANGED <<current, done, advert, link, peer, issue>>
      /\ crossed' = (crossed \/ \E o \in Buttons : press[o] # "idle" \/ done[o])
  BY <1>1 DEF Pressed, Goes, TraceReset, PairTypeOK
<1>3. /\ tried'[b] = 0 /\ second'[b] = 0 /\ attempts' = 0 /\ generation' = 0
      /\ \A o \in Buttons : o # b => tried'[o] = tried[o] /\ second'[o] = second[o]
  BY <1>1 DEF Pressed, Changed, TraceReset, PairTypeOK
<1>4. PairTypeOK'
  <2>1. press' \in [Buttons -> {"idle", "searching", "linking", "checking"}]
    BY <1>1 DEF PairTypeOK, Pressed, Goes
  <2>2. tried' \in [Buttons -> 0 .. MaxAddresses] /\ second' \in [Buttons -> 0 .. MaxAddresses]
    BY <1>1, PairingAssumption DEF PairTypeOK, Pressed, Changed, PairingAssumption
  <2>3. \A o \in Buttons : link[o] # "none" <=> press[o] = "linking"
    BY <1>1 DEF PairTypeOK
  <2>4. \A o \in Buttons : (link'[o] # "none") = (press'[o] = "linking")
    BY <1>1, <1>2, <2>3
  <2>5. \A o \in Buttons : press'[o] = "linking" => advert'[o] \in Adverts
    BY <1>1, <1>2 DEF PairTypeOK
  <2>6. traceOutcome' \in Outcomes /\ crossed' \in BOOLEAN
    BY <1>1, <1>2 DEF Outcomes, PairTypeOK
  <2>7. attempts' \in Nat /\ generation' \in {0, 2}
    BY <1>3
  <2> QED
    BY <1>1, <1>2, <2>1, <2>2, <2>4, <2>5, <2>6, <2>7 DEF PairTypeOK
<1>5. PeerIsVehicle' /\ BondsWithVehicle'
  BY <1>2 DEF PairInv, PairingServes, PeerIsVehicle, BondsWithVehicle, Verified
<1>6. SecondFirst'
  BY <1>2 DEF PairInv, SecondFirst, GenerationOf
<1>7. ~crossed' => ~crossed /\ \A o \in Buttons : press[o] = "idle" /\ ~done[o]
  BY <1>2
<1>8. OnePress'
  BY <1>1, <1>2, <1>7 DEF OnePress
<1>9. second'[b] <= attempts' /\ second'[b] < MaxAttempts /\ second'[b] <= MaxAttempts
      /\ second'[b] <= tried'[b] /\ ~(attempts' > 0)
  BY <1>3, PairingAssumption DEF PairingAssumption
<1>10. AttemptsLeft'
  <2>1. ~crossed' => \A o \in Buttons : press'[o] # "idle" => o = b
    BY <1>2, <1>7
  <2>2. press'[b] # "linking"
    BY <1>2
  <2> QED
    BY <1>9, <2>1, <2>2 DEF AttemptsLeft
<1>11. AttemptsBounded'
  <2>1. ~crossed' => \A o \in Buttons : o # b => second'[o] <= MaxAttempts
    BY <1>3, <1>7 DEF PairInv, PairingServes, AttemptsBounded
  <2> QED
    BY <1>9, <2>1 DEF AttemptsBounded
<1>12. IssueEnds'
  BY <1>2, <1>7 DEF IssueEnds
<1>13. OutcomeKept'
  BY <1>9 DEF OutcomeKept, Attempted
<1>14. advert' \in [Buttons -> Adverts] /\ \A o \in Buttons : second'[o] <= tried'[o]
  <2>1. advert' \in [Buttons -> Adverts]
    BY <1>2 DEF PairInv
  <2>2. \A o \in Buttons : o # b => second'[o] <= tried'[o]
    BY <1>3 DEF PairInv
  <2> QED
    BY <1>9, <2>1, <2>2
<1> QED
  BY <1>4, <1>5, <1>6, <1>8, <1>10, <1>11, <1>12, <1>13, <1>14 DEF PairInv, PairingServes

LEMMA SearchKeeps ==
    ASSUME PairInv, NEW b \in Buttons, Found(b)
    PROVE  PairInv'
<1>1. PairTypeOK /\ press[b] = "searching" /\ advert \in [Buttons -> Adverts]
  BY DEF PairInv, PairingServes, Found, At
<1>2. PICK a \in Adverts :
         /\ advert' = Changed(advert, b, a)
         /\ Links(b, IF GenerationOf(a) = 2 THEN "auth1" ELSE "detect")
         /\ generation' = IF GenerationOf(a) = 2 THEN 2 ELSE generation
         /\ second' = Changed(second, b, second[b] + GenerationOf(a) - 1)
  BY DEF Found
<1> DEFINE g == GenerationOf(a)
           step == IF g = 2 THEN "auth1" ELSE "detect"
<1>3. g \in {1, 2} /\ step \in {"auth1", "detect"} /\ (g = 2 => step = "auth1")
  BY TwoGenerations
<1>4. /\ press'[b] = "linking" /\ \A o \in Buttons : o # b => press'[o] = press[o]
      /\ peer'[b] = Nobody /\ \A o \in Buttons : o # b => peer'[o] = peer[o]
      /\ traceOutcome' = "" /\ UNCHANGED <<current, done, issue, crossed>>
  BY <1>1 DEF Found, Goes, Changed, PairTypeOK
<1>5. advert'[b] = a /\ \A o \in Buttons : o # b => advert'[o] = advert[o]
  BY <1>1, <1>2 DEF Changed
<1>6. link'[b] = step /\ \A o \in Buttons : o # b => link'[o] = link[o]
  BY <1>1, <1>2 DEF Links, PairTypeOK
<1>7. /\ second'[b] = second[b] + g - 1 /\ \A o \in Buttons : o # b => second'[o] = second[o]
      /\ tried'[b] = tried[b] + 1 /\ \A o \in Buttons : o # b => tried'[o] = tried[o]
      /\ attempts' = attempts + 1
  <2>1. second \in [Buttons -> 0 .. MaxAddresses] /\ tried \in [Buttons -> 0 .. MaxAddresses]
    BY <1>1 DEF PairTypeOK
  <2>2. tried' = Changed(tried, b, tried[b] + 1) /\ attempts' = attempts + 1
    BY DEF Found, TriedAfter
  <2> QED
    BY <1>2, <2>1, <2>2 DEF Changed
<1>8. /\ second[b] \in Nat /\ tried[b] \in Nat /\ attempts \in Nat /\ second[b] <= tried[b]
      /\ tried[b] < MaxAddresses /\ MaxAddresses \in Nat /\ MaxAttempts \in Nat
  <2>1. second[b] \in 0 .. MaxAddresses /\ tried[b] \in 0 .. MaxAddresses /\ attempts \in Nat
    BY <1>1 DEF PairTypeOK
  <2>2. second[b] <= tried[b] /\ tried[b] < MaxAddresses
    BY DEF PairInv, Found
  <2> QED
    BY <2>1, <2>2, PairingAssumption DEF PairingAssumption
<1> HIDE DEF g, step
<1>9. /\ second'[b] \in 0 .. MaxAddresses /\ tried'[b] \in 0 .. MaxAddresses
      /\ second'[b] <= tried'[b] /\ attempts' \in Nat /\ attempts' > 0
      /\ second[b] <= attempts => second'[b] <= attempts'
      /\ second[b] < MaxAttempts => second'[b] <= MaxAttempts
      /\ second[b] < MaxAttempts /\ g = 1 => second'[b] < MaxAttempts
  BY <1>3, <1>7, <1>8
<1>10. PairTypeOK'
  <2>1. press' \in [Buttons -> {"idle", "searching", "linking", "checking"}]
    BY <1>1 DEF PairTypeOK, Found, Goes
  <2>2. link' \in [Buttons -> {"none", "detect", "ids", "nonce", "pair", "auth1", "reply",
                              "auth2", "bond"}]
    BY <1>1, <1>2 DEF PairTypeOK, Links
  <2>3. peer' \in [Buttons -> Replies]
    BY <1>1 DEF PairTypeOK, Found, Changed, Nobody, Replies
  <2>4. tried' \in [Buttons -> 0 .. MaxAddresses]
    <3>1. tried' = [tried EXCEPT ![b] = tried'[b]] /\ tried \in [Buttons -> 0 .. MaxAddresses]
      BY <1>1 DEF PairTypeOK, Found, Changed
    <3> QED
      BY <1>9, <3>1
  <2>5. second' \in [Buttons -> 0 .. MaxAddresses]
    <3>1. second' = [second EXCEPT ![b] = second'[b]] /\ second \in [Buttons -> 0 .. MaxAddresses]
      BY <1>1, <1>2 DEF PairTypeOK, Changed
    <3> QED
      BY <1>9, <3>1
  <2>6. \A o \in Buttons : link[o] # "none" <=> press[o] = "linking"
    BY <1>1 DEF PairTypeOK
  <2>7. \A o \in Buttons : (link'[o] # "none") = (press'[o] = "linking")
    BY <1>3, <1>4, <1>6, <2>6
  <2>8. \A o \in Buttons : press'[o] = "linking" => advert'[o] \in Adverts
    BY <1>1, <1>5
  <2>9. traceOutcome' \in Outcomes
    BY <1>4 DEF Outcomes
  <2>10. generation' \in {0, 2}
    BY <1>1, <1>2 DEF PairTypeOK
  <2> QED
    BY <1>1, <1>4, <1>9, <2>1, <2>2, <2>3, <2>4, <2>5, <2>7, <2>8, <2>9, <2>10 DEF PairTypeOK
<1>11. PeerIsVehicle' /\ BondsWithVehicle'
  <2>1. link'[b] \notin {"nonce", "pair", "auth2", "bond"}
    BY <1>3, <1>6
  <2>2. PeerIsVehicle'
    BY <1>4, <1>6, <2>1 DEF PairInv, PeerIsVehicle, Verified
  <2>3. BondsWithVehicle'
    BY <1>4, <1>6, <2>1 DEF PairInv, PairingServes, BondsWithVehicle
  <2> QED
    BY <2>2, <2>3
<1>12. SecondFirst'
  <2>1. \A o \in Buttons : o # b => GenerationOf(advert'[o]) = GenerationOf(advert[o])
    BY <1>5
  <2>2. GenerationOf(advert'[b]) = g
    BY <1>5 DEF g
  <2>3. g = 2 => link'[b] \in SecondSteps
    BY <1>3, <1>6 DEF SecondSteps
  <2> QED
    BY <1>4, <1>6, <2>1, <2>2, <2>3 DEF PairInv, SecondFirst, GenerationOf
<1>13. ~crossed => /\ \A o \in Buttons : o # b => press[o] = "idle"
                   /\ \A o \in Buttons : ~done[o]
                   /\ second[b] <= attempts /\ second[b] < MaxAttempts
  BY <1>1 DEF PairInv, OnePress, AttemptsLeft
<1>14. OnePress'
  BY <1>4, <1>13 DEF OnePress
<1>15. AttemptsLeft'
  <2>1. ~crossed => /\ second'[b] <= attempts' /\ attempts' > 0
                    /\ g = 1 => second'[b] < MaxAttempts
    BY <1>9, <1>13
  <2>2. ~crossed' => ~crossed /\ \A o \in Buttons : press'[o] # "idle" => o = b
    BY <1>4, <1>13
  <2>3. press'[b] # "searching" /\ GenerationOf(advert'[b]) = g
    BY <1>4, <1>5 DEF g
  <2> QED
    BY <2>1, <2>2, <2>3 DEF AttemptsLeft, GenerationOf
<1>16. AttemptsBounded'
  <2>1. ~crossed => second'[b] <= MaxAttempts
    BY <1>9, <1>13
  <2>2. ~crossed => \A o \in Buttons : o # b => second'[o] <= MaxAttempts
    BY <1>7 DEF PairInv, PairingServes, AttemptsBounded
  <2> QED
    BY <1>4, <2>1, <2>2 DEF AttemptsBounded
<1>17. IssueEnds'
  BY <1>4, <1>13 DEF IssueEnds
<1>18. OutcomeKept'
  <2>1. ~crossed' => \A o \in Buttons : press'[o] \notin {"searching", "checking"}
    BY <1>4, <1>13
  <2> QED
    BY <2>1 DEF OutcomeKept, Attempted
<1>19. advert' \in [Buttons -> Adverts] /\ \A o \in Buttons : second'[o] <= tried'[o]
  <2>1. advert' \in [Buttons -> Adverts]
    BY <1>1, <1>2 DEF Changed
  <2>2. \A o \in Buttons : o # b => second'[o] <= tried'[o]
    BY <1>7 DEF PairInv
  <2> QED
    BY <1>9, <2>1, <2>2
<1> QED
  BY <1>10, <1>11, <1>12, <1>14, <1>15, <1>16, <1>17, <1>18, <1>19 DEF PairInv, PairingServes

(* The end of a press, found or not.                                       *)
LEMMA PressEndKeeps ==
    ASSUME PairInv, NEW b \in Buttons, press[b] \in {"searching", "checking"}, Goes(b, "idle"),
           issue' \in BOOLEAN, done' \in {done, Changed(done, b, TRUE)},
           done' = done \/ ~issue',
           UNCHANGED <<current, tried, advert, link, peer, traceVars, crossed, second>>
    PROVE  PairInv'
<1>1. PairTypeOK
  BY DEF PairInv, PairingServes
<1>2. /\ press'[b] = "idle" /\ \A o \in Buttons : o # b => press'[o] = press[o]
      /\ UNCHANGED <<current, tried, advert, link, peer, attempts, traceOutcome, generation,
                     crossed, second>>
      /\ done' \in [Buttons -> BOOLEAN]
  BY <1>1 DEF Goes, Changed, PairTypeOK, traceVars
<1>3. PairTypeOK'
  <2>1. press' \in [Buttons -> {"idle", "searching", "linking", "checking"}]
    BY <1>1 DEF PairTypeOK, Goes
  <2>2. \A o \in Buttons : (link'[o] # "none") = (press'[o] = "linking")
    BY <1>1, <1>2 DEF PairTypeOK
  <2>3. \A o \in Buttons : press'[o] = "linking" => advert'[o] \in Adverts
    BY <1>1, <1>2 DEF PairTypeOK
  <2> QED
    BY <1>1, <1>2, <2>1, <2>2, <2>3 DEF PairTypeOK
<1>4. PeerIsVehicle' /\ BondsWithVehicle' /\ SecondFirst'
  BY <1>2 DEF PairInv, PairingServes, PeerIsVehicle, BondsWithVehicle, Verified,
              SecondFirst, GenerationOf
<1>5. ~crossed => \A o \in Buttons : press'[o] = "idle" /\ ~done[o]
  BY <1>2 DEF PairInv, OnePress
<1>6. OnePress' /\ AttemptsLeft' /\ OutcomeKept'
  <2>1. OnePress' /\ AttemptsLeft'
    BY <1>2, <1>5 DEF OnePress, AttemptsLeft
  <2>2. ~crossed' => \A o \in Buttons : press'[o] \notin {"searching", "checking"}
    BY <1>2, <1>5
  <2>3. OutcomeKept'
    BY <2>2 DEF OutcomeKept, Attempted
  <2> QED
    BY <2>1, <2>3
<1>9. AttemptsBounded'
  BY <1>2 DEF PairInv, PairingServes, AttemptsBounded
<1>7. IssueEnds'
  BY <1>2, <1>5 DEF IssueEnds
<1>8. advert' \in [Buttons -> Adverts] /\ \A o \in Buttons : second'[o] <= tried'[o]
  BY <1>2 DEF PairInv
<1> QED
  BY <1>3, <1>4, <1>6, <1>7, <1>8, <1>9 DEF PairInv, PairingServes

LEMMA PairInvariant == PairSpec => []PairInv
<1>1. PairInit => PairInv
  <2> SUFFICES ASSUME PairInit PROVE PairInv
    OBVIOUS
  <2>1. 0 \in Buttons /\ 0 \in 0 .. MaxAddresses
    BY PairingAssumption DEF PairingAssumption, Buttons
  <2>2. [named |-> TRUE, uuid |-> TRUE] \in Adverts
    BY DEF Adverts
  <2>3. advert \in [Buttons -> Adverts]
    <3>1. (CHOOSE a \in Adverts : a.named) \in Adverts
      BY <2>2
    <3> QED
      BY <3>1 DEF PairInit
  <2>4. \A b \in Buttons : /\ press[b] = "idle" /\ ~done[b] /\ link[b] = "none"
                           /\ second[b] = 0 /\ tried[b] = 0
    BY DEF PairInit
  <2>5. PairTypeOK
    BY <2>1, <2>4 DEF PairInit, PairTypeOK, Outcomes, Nobody, Replies
  <2>6. BondsWithVehicle /\ PeerIsVehicle /\ SecondFirst
    BY <2>4 DEF BondsWithVehicle, PeerIsVehicle, SecondFirst
  <2>7. AttemptsBounded
    BY <2>4, PairingAssumption DEF AttemptsBounded, PairingAssumption
  <2>8. IssueEnds /\ OutcomeKept
    BY <2>4 DEF IssueEnds, OutcomeKept, Attempted, PairInit
  <2>9. OnePress /\ AttemptsLeft
    BY <2>4 DEF OnePress, AttemptsLeft
  <2>10. \A b \in Buttons : second[b] <= tried[b]
    BY <2>4
  <2> QED
    BY <2>3, <2>5, <2>6, <2>7, <2>8, <2>9, <2>10 DEF PairInv, PairingServes
<1>2. PairInv /\ [PairNext]_pairingVars => PairInv'
  <2> SUFFICES ASSUME PairInv, [PairNext]_pairingVars PROVE PairInv'
    OBVIOUS
  <2>1. PairTypeOK
    BY DEF PairInv, PairingServes
  <2>2. ASSUME NEW b \in Buttons, Pressed(b) PROVE PairInv'
    BY <2>2, PressKeeps
  <2>3. ASSUME NEW b \in Buttons, Found(b) PROVE PairInv'
    BY <2>3, SearchKeeps
  <2>4. ASSUME NEW b \in Buttons, LinkStep(b) PROVE PairInv'
    BY <2>4, HandshakeMoves, HandshakeKeeps
  <2>5. ASSUME NEW b \in Buttons, NotFound(b) PROVE PairInv'
    <3>1. issue' \in BOOLEAN
      BY <2>1, <2>5 DEF NotFound, GivesUp, IssueRaised, PairTypeOK
    <3> QED
      BY <2>5, <3>1, PressEndKeeps DEF NotFound, GivesUp, At
  <2>6. ASSUME NEW b \in Buttons, Checked(b) PROVE PairInv'
    <3>1. issue' \in BOOLEAN /\ done' \in {done, Changed(done, b, TRUE)} /\ (done' = done \/ ~issue')
      BY <2>1, <2>6 DEF Checked, IssueDeleted, PairTypeOK
    <3> QED
      BY <2>6, <3>1, PressEndKeeps DEF Checked, At
  <2>7. CASE Reloaded \/ UNCHANGED pairingVars
    <3>1. UNCHANGED <<press, done, tried, advert, link, peer, attempts, traceOutcome,
                      generation, issue, crossed, second>>
      BY <2>7 DEF Reloaded, pairingVars, traceVars
    <3>2. current' \in Buttons
      BY <2>1, <2>7, PairingAssumption
         DEF Reloaded, pairingVars, PairTypeOK, PairingAssumption, Buttons
    <3>3. PairTypeOK'
      BY <2>1, <3>1, <3>2 DEF PairTypeOK
    <3>4. BondsWithVehicle' /\ PeerIsVehicle' /\ SecondFirst'
      BY <3>1 DEF PairInv, PairingServes, BondsWithVehicle, PeerIsVehicle, SecondFirst, Verified,
                  GenerationOf
    <3>5. AttemptsBounded'
      BY <3>1 DEF PairInv, PairingServes, AttemptsBounded
    <3>6. IssueEnds' /\ OutcomeKept'
      BY <3>1 DEF PairInv, PairingServes, IssueEnds, OutcomeKept, Attempted, At, GenerationOf
    <3>7. OnePress' /\ AttemptsLeft'
      BY <3>1 DEF PairInv, OnePress, AttemptsLeft, GenerationOf
    <3>8. advert' \in [Buttons -> Adverts] /\ \A b \in Buttons : second'[b] <= tried'[b]
      BY <3>1 DEF PairInv
    <3> QED
      BY <3>3, <3>4, <3>5, <3>6, <3>7, <3>8 DEF PairInv, PairingServes
  <2> QED
    BY <2>2, <2>3, <2>4, <2>5, <2>6, <2>7 DEF PairNext, PressStep
<1>3. QED
  BY <1>1, <1>2, PTL DEF PairSpec

(* The pair button bonds with this vehicle only, in a bounded number of    *)
(* attempts, and leaves a trace of them and no stale repair issue          *)
(* (button.py, ble.py, ble_gen2.py).                                       *)
THEOREM PairsWithVehicle == PairSpec => []PairingServes
<1>1. PairInv => PairingServes
  BY DEF PairInv
<1>2. QED
  BY <1>1, PairInvariant, PTL
=============================================================================
