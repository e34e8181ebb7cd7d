-------------------------- MODULE ChargingFeedProofs --------------------------
(***************************************************************************)
(* Proofs about ChargingFeed: the subscription and its handle stay paired, *)
(* and a feed that is switched off stays off, for any number of helper     *)
(* tasks, ids and writes that raise; and about ChargingSchedule: an update *)
(* changes what was asked for and nothing else.                            *)
(***************************************************************************)
EXTENDS ChargingFeed, ChargingSchedule, FiniteSetTheorems, TLAPS

PcOK(p) ==
    /\ p \in [Tasks -> {"off", "sleep", "unsub", "sub", "wait", "woken"}]
    /\ p["request"] \in {"off", "unsub", "sub", "wait", "woken"}
    /\ p["watchdog"] \in {"off", "sleep", "unsub"}
    /\ p["shutdown"] \in {"off", "unsub"}
    /\ \A u \in Helpers : p[u] \in {"off", "unsub"}

FlagsOK ==
    /\ enabled \in BOOLEAN /\ initial \in BOOLEAN /\ hasData \in BOOLEAN
    /\ lastOk \in BOOLEAN /\ down \in BOOLEAN /\ overtaken \in BOOLEAN
    /\ age \in {"never", "fresh", "stale"} /\ debounce \in {"ready", "cooldown", "pending"}

FeedTypeOK ==
    /\ FlagsOK /\ PcOK(pc)
    /\ handle \in Ids \cup {None} /\ reg \in SUBSET Ids /\ lost \in SUBSET Ids
    /\ raised \in 0 .. MaxRaises

(* A refresh that is about to subscribe has dropped the handle.            *)
BareBeforeSub == pc["request"] = "sub" => handle = None

(* No refresh is about to subscribe a feed that was switched off, and none *)
(* of its ids is left but the lost ones, unless the switch came during a   *)
(* refresh.                                                                *)
OffMeansOff ==
    ~enabled /\ ~overtaken =>
        pc["request"] \notin {"unsub", "sub"} /\ (raised = 0 => reg \subseteq lost)

FeedInv ==
    /\ FeedTypeOK /\ NoOrphanFeed /\ BareBeforeSub
    /\ HandleIsLive /\ OffMeansOff

-----------------------------------------------------------------------------
(* What a step does to the pair: it ends with the handle dropped and its   *)
(* id deleted or lost, or it is suspended or fails with the id deleted at  *)
(* most, or it leaves both alone.                                          *)
OneMore == raised < MaxRaises /\ raised' = raised + 1

SubKept  == pc'["request"] = "sub" => pc["request"] = "sub"
Deletes  == reg' \in {reg, reg \ {handle}}
Drops    == /\ Deletes /\ handle' = None /\ raised' = raised
            /\ lost \subseteq lost' /\ lost' \subseteq lost \cup reg
            /\ handle \in reg' => handle \in lost'
Suspends == /\ Deletes /\ UNCHANGED <<handle, raised, lost>>
            /\ Suspended' # {} /\ SubKept
Fails    == Deletes /\ UNCHANGED <<handle, lost>> /\ OneMore /\ SubKept
Rests    == /\ UNCHANGED <<reg, handle, raised, lost>>
            /\ Suspended' = Suspended /\ SubKept

Ended == Drops \/ Suspends \/ Fails

LEMMA NotAnId == None \notin Ids /\ IsFiniteSet(Ids) /\ Ids # {}
<1>1. IsFiniteSet(Ids)
  BY FS_Interval, ChargingAssumption DEF Ids, ChargingAssumption
<1> QED
  BY <1>1, ChargingAssumption DEF Ids, None, ChargingAssumption

(* One more id without a handle for each write that raised.                *)
LEMMA OrphansKept ==
    ASSUME FeedTypeOK, NoOrphanFeed, reg' \in SUBSET Ids,
           \/ /\ reg' \ ({handle'} \cup lost') \subseteq reg \ ({handle} \cup lost)
              /\ raised' = raised
           \/ /\ OneMore
              /\ \E i \in Ids : reg' \ ({handle'} \cup lost')
                                   \subseteq (reg \ ({handle} \cup lost)) \cup {i}
    PROVE  NoOrphanFeed' /\ raised' \in 0 .. MaxRaises
<1> DEFINE A == reg \ ({handle} \cup lost)  B == reg' \ ({handle'} \cup lost')
<1>1. IsFiniteSet(A) /\ Cardinality(A) \in Nat /\ Cardinality(A) <= raised
  BY NotAnId, FS_Subset, FS_CardinalityType DEF FeedTypeOK, NoOrphanFeed
<1>2. raised \in Nat /\ raised \in 0 .. MaxRaises /\ MaxRaises \in Nat
  BY ChargingAssumption DEF FeedTypeOK, ChargingAssumption
<1>3. CASE B \subseteq A /\ raised' = raised
  <2>1. Cardinality(B) <= Cardinality(A) /\ Cardinality(B) \in Nat
    BY <1>1, <1>3, FS_Subset, FS_CardinalityType
  <2>2. Cardinality(B) <= raised'
    BY <1>1, <1>2, <1>3, <2>1
  <2> QED
    BY <1>2, <1>3, <2>2 DEF NoOrphanFeed
<1>4. ASSUME OneMore, NEW i \in Ids, B \subseteq A \cup {i}
      PROVE  NoOrphanFeed' /\ raised' \in 0 .. MaxRaises
  <2>1. IsFiniteSet(A \cup {i}) /\ Cardinality(A \cup {i}) \in {Cardinality(A), Cardinality(A) + 1}
    BY <1>1, FS_AddElement
  <2>2. Cardinality(B) <= Cardinality(A \cup {i}) /\ Cardinality(B) \in Nat
        /\ Cardinality(A \cup {i}) \in Nat
    BY <1>4, <2>1, FS_Subset, FS_CardinalityType
  <2>3. Cardinality(B) <= raised'
    BY <1>1, <1>2, <1>4, <2>1, <2>2 DEF OneMore
  <2> QED
    BY <1>2, <1>4, <2>3 DEF NoOrphanFeed, OneMore
<1> QED
  BY <1>3, <1>4

(* The pair stays sound whatever a step does to it.                        *)
LEMMA PairKept ==
    ASSUME FeedInv, Ended \/ Rests
    PROVE  /\ NoOrphanFeed' /\ raised' \in 0 .. MaxRaises
           /\ handle' \in Ids \cup {None} /\ reg' \in SUBSET Ids /\ lost' \in SUBSET Ids
           /\ BareBeforeSub'
<1>1. /\ FeedTypeOK /\ reg \in SUBSET Ids /\ handle \in Ids \cup {None}
      /\ lost \in SUBSET Ids
  BY DEF FeedInv, FeedTypeOK
<1>2. /\ handle' \in {handle, None} /\ reg' \in {reg, reg \ {handle}}
      /\ lost' \subseteq lost \cup reg
  BY DEF Ended, Deletes, Drops, Suspends, Fails, Rests
<1>3. reg' \ ({handle'} \cup lost') \subseteq reg \ ({handle} \cup lost)
  <2>1. CASE Drops
    BY <2>1 DEF Drops, Deletes
  <2>2. CASE handle' = handle /\ lost' = lost /\ reg' \subseteq reg
    BY <2>2
  <2> QED
    BY <2>1, <2>2 DEF Ended, Deletes, Suspends, Fails, Rests
<1>4. raised' = raised \/ OneMore
  BY DEF Ended, Drops, Suspends, Fails, Rests
<1>5. reg' \in SUBSET Ids /\ lost' \in SUBSET Ids
  BY <1>1, <1>2
<1>6. NoOrphanFeed' /\ raised' \in 0 .. MaxRaises
  <2>1. CASE raised' = raised
    BY <1>1, <1>3, <1>5, <2>1, OrphansKept DEF FeedInv
  <2>2. CASE OneMore
    <3>1. PICK i \in Ids : TRUE
      BY NotAnId
    <3>2. reg' \ ({handle'} \cup lost') \subseteq (reg \ ({handle} \cup lost)) \cup {i}
      BY <1>3
    <3> QED
      BY <1>1, <1>5, <2>2, <3>2, OrphansKept DEF FeedInv
  <2> QED
    BY <1>4, <2>1, <2>2
<1>7. BareBeforeSub'
  BY <1>1 DEF FeedInv, BareBeforeSub, SubKept, Ended, Drops, Suspends, Fails, Rests
<1> QED
  BY <1>1, <1>2, <1>5, <1>6, <1>7

LEMMA LiveKept ==
    ASSUME FeedInv, Ended \/ Rests, down => down'
    PROVE  HandleIsLive'
<1>1. CASE Drops
  BY <1>1 DEF HandleIsLive, Drops
<1>2. CASE Suspends
  BY <1>2 DEF HandleIsLive, Suspends
<1>3. CASE Fails
  <2>1. raised' # 0
    BY <1>3, ChargingAssumption DEF Fails, OneMore, FeedInv, FeedTypeOK, ChargingAssumption
  <2> QED
    BY <2>1 DEF HandleIsLive
<1>4. CASE Rests
  BY <1>4 DEF FeedInv, HandleIsLive, Rests
<1> QED
  BY <1>1, <1>2, <1>3, <1>4 DEF Ended

LEMMA OffKept ==
    ASSUME FeedInv, Ended \/ Rests, enabled' = enabled, overtaken' = overtaken,
           pc'["request"] \in {"unsub", "sub"} => enabled \/ pc["request"] \in {"unsub", "sub"}
    PROVE  OffMeansOff'
<1>1. reg' \subseteq reg /\ lost \subseteq lost'
  BY DEF Ended, Deletes, Drops, Suspends, Fails, Rests
<1>2. raised' = 0 => raised = 0
  BY ChargingAssumption DEF Ended, Drops, Suspends, Fails, Rests, OneMore, FeedInv, FeedTypeOK,
     ChargingAssumption
<1> QED
  BY <1>1, <1>2 DEF FeedInv, OffMeansOff

-----------------------------------------------------------------------------
(* Where the tasks are when _unsubscribe returns in task t, is suspended   *)
(* or raises.                                                              *)
Moves(t, pcs) ==
    /\ PcOK(pc') /\ debounce' \in {"ready", "cooldown", "pending"}
    /\ pc'["request"] \in {"unsub", "sub"} =>
           t = "request" \/ pcs["request"] \in {"unsub", "sub"} \/ (t = "watchdog" /\ enabled)

LEMMA TaskNames ==
    /\ "request" \in Tasks /\ "watchdog" \in Tasks /\ "shutdown" \in Tasks
    /\ \A u \in Helpers : u \in Tasks /\ u \notin {"request", "watchdog", "shutdown"}
    /\ \A t \in Tasks : t \in {"request", "watchdog", "shutdown"} \/ t \in Helpers
BY ChargingAssumption DEF Tasks, ChargingAssumption

LEMMA ReturnMoves ==
    ASSUME FlagsOK, NEW pcs, PcOK(pcs), NEW t \in Tasks, Returned(t, pcs)
    PROVE  Moves(t, pcs)
<1>1. CASE t = "watchdog"
  <2> DEFINE next == [pcs EXCEPT !["watchdog"] = "sleep"]
  <2>1. PcOK(next) /\ next["request"] = pcs["request"]
    BY TaskNames DEF PcOK
  <2>2. pc' = Requested(next).pc /\ debounce' = Requested(next).d
    BY <1>1 DEF Returned, AfterReturn
  <2>3. \/ pc' = next /\ debounce' \in {debounce, "pending", "cooldown"}
        \/ enabled /\ pc' = [next EXCEPT !["request"] = "sub"] /\ debounce' = "ready"
    BY <2>2 DEF Requested
  <2> HIDE DEF next
  <2>4. CASE pc' = next /\ debounce' \in {debounce, "pending", "cooldown"}
    BY <2>1, <2>4 DEF Moves, FlagsOK
  <2>5. CASE enabled /\ pc' = [next EXCEPT !["request"] = "sub"] /\ debounce' = "ready"
    <3>1. PcOK(pc')
      BY <2>1, <2>5, TaskNames DEF PcOK
    <3> QED
      BY <1>1, <2>5, <3>1 DEF Moves
  <2> QED
    BY <2>3, <2>4, <2>5
<1>2. CASE t # "watchdog"
  <2>1. pc' = [pcs EXCEPT ![t] = AfterReturn(t)] /\ debounce' \in {"ready", debounce}
    BY <1>2 DEF Returned, Running
  <2>2. AfterReturn(t) = IF t = "request" THEN "sub" ELSE "off"
    BY <1>2 DEF AfterReturn
  <2>3. PcOK(pc')
    BY <2>1, <2>2, TaskNames DEF PcOK
  <2>4. t # "request" => pc'["request"] = pcs["request"]
    BY <2>1, TaskNames DEF PcOK
  <2> QED
    BY <2>1, <2>3, <2>4 DEF Moves, FlagsOK
<1> QED
  BY <1>1, <1>2

LEMMA RaiseMoves ==
    ASSUME FlagsOK, NEW pcs, PcOK(pcs), NEW t \in Tasks, Raises(t, pcs),
           pcs["request"] = pc["request"]
    PROVE  /\ Moves(t, pcs) /\ OneMore /\ handle' = handle /\ SubKept
           /\ initial' \in BOOLEAN /\ lastOk' \in BOOLEAN
<1>1. pc' = [pcs EXCEPT ![t] = "off"] /\ debounce' \in {"cooldown", debounce}
  BY DEF Raises
<1>2. PcOK(pc') /\ pc'["request"] \in {pcs["request"], "off"}
  BY <1>1, TaskNames DEF PcOK
<1>3. Moves(t, pcs) /\ SubKept
  BY <1>1, <1>2 DEF Moves, FlagsOK, SubKept
<1>4. OneMore /\ handle' = handle
  BY Zenon DEF Raises, OneMore
<1>5. initial' = initial /\ lastOk' = (lastOk /\ t # "request")
  BY Zenon DEF Raises
<1>6. initial' \in BOOLEAN /\ lastOk' \in BOOLEAN
  BY <1>5 DEF FlagsOK
<1> QED
  BY <1>3, <1>4, <1>6

LEMMA UnsubscribeEnds ==
    ASSUME FlagsOK, NEW pcs, PcOK(pcs), NEW t \in Tasks, Unsubscribe(t, pcs),
           pcs["request"] = pc["request"], lost' = lost
    PROVE  /\ Moves(t, pcs) /\ Ended /\ initial' \in BOOLEAN /\ lastOk' \in BOOLEAN
           /\ reg' = reg \ {handle}
<1>1. reg' = reg \ {handle} /\ Deletes
  BY DEF Unsubscribe, Deletes
<1>2. CASE /\ IF handle = None THEN UNCHANGED <<handle, initial>> ELSE HandleDropped
           /\ Returned(t, pcs) /\ UNCHANGED <<raised, lastOk>>
  <2>1. Moves(t, pcs)
    BY <1>2, ReturnMoves
  <2>2. handle' = None /\ raised' = raised /\ initial' \in {initial, FALSE} /\ lastOk' = lastOk
    BY <1>2 DEF HandleDropped
  <2>3. Drops
    BY <1>1, <2>2 DEF Drops
  <2> QED
    BY <1>1, <2>1, <2>2, <2>3 DEF Ended, FlagsOK
<1>3. CASE /\ handle # None /\ handle \in reg /\ pc' = [pcs EXCEPT ![t] = "unsub"]
           /\ debounce' = Running(t) /\ UNCHANGED <<handle, initial, raised, lastOk>>
  <2>1. PcOK(pc') /\ pc'[t] = "unsub" /\ (t # "request" => pc'["request"] = pcs["request"])
    BY <1>3, TaskNames DEF PcOK
  <2>2. Suspended' # {} /\ SubKept
    BY <2>1 DEF Suspended, SubKept
  <2>3. Moves(t, pcs)
    BY <1>3, <2>1 DEF Moves, Running, FlagsOK
  <2> QED
    BY <1>1, <1>3, <2>2, <2>3 DEF Ended, Suspends, FlagsOK
<1>4. CASE Raises(t, pcs)
  BY <1>1, <1>4, RaiseMoves DEF Ended, Fails
<1> QED
  BY <1>2, <1>3, <1>4 DEF Unsubscribe

LEMMA ResumeEnds ==
    ASSUME FeedInv, NEW t \in Tasks, UnsubscribeResumes(t)
    PROVE  Moves(t, pc) /\ Ended /\ initial' \in BOOLEAN /\ lastOk' \in BOOLEAN
<1>1. FlagsOK /\ PcOK(pc)
  BY DEF FeedInv, FeedTypeOK
<1>2. reg' = reg /\ Deletes
  BY DEF UnsubscribeResumes, Deletes
<1>3. CASE /\ HandleDropped /\ Returned(t, pc) /\ lost' = lost \cup ({handle} \cap reg)
           /\ UNCHANGED <<raised, lastOk>>
  <2>1. Moves(t, pc)
    BY <1>1, <1>3, ReturnMoves
  <2>2. handle' = None /\ initial' = FALSE /\ lastOk' = lastOk /\ raised' = raised
    BY <1>3 DEF HandleDropped
  <2>3. Drops
    BY <1>2, <1>3, <2>2 DEF Drops
  <2> QED
    BY <1>1, <2>1, <2>2, <2>3 DEF Ended, FlagsOK
<1>4. CASE Raises(t, pc) /\ lost' = lost
  BY <1>1, <1>2, <1>4, RaiseMoves DEF Ended, Fails
<1> QED
  BY <1>3, <1>4 DEF UnsubscribeResumes

(* A step that ends or rests, whichever task makes it.                     *)
LEMMA EndKept ==
    ASSUME FeedInv, FlagsOK', PcOK(pc'), Ended \/ Rests, down => down', OffMeansOff'
    PROVE  FeedInv'
<1>1. FeedTypeOK'
  BY PairKept DEF FeedTypeOK
<1> QED
  BY <1>1, PairKept, LiveKept DEF FeedInv

LEMMA RestKept ==
    ASSUME FeedInv, FlagsOK', PcOK(pc'), UNCHANGED <<reg, handle, raised, overtaken, lost>>,
           enabled' = enabled \/ enabled', down' = down,
           \A t \in Tasks : pc'[t] = "unsub" <=> pc[t] = "unsub",
           pc'["request"] = "sub" => pc["request"] = "sub"
    PROVE  FeedInv'
<1>1. Rests
  BY DEF Rests, Suspended, SubKept
<1>2. OffMeansOff'
  <2>1. CASE enabled' = enabled
    BY <1>1, <2>1, OffKept, TaskNames
  <2>2. CASE enabled'
    BY <2>2 DEF OffMeansOff
  <2> QED
    BY <2>1, <2>2
<1> QED
  BY <1>1, <1>2, EndKept

LEMMA FreshId == reg \in SUBSET Ids => NewId \in Ids /\ NewId # handle
<1>1. \E i \in Ids : i # handle
  <2>1. 1 \in Ids /\ 2 \in Ids
    BY ChargingAssumption DEF Ids, ChargingAssumption
  <2> QED
    BY <2>1
<1>2. \E i \in Ids \ {handle} : i \notin reg \/ Ids \ {handle} \subseteq reg
  BY <1>1
<1> QED
  BY <1>2 DEF NewId

LEMMA SubscribeKeeps ==
    ASSUME FeedInv, RefreshSubscribes
    PROVE  FeedInv'
<1>1. /\ FeedTypeOK /\ FlagsOK /\ PcOK(pc) /\ pc["request"] = "sub"
      /\ handle = None /\ lost \in SUBSET Ids
  BY DEF FeedInv, FeedTypeOK, BareBeforeSub, RefreshSubscribes
<1>2. NewId \in Ids /\ NewId # handle /\ reg \in SUBSET Ids
  BY <1>1, FreshId DEF FeedTypeOK
<1>3. \/ handle' = NewId /\ reg' = reg \cup {NewId}
      \/ handle' = None /\ reg' = reg
  BY Zenon DEF RefreshSubscribes
<1>4. raised' = raised /\ UNCHANGED <<enabled, overtaken, lost>>
  BY Zenon DEF RefreshSubscribes
<1>5. /\ handle' \in Ids \cup {None} /\ reg' \in SUBSET Ids /\ lost' \in SUBSET Ids
      /\ reg' \ ({handle'} \cup lost') \subseteq reg \ ({handle} \cup lost)
  BY <1>1, <1>2, <1>3, <1>4, NotAnId
<1>6. NoOrphanFeed' /\ raised' \in 0 .. MaxRaises
  BY <1>1, <1>4, <1>5, OrphansKept DEF FeedInv
<1>7. /\ PcOK(pc') /\ pc'["request"] \in {"woken", "wait"}
      /\ \A t \in Tasks : t # "request" => pc'[t] = pc[t]
  BY <1>1, TaskNames DEF RefreshSubscribes, PcOK
<1>8. FlagsOK'
  BY <1>1 DEF RefreshSubscribes, FlagsOK
<1>10. handle' # None => handle' \in reg'
  BY <1>3
<1>11. ~enabled => overtaken
  BY <1>1 DEF FeedInv, OffMeansOff
<1>12. HandleIsLive'
  BY <1>10 DEF HandleIsLive
<1>13. BareBeforeSub'
  BY <1>7 DEF BareBeforeSub
<1>14. OffMeansOff'
  BY <1>4, <1>11, Zenon DEF OffMeansOff
<1> QED
  BY <1>5, <1>6, <1>7, <1>8, <1>12, <1>13, <1>14 DEF FeedInv, FeedTypeOK

LEMMA FailedSubscribeKeeps ==
    ASSUME FeedInv, RefreshSubscriptionFails
    PROVE  FeedInv'
<1>1. /\ FeedTypeOK /\ FlagsOK /\ PcOK(pc) /\ pc["request"] = "sub"
      /\ handle = None /\ lost \in SUBSET Ids
  BY DEF FeedInv, FeedTypeOK, BareBeforeSub, RefreshSubscriptionFails
<1>2. NewId \in Ids /\ NewId # handle /\ reg \in SUBSET Ids
  BY <1>1, FreshId DEF FeedTypeOK
<1>3. \/ reg' = reg /\ raised' = raised
      \/ OneMore /\ reg' = reg \cup {NewId}
  BY Zenon DEF RefreshSubscriptionFails, OneMore
<1>4. handle' = handle /\ UNCHANGED <<enabled, overtaken, lost>>
  BY Zenon DEF RefreshSubscriptionFails
<1>5. handle' \in Ids \cup {None} /\ reg' \in SUBSET Ids /\ lost' \in SUBSET Ids
  BY <1>1, <1>2, <1>3, <1>4
<1>6. NoOrphanFeed' /\ raised' \in 0 .. MaxRaises
  <2>1. CASE reg' = reg /\ raised' = raised
    <3>1. reg' \ ({handle'} \cup lost') \subseteq reg \ ({handle} \cup lost)
      BY <1>4, <2>1
    <3> QED
      BY <1>1, <1>5, <2>1, <3>1, OrphansKept DEF FeedInv
  <2>2. CASE OneMore /\ reg' = reg \cup {NewId}
    <3>1. reg' \ ({handle'} \cup lost')
             \subseteq (reg \ ({handle} \cup lost)) \cup {NewId}
      BY <1>4, <2>2
    <3> QED
      BY <1>1, <1>2, <1>5, <2>2, <3>1, OrphansKept DEF FeedInv
  <2> QED
    BY <1>3, <2>1, <2>2
<1>7. /\ PcOK(pc') /\ pc'["request"] = "off"
      /\ \A t \in Tasks : t # "request" => pc'[t] = pc[t]
  BY <1>1, TaskNames DEF RefreshSubscriptionFails, PcOK
<1>8. FlagsOK'
  BY <1>1 DEF RefreshSubscriptionFails, FlagsOK
<1>10. ~enabled => overtaken
  BY <1>1 DEF FeedInv, OffMeansOff
<1>11. HandleIsLive'
  BY <1>1, <1>4 DEF HandleIsLive
<1>12. BareBeforeSub'
  BY <1>7 DEF BareBeforeSub
<1>13. OffMeansOff'
  BY <1>4, <1>10, Zenon DEF OffMeansOff
<1> QED
  BY <1>5, <1>6, <1>7, <1>8, <1>11, <1>12, <1>13 DEF FeedInv, FeedTypeOK

(* A refresh from its start, when the feed is on or not.                   *)
LEMMA StartEnds ==
    ASSUME FeedInv, NEW on \in BOOLEAN, NEW pcs, PcOK(pcs), RefreshStarts(on, pcs), lost' = lost,
           \A t \in Tasks : pcs[t] = "unsub" <=> pc[t] = "unsub",
           pcs["request"] = pc["request"], pc["request"] = "off"
    PROVE  /\ PcOK(pc') /\ initial' \in BOOLEAN /\ lastOk' \in BOOLEAN
           /\ debounce' \in {"ready", "cooldown", "pending"} /\ (Ended \/ Rests)
           /\ pc'["request"] \in {"unsub", "sub"} => on
<1>1. FlagsOK /\ reg \in SUBSET Ids /\ handle \in Ids \cup {None}
  BY DEF FeedInv, FeedTypeOK
<1>2. CASE /\ lastOk' = TRUE /\ debounce' = "cooldown" /\ pc' = pcs
           /\ UNCHANGED <<handle, reg, initial, raised>>
  <2>1. Rests
    BY <1>2 DEF Rests, Suspended, SubKept
  <2> QED
    BY <1>1, <1>2, <2>1 DEF FlagsOK
<1>3. CASE on /\ Unsubscribe("request", pcs)
  BY <1>1, <1>3, UnsubscribeEnds, TaskNames DEF Moves
<1> QED
  BY <1>2, <1>3 DEF RefreshStarts

LEMMA SwitchOnKeeps ==
    ASSUME FeedInv, SwitchOn
    PROVE  FeedInv'
<1> DEFINE pcs == [pc EXCEPT !["watchdog"] = IF @ = "off" THEN "sleep" ELSE @]
<1>1. FlagsOK /\ PcOK(pc)
  BY DEF FeedInv, FeedTypeOK
<1>2. /\ PcOK(pcs) /\ pcs["request"] = pc["request"]
      /\ \A t \in Tasks : pcs[t] = "unsub" <=> pc[t] = "unsub"
  BY <1>1, TaskNames DEF PcOK
<1>3. enabled' = TRUE /\ overtaken' = FALSE /\ UNCHANGED <<hasData, age, down, lost>>
  BY DEF SwitchOn
<1>4. CASE /\ pc' = pcs /\ debounce' \in {debounce, "pending"}
           /\ UNCHANGED <<handle, reg, initial, lastOk, raised>>
  <2>1. Rests
    BY <1>2, <1>3, <1>4 DEF Rests, Suspended, SubKept
  <2>2. FlagsOK' /\ PcOK(pc') /\ OffMeansOff'
    BY <1>1, <1>2, <1>3, <1>4 DEF FlagsOK, OffMeansOff
  <2> QED
    BY <1>3, <2>1, <2>2, EndKept
<1>5. CASE pc["request"] = "off" /\ RefreshStarts(TRUE, pcs)
  <2> HIDE DEF pcs
  <2>1. /\ PcOK(pc') /\ initial' \in BOOLEAN /\ lastOk' \in BOOLEAN
        /\ debounce' \in {"ready", "cooldown", "pending"} /\ (Ended \/ Rests)
    BY <1>2, <1>3, <1>5, StartEnds
  <2>2. FlagsOK' /\ OffMeansOff'
    BY <1>1, <1>3, <2>1 DEF FlagsOK, OffMeansOff
  <2> QED
    BY <1>3, <2>1, <2>2, EndKept
<1> QED
  BY <1>4, <1>5 DEF SwitchOn

(* The feed is switched off: but for a refresh under way, what is left of  *)
(* it are the ids of writes that raised.                                   *)
LEMMA SwitchOffKeeps ==
    ASSUME FeedInv, NEW u \in Helpers, SwitchOff(u)
    PROVE  FeedInv'
<1> DEFINE pcs == [pc EXCEPT !["watchdog"] = "off"]
<1>1. FlagsOK /\ PcOK(pc) /\ reg \in SUBSET Ids /\ handle \in Ids \cup {None} /\ raised \in 0 .. MaxRaises
  BY DEF FeedInv, FeedTypeOK
<1>2. PcOK(pcs) /\ pcs["request"] = pc["request"] /\ u \in Tasks /\ u \notin {"request", "watchdog"}
  BY <1>1, TaskNames DEF PcOK
<1>3. enabled' = FALSE /\ UNCHANGED <<hasData, age, down, lost>> /\ Unsubscribe(u, pcs)
  BY DEF SwitchOff
<1>4. overtaken' = (pc["request"] \in {"unsub", "sub"})
  BY Zenon DEF SwitchOff
<1> HIDE DEF pcs
<1>5. /\ Moves(u, pcs) /\ Ended /\ initial' \in BOOLEAN /\ lastOk' \in BOOLEAN
      /\ reg' = reg \ {handle}
  BY <1>1, <1>2, <1>3, UnsubscribeEnds
<1>6. FlagsOK' /\ PcOK(pc')
  <2>1. enabled' \in BOOLEAN /\ overtaken' \in BOOLEAN
    <3>1. (pc["request"] \in {"unsub", "sub"}) \in BOOLEAN
      OBVIOUS
    <3>2. overtaken' \in BOOLEAN
      BY <1>4, <3>1, Zenon
    <3> QED
      BY <1>3, <3>2
  <2>2. UNCHANGED <<hasData, age, down>>
    BY <1>3
  <2>3. initial' \in BOOLEAN /\ lastOk' \in BOOLEAN /\ Moves(u, pcs)
    BY <1>5
  <2> QED
    BY <1>1, <2>1, <2>2, <2>3 DEF FlagsOK, Moves
<1>7. ~overtaken' => pc'["request"] \notin {"unsub", "sub"}
  BY <1>2, <1>4, <1>5 DEF Moves
<1>8. raised' = 0 => reg' \subseteq lost'
  <2>1. raised' = 0 => raised = 0
    BY <1>1, <1>5, ChargingAssumption
       DEF Ended, Drops, Suspends, Fails, OneMore, ChargingAssumption
  <2>2. raised = 0 => reg \ ({handle} \cup lost) = {}
    <3> DEFINE A == reg \ ({handle} \cup lost)
    <3>1. IsFiniteSet(A) /\ Cardinality(A) \in Nat
      BY <1>1, NotAnId, FS_Subset, FS_CardinalityType
    <3>2. raised = 0 => Cardinality(A) = 0
      BY <3>1 DEF FeedInv, NoOrphanFeed
    <3> QED
      BY <3>1, <3>2, FS_EmptySet
  <2> QED
    BY <1>3, <1>5, <2>1, <2>2
<1>9. OffMeansOff'
  BY <1>7, <1>8 DEF OffMeansOff
<1> QED
  BY <1>3, <1>5, <1>6, <1>9, EndKept

(* The other steps that unsubscribe.                                       *)
LEMMA EndingKeeps ==
    ASSUME FeedInv, NEW t \in Tasks,
           \/ UnsubscribeResumes(t)
           \/ t = "watchdog" /\ WatchdogTicks
           \/ t \in Helpers /\ BadFrame(t)
           \/ t = "shutdown" /\ Shutdown
    PROVE  FeedInv'
<1>1. FlagsOK /\ PcOK(pc) /\ reg \in SUBSET Ids /\ handle \in Ids \cup {None}
  BY DEF FeedInv, FeedTypeOK
<1>2. UNCHANGED <<enabled, hasData, age, overtaken>> /\ (down => down') /\ down' \in BOOLEAN
  BY <1>1 DEF UnsubscribeResumes, WatchdogTicks, BadFrame, Shutdown, FlagsOK
<1>3. ASSUME NEW pcs, Moves(t, pcs), Ended, initial' \in BOOLEAN, lastOk' \in BOOLEAN,
             pcs["request"] = pc["request"], t = "request" => pc["request"] = "unsub"
      PROVE  FeedInv'
  <2>1. FlagsOK' /\ PcOK(pc')
    BY <1>1, <1>2, <1>3 DEF FlagsOK, Moves
  <2>2. OffMeansOff'
    BY <1>2, <1>3, OffKept DEF Moves
  <2> QED
    BY <1>2, <1>3, <2>1, <2>2, EndKept
<1>4. CASE UnsubscribeResumes(t)
  <2>1. pc[t] = "unsub"
    BY <1>4 DEF UnsubscribeResumes
  <2> QED
    BY <1>3, <1>4, <2>1, ResumeEnds
<1>5. CASE t \in Helpers \cup {"watchdog"} /\ Unsubscribe(t, pc) /\ lost' = lost
  <2>1. t # "request"
    BY <1>5, TaskNames
  <2>2. Moves(t, pc) /\ Ended /\ initial' \in BOOLEAN /\ lastOk' \in BOOLEAN
    BY <1>1, <1>5, UnsubscribeEnds
  <2> QED
    BY <1>3, <2>1, <2>2
<1>6. CASE t = "shutdown" /\ Shutdown
  <2> DEFINE pcs == [pc EXCEPT !["watchdog"] = "off"]
  <2>1. PcOK(pcs) /\ pcs["request"] = pc["request"]
    BY <1>1, TaskNames DEF PcOK
  <2>2. Unsubscribe(t, pcs) /\ lost' = lost
    BY <1>6 DEF Shutdown
  <2> HIDE DEF pcs
  <2>3. Moves(t, pcs) /\ Ended /\ initial' \in BOOLEAN /\ lastOk' \in BOOLEAN
    BY <1>1, <2>1, <2>2, UnsubscribeEnds
  <2> QED
    BY <1>3, <1>6, <2>1, <2>3
<1> QED
  BY <1>4, <1>5, <1>6 DEF WatchdogTicks, BadFrame

LEMMA FeedStep == FeedInv /\ [Next]_vars => FeedInv'
<1> SUFFICES ASSUME FeedInv, [Next]_vars
             PROVE  FeedInv'
  OBVIOUS
<1>1. FlagsOK /\ PcOK(pc)
  BY DEF FeedInv, FeedTypeOK
<1>2. CASE DeferredRefresh
  <2>1. pc["request"] = "off" /\ UNCHANGED <<enabled, hasData, age, down, overtaken, lost>>
        /\ RefreshStarts(enabled, pc) /\ enabled \in BOOLEAN
    BY <1>1, <1>2 DEF DeferredRefresh, FlagsOK
  <2>2. /\ PcOK(pc') /\ initial' \in BOOLEAN /\ lastOk' \in BOOLEAN
        /\ debounce' \in {"ready", "cooldown", "pending"} /\ (Ended \/ Rests)
        /\ pc'["request"] \in {"unsub", "sub"} => enabled
    BY <1>1, <2>1, StartEnds
  <2>3. FlagsOK'
    BY <1>1, <2>1, <2>2 DEF FlagsOK
  <2>4. OffMeansOff'
    BY <2>1, <2>2, OffKept
  <2> QED
    BY <2>1, <2>2, <2>3, <2>4, EndKept
<1>3. CASE RefreshEnds
  <2>1. UNCHANGED <<reg, handle, raised, overtaken, lost, enabled, down>>
    BY <1>3 DEF RefreshEnds
  <2>2. PcOK(pc') /\ (\A t \in Tasks : pc'[t] = "unsub" <=> pc[t] = "unsub") /\ pc'["request"] = "off"
    BY <1>1, <1>3, TaskNames DEF RefreshEnds, PcOK
  <2>3. FlagsOK'
    BY <1>1, <1>3 DEF RefreshEnds, FlagsOK
  <2> QED
    BY <2>1, <2>2, <2>3, RestKept
<1>4. CASE WatchdogStarts
  <2>1. UNCHANGED <<reg, handle, raised, overtaken, lost, enabled, down>>
    BY <1>4 DEF WatchdogStarts
  <2>2. /\ PcOK(pc') /\ pc'["request"] = pc["request"]
        /\ \A t \in Tasks : pc'[t] = "unsub" <=> pc[t] = "unsub"
    BY <1>1, <1>4, TaskNames DEF WatchdogStarts, PcOK
  <2>3. FlagsOK'
    BY <1>1, <1>4 DEF WatchdogStarts, FlagsOK
  <2> QED
    BY <2>1, <2>2, <2>3, RestKept
<1>5. CASE SessionFrame
  <2>1. UNCHANGED <<reg, handle, raised, overtaken, lost, enabled, down>>
    BY <1>5 DEF SessionFrame
  <2>2. /\ PcOK(pc') /\ (pc'["request"] = "sub" => pc["request"] = "sub")
        /\ \A t \in Tasks : pc'[t] = "unsub" <=> pc[t] = "unsub"
    BY <1>1, <1>5, TaskNames DEF SessionFrame, PcOK
  <2>3. FlagsOK'
    BY <1>1, <1>5 DEF SessionFrame, Published, FlagsOK
  <2> QED
    BY <2>1, <2>2, <2>3, RestKept
<1>6. CASE CooldownEnds \/ FeedAges \/ ParallaxUpdate \/ UNCHANGED vars
  <2>1. UNCHANGED <<reg, handle, raised, overtaken, lost, enabled, down, pc>>
    BY <1>6 DEF CooldownEnds, FeedAges, ParallaxUpdate, vars
  <2>2. FlagsOK'
    BY <1>1, <1>6 DEF CooldownEnds, FeedAges, ParallaxUpdate, Published, vars, FlagsOK
  <2> QED
    BY <1>1, <2>1, <2>2, RestKept
<1>7. ASSUME NEW t \in Tasks, UnsubscribeResumes(t)
      PROVE  FeedInv'
  BY <1>7, EndingKeeps
<1>8. CASE WatchdogTicks \/ Shutdown
  BY <1>8, EndingKeeps, TaskNames
<1>9. ASSUME NEW u \in Helpers, SwitchOff(u) \/ BadFrame(u)
      PROVE  FeedInv'
  BY <1>9, EndingKeeps, SwitchOffKeeps, TaskNames
<1> QED
  BY <1>2, <1>3, <1>4, <1>5, <1>6, <1>7, <1>8, <1>9, SubscribeKeeps, FailedSubscribeKeeps,
     SwitchOnKeeps DEF Next

LEMMA FeedInvariant == Spec => []FeedInv
<1>1. Init => FeedInv
  <2> SUFFICES ASSUME Init
               PROVE  FeedInv
    OBVIOUS
  <2>1. FlagsOK /\ raised \in 0 .. MaxRaises /\ raised = 0 /\ lost = {}
    <3>1. raised = 0 /\ lost = {} /\ 0 \in 0 .. MaxRaises
      BY ChargingAssumption DEF Init, ChargingAssumption
    <3>2. FlagsOK
      BY Zenon DEF Init, FlagsOK
    <3> QED
      BY <3>1, <3>2
  <2>2. /\ PcOK(pc) /\ \A t \in Tasks : pc[t] \notin {"unsub", "sub"}
    BY TaskNames DEF Init, PcOK
  <2>3. handle \in Ids \cup {None} /\ reg = {handle} \ {None} /\ (~enabled => handle = None)
    BY ChargingAssumption DEF Init, Ids, ChargingAssumption
  <2>4. reg \in SUBSET Ids /\ reg \ {handle} = {} /\ (~enabled => reg = {})
    BY <2>3
  <2>5. FeedTypeOK
    BY <2>1, <2>2, <2>3, <2>4 DEF FeedTypeOK
  <2>6. NoOrphanFeed
    <3>1. reg \ ({handle} \cup lost) = {}
      BY <2>4
    <3>2. Cardinality(reg \ ({handle} \cup lost)) = 0
      BY <3>1, FS_EmptySet
    <3> QED
      BY <2>1, <3>2 DEF NoOrphanFeed
  <2>7. BareBeforeSub
    BY <2>2, TaskNames DEF BareBeforeSub
  <2>8. HandleIsLive
    BY <2>3 DEF HandleIsLive
  <2>9. OffMeansOff
    BY <2>2, <2>4, TaskNames DEF OffMeansOff
  <2> QED
    BY <2>5, <2>6, <2>7, <2>8, <2>9 DEF FeedInv
<1>2. FeedInv /\ [Next]_vars => FeedInv'
  BY FeedStep
<1> QED
  BY <1>1, <1>2, PTL DEF Spec

-----------------------------------------------------------------------------
(* Each charging subscription that is registered is held by the handle,    *)
(* but for one per write that raised and those whose handle an             *)
(* _unsubscribe cleared as it resumed (coordinator.py:546-551), and the    *)
(* handle, when nothing is being written, is one of a subscription.        *)
THEOREM ChargingFeedIsHeld == Spec => []FeedHeld
<1>1. FeedInv => FeedHeld
  <2> SUFFICES ASSUME FeedInv
               PROVE  FeedHeld
    OBVIOUS
  <2>1. {enabled, initial, hasData, lastOk, down, overtaken} \subseteq BOOLEAN
    BY DEF FeedInv, FeedTypeOK, FlagsOK
  <2>2. /\ handle \in Ids \cup {None} /\ {reg, lost} \subseteq SUBSET Ids
        /\ raised \in 0..MaxRaises
        /\ age \in {"never", "fresh", "stale"} /\ debounce \in {"ready", "cooldown", "pending"}
    BY DEF FeedInv, FeedTypeOK, FlagsOK
  <2>3. PcOK(pc) /\ DOMAIN pc = Tasks
    BY DEF FeedInv, FeedTypeOK, PcOK
  <2>4. TypeOK
    BY <2>1, <2>2, <2>3 DEF TypeOK, PcOK
  <2> QED
    BY <2>4 DEF FeedHeld, FeedInv
<1> QED
  BY <1>1, FeedInvariant, PTL

(* A feed that is switched off has no subscription left, unless a refresh  *)
(* was under way as it was switched off, a write raised or the handle was  *)
(* lost: no deferred refresh and no new watchdog brings it back.           *)
THEOREM OffStaysOff == Spec => []OffUnlessOvertaken
<1>1. FeedInv => OffUnlessOvertaken
  <2> SUFFICES ASSUME FeedInv, ~enabled, reg \ lost # {}, ~overtaken
               PROVE  raised > 0
    BY DEF OffUnlessOvertaken
  <2>1. raised # 0
    BY DEF FeedInv, OffMeansOff
  <2>2. raised \in Nat
    BY ChargingAssumption DEF FeedInv, FeedTypeOK, ChargingAssumption
  <2> QED
    BY <2>1, <2>2
<1> QED
  BY <1>1, FeedInvariant, PTL

-----------------------------------------------------------------------------
(* The schedule.                                                           *)

TaskStates ==
    [at : {"idle", "reading", "rereading", "writing", "written"},
     ask : Requests, got : Schedules \cup {Unread},
     patch : Schedules \cup {Unread}, blind : BOOLEAN]

(* A task with something to send has asked for a change.                   *)
HasPatch(t) ==
    t.at \in {"rereading", "writing", "written"} => t.patch \in Schedules /\ t.ask.do # "poll"

(* While nothing disturbs it, what a task t has read is what the server,   *)
(* whose schedule is s, holds; what it sends is that with its change; and  *)
(* what it has sent is what the server now holds.                          *)
Undisturbed(t, s) ==
    /\ t.at \in {"reading", "rereading"} => t.got \in {Unread, s}
    /\ t.at = "rereading" /\ ~t.blind => t.patch = Changed(t.ask, s)
    /\ t.at = "writing" =>
          \E p \in Schedules : /\ t.patch = Updated(t.ask, p, s)
                               /\ ~t.blind => p = Changed(t.ask, s)
    /\ t.at = "written" => t.patch = s

(* ... and the cache stands for the server for ten seconds, but while it   *)
(* is being read or written.                                               *)
CacheStands ==
    sinceRead = 0 /\ (\A u \in Users : user[u].at \notin {"reading", "rereading", "written"})
        => cache = server

ScheduleInv ==
    /\ ScheduleTypeOK
    /\ \A u \in Users : HasPatch(user[u])
    /\ ~disturbed => /\ \A u, v \in Busy : u = v
                     /\ \A u \in Users : Undisturbed(user[u], server)
                     /\ CacheStands

(* Minutes of the day.                                                     *)
LEMMA Remainder ==
    ASSUME NEW n \in Nat
    PROVE  /\ n % Day \in Minutes
           /\ n \in Minutes => n % Day = n
           /\ n \in Minutes => (n + Day) % Day = n
BY ScheduleAssumption DEF ScheduleAssumption, Minutes

LEMMA WrappedEnd ==
    ASSUME NEW from \in Minutes, NEW to \in Minutes
    PROVE  Wrapped(to - from) \in 1 .. Day /\ (from + Wrapped(to - from)) % Day = to
<1>1. Wrapped(to - from) \in 1 .. Day
    BY ScheduleAssumption DEF ScheduleAssumption, Minutes, Wrapped
<1>2. from + Wrapped(to - from) = to \/ from + Wrapped(to - from) = to + Day
    BY ScheduleAssumption DEF ScheduleAssumption, Minutes, Wrapped
<1>3. to \in Nat
    BY ScheduleAssumption DEF ScheduleAssumption, Minutes
<1> QED BY <1>1, <1>2, <1>3, Remainder

LEMMA EndIsMinute ==
    ASSUME NEW s \in Schedules PROVE EndOf(s) \in Minutes
<1>1. s.start + s.duration \in Nat
    BY ScheduleAssumption DEF ScheduleAssumption, Schedules, Minutes
<1> QED BY <1>1, Remainder DEF EndOf

LEMMA ChangedIsSchedule ==
    ASSUME NEW ask \in Requests, ask.do # "poll", NEW s \in Schedules
    PROVE  Changed(ask, s) \in Schedules
<1>1. CASE ask.do = "start"
  <2>1. ask.to \in Minutes /\ EndOf(s) \in Minutes
      BY <1>1, EndIsMinute DEF Requests
  <2>2. Wrapped(EndOf(s) - ask.to) \in 1 .. Day
      BY <2>1, WrappedEnd
  <2> QED BY <1>1, <2>1, <2>2 DEF Changed, Schedules
<1>2. CASE ask.do = "end"
  <2>1. ask.to \in Minutes /\ s.start \in Minutes
      BY <1>2 DEF Requests, Schedules
  <2>2. Wrapped(ask.to - s.start) \in 1 .. Day
      BY <2>1, WrappedEnd
  <2> QED BY <1>2, <2>2 DEF Changed, Schedules
<1>3. CASE ask.do = "enable"
    BY <1>3 DEF Changed, Schedules
<1> QED BY <1>1, <1>2, <1>3 DEF Requests

LEMMA UpdatedIsSchedule ==
    ASSUME NEW ask \in Requests, ask.do # "poll", NEW p \in Schedules, NEW s \in Schedules
    PROVE  Updated(ask, p, s) \in Schedules
BY DEF Requests, Updated, Schedules

(* What a task becomes once it has read s at first.                        *)
AfterFirstRead(r, ask, s, due) ==
    \/ r = Idle /\ UNCHANGED sinceRead
    \/ /\ r \in TaskStates /\ ask.do # "poll"
       /\ r.ask = ask /\ r.blind = (s # server) /\ r.got = Unread
       /\ \/ due /\ sinceRead' = 0 /\ r.at = "rereading" /\ r.patch = Changed(ask, s)
          \/ /\ ~due /\ UNCHANGED sinceRead /\ r.at = "writing"
             /\ r.patch = Updated(ask, Changed(ask, s), s)

LEMMA IdleIsState == Idle \in TaskStates /\ Idle.at = "idle"
BY DEF Idle, TaskStates, Requests

LEMMA FirstReadLeaves ==
    ASSUME NEW u \in Users, NEW t \in TaskStates, NEW s \in Schedules, NEW due \in BOOLEAN,
           FirstReadDone(u, t, s, due)
    PROVE  \E r \in TaskStates : /\ user' = [user EXCEPT ![u] = r]
                                 /\ AfterFirstRead(r, t.ask, s, due)
<1>1. CASE t.ask.do = "poll"
    BY <1>1, IdleIsState DEF FirstReadDone, AfterFirstRead
<1>2. CASE t.ask.do # "poll"
  <2> DEFINE p == Changed(t.ask, s)
             patched == [t EXCEPT !.patch = p, !.got = Unread, !.blind = s # server]
             again == [patched EXCEPT !.at = "rereading"]
             q == Updated(t.ask, p, s)
             sent == [patched EXCEPT !.at = "writing", !.got = Unread,
                                     !.patch = Updated(patched.ask, patched.patch, s)]
  <2>1. t.ask \in Requests
      BY DEF TaskStates
  <2>2. p \in Schedules
      BY <1>2, <2>1, ChangedIsSchedule
  <2>3. q \in Schedules
      BY <1>2, <2>1, <2>2, UpdatedIsSchedule
  <2>4. (s # server) \in BOOLEAN
      OBVIOUS
  <2>5. \/ due /\ sinceRead' = 0 /\ user' = [user EXCEPT ![u] = again]
        \/ ~due /\ UNCHANGED sinceRead /\ user' = [user EXCEPT ![u] = sent]
      BY <1>2 DEF FirstReadDone, Send
  <2> HIDE DEF p, q
  <2>6. patched \in TaskStates /\ patched.ask = t.ask /\ patched.patch = p /\ patched.got = Unread
        /\ patched.blind = (s # server)
      BY <2>2 DEF TaskStates
  <2>7. sent = [patched EXCEPT !.at = "writing", !.got = Unread, !.patch = q]
      BY <2>6 DEF q
  <2> HIDE DEF patched
  <2>8. /\ again \in TaskStates /\ again.ask = t.ask /\ again.blind = (s # server)
        /\ again.got = Unread /\ again.at = "rereading" /\ again.patch = p
      BY <2>2, <2>6 DEF TaskStates
  <2>9. /\ sent \in TaskStates /\ sent.ask = t.ask /\ sent.blind = (s # server)
        /\ sent.got = Unread /\ sent.at = "writing" /\ sent.patch = q
      BY <2>3, <2>6, <2>7 DEF TaskStates
  <2> HIDE DEF again, sent
  <2> QED BY <1>2, <2>5, <2>8, <2>9 DEF AfterFirstRead, p, q
<1> QED BY <1>1, <1>2

(* Such a task has a patch, and an undisturbed one if what it read is what *)
(* the server holds.                                                       *)
LEMMA FirstReadHasPatch ==
    ASSUME NEW r \in TaskStates, NEW ask \in Requests, NEW s \in Schedules, NEW due,
           AfterFirstRead(r, ask, s, due)
    PROVE  /\ HasPatch(r)
           /\ (due \/ s = server) => Undisturbed(r, server)
<1>1. CASE r = Idle
    BY <1>1, IdleIsState DEF HasPatch, Undisturbed
<1>2. CASE r # Idle
  <2>1. ask.do # "poll" /\ r.ask = ask /\ r.blind = (s # server) /\ r.got = Unread
      BY <1>2 DEF AfterFirstRead
  <2>2. Changed(ask, s) \in Schedules
      BY <2>1, ChangedIsSchedule
  <2>3. Updated(ask, Changed(ask, s), s) \in Schedules
      BY <2>1, <2>2, UpdatedIsSchedule
  <2>4. r.at \in {"rereading", "writing"} /\ r.patch \in Schedules
      BY <1>2, <2>2, <2>3 DEF AfterFirstRead
  <2>5. HasPatch(r)
      BY <2>1, <2>4 DEF HasPatch
  <2>6. ASSUME r.at = "rereading" PROVE Undisturbed(r, server)
    <3>1. r.patch = Changed(ask, s)
        BY <1>2, <2>6 DEF AfterFirstRead
    <3> QED BY <2>1, <2>6, <3>1 DEF Undisturbed
  <2>7. ASSUME r.at = "writing", due \/ s = server PROVE Undisturbed(r, server)
    <3>1. ~due /\ r.patch = Updated(ask, Changed(ask, s), s)
        BY <1>2, <2>7 DEF AfterFirstRead
    <3>2. s = server
        BY <2>7, <3>1
    <3> QED BY <2>1, <2>2, <2>7, <3>1, <3>2 DEF Undisturbed
  <2> QED BY <2>4, <2>5, <2>6, <2>7
<1> QED BY <1>1, <1>2

(* A step of one task, which was the only one if nothing is disturbed.     *)
LEMMA TaskMoves ==
    ASSUME ScheduleInv, NEW u \in Users, NEW r \in TaskStates, user' = [user EXCEPT ![u] = r],
           HasPatch(r), server' \in Schedules, cache' \in Schedules \cup {Unread},
           sinceRead' \in 0 .. 2, writes' \in 0 .. MaxWrites, disturbed' \in BOOLEAN,
           ~disturbed' => /\ Busy \subseteq {u} /\ Undisturbed(r, server')
                          /\ CacheStands'
    PROVE  ScheduleInv'
<1>1. /\ user \in [Users -> TaskStates] /\ user' \in [Users -> TaskStates]
      /\ user'[u] = r /\ \A v \in Users \ {u} : user'[v] = user[v]
    BY DEF ScheduleInv, ScheduleTypeOK, TaskStates
<1>2. ScheduleTypeOK'
    BY <1>1 DEF ScheduleTypeOK, TaskStates
<1>3. \A v \in Users : HasPatch(user[v])'
    BY <1>1 DEF ScheduleInv, HasPatch
<1>4. ASSUME ~disturbed'
      PROVE  /\ \A v, w \in Busy' : v = w
             /\ \A v \in Users : Undisturbed(user'[v], server')
             /\ CacheStands'
  <2>1. \A v \in Users \ {u} : user'[v].at = "idle"
      BY <1>1, <1>4 DEF Busy
  <2>2. \A v \in Users \ {u} : Undisturbed(user'[v], server')
      BY <2>1 DEF Undisturbed
  <2> QED BY <1>1, <1>4, <2>1, <2>2 DEF Busy
<1>5. \A v \in Users : HasPatch(user'[v])
    BY <1>3 DEF HasPatch
<1> QED BY <1>2, <1>5, <1>4 DEF ScheduleInv, HasPatch, Undisturbed, Busy

LEMMA CallKeeps ==
    ASSUME ScheduleInv, NEW u \in Users, NEW ask \in Requests, Call(u, ask)
    PROVE  ScheduleInv'
<1> DEFINE t == [Idle EXCEPT !.ask = ask]
           due == FetchDue(TRUE)
<1>1. /\ t \in TaskStates /\ t.ask = ask /\ t.at = "idle" /\ t.got = Unread
      /\ Default \in Schedules
    BY ScheduleAssumption DEF ScheduleAssumption, Idle, TaskStates, Default, Schedules, Minutes, Requests
<1>2. /\ server' = server /\ cache' = cache /\ writes' = writes
      /\ server \in Schedules /\ cache \in Schedules \cup {Unread} /\ sinceRead \in 0 .. 2
      /\ writes \in 0 .. MaxWrites /\ disturbed' \in BOOLEAN
    BY DEF Call, ScheduleInv, ScheduleTypeOK
<1>3. ~disturbed' => ~disturbed /\ Busy = {}
    BY <1>2 DEF Call, ScheduleInv, ScheduleTypeOK
<1>4. CASE /\ user' = [user EXCEPT ![u] = [t EXCEPT !.at = "reading"]]
           /\ sinceRead' = 0
  <2> DEFINE r == [t EXCEPT !.at = "reading"]
  <2>1. r \in TaskStates /\ r.at = "reading" /\ r.got = Unread
      BY <1>1 DEF TaskStates
  <2> HIDE DEF r, t
  <2>2. HasPatch(r) /\ Undisturbed(r, server')
      BY <2>1 DEF HasPatch, Undisturbed
  <2>3. user'[u].at = "reading"
      BY <1>4, <2>1 DEF ScheduleInv, ScheduleTypeOK, r
  <2>4. CacheStands'
      BY <2>3 DEF CacheStands
  <2>5. sinceRead' \in 0 .. 2 /\ user' = [user EXCEPT ![u] = r]
      BY <1>4 DEF r
  <2> QED BY <1>2, <1>3, <2>1, <2>2, <2>4, <2>5, TaskMoves
<1>5. ASSUME NEW s \in Schedules, FirstReadDone(u, t, s, due), ~due => s = cache
      PROVE  ScheduleInv'
  <2>1. due \in BOOLEAN /\ (~due => sinceRead = 0)
      BY <1>2 DEF FetchDue
  <2> HIDE DEF t, due
  <2>2. PICK r \in TaskStates : /\ user' = [user EXCEPT ![u] = r]
                                /\ AfterFirstRead(r, ask, s, due)
      BY <1>1, <1>5, <2>1, FirstReadLeaves
  <2>3. sinceRead' \in {0, sinceRead} /\ (sinceRead' # sinceRead => due)
      BY <1>2, <2>2 DEF AfterFirstRead
  <2>4. ASSUME ~disturbed'
        PROVE  (due \/ s = server) /\ CacheStands'
    <3>1. \A v \in Users : user[v].at = "idle"
        BY <1>3, <2>4 DEF Busy
    <3>2. sinceRead = 0 => cache = server
        BY <1>3, <2>4, <3>1 DEF ScheduleInv, CacheStands
    <3>3. due \/ s = server
        BY <1>5, <2>1, <3>2
    <3>4. user'[u] = r
        BY <2>2 DEF ScheduleInv, ScheduleTypeOK
    <3>5. CASE r.at \in {"reading", "rereading", "written"}
        BY <3>3, <3>4, <3>5 DEF CacheStands
    <3>6. CASE r.at \notin {"reading", "rereading", "written"}
      <4>1. sinceRead' = sinceRead
          BY <2>2, <3>6 DEF AfterFirstRead
      <4> QED BY <1>2, <3>2, <3>3, <4>1 DEF CacheStands
    <3> QED BY <3>3, <3>5, <3>6
  <2>5. HasPatch(r) /\ (~disturbed' => Undisturbed(r, server'))
      BY <1>2, <2>2, <2>4, FirstReadHasPatch
  <2>6. sinceRead' \in 0 .. 2
      BY <1>2, <2>3
  <2> QED BY <1>2, <1>3, <2>2, <2>4, <2>5, <2>6, TaskMoves
<1>6. ASSUME ask.do # "enable", ~FetchDue(FALSE), FirstReadDone(u, t, cache, due)
      PROVE  ScheduleInv'
  <2>1. cache \in Schedules
      BY <1>2, <1>6 DEF FetchDue
  <2> QED BY <1>5, <1>6, <2>1
<1>7. ASSUME FirstReadDone(u, t, IF cache = Unread THEN Default ELSE cache, due)
      PROVE  ScheduleInv'
  <2>1. (IF cache = Unread THEN Default ELSE cache) \in Schedules
      BY <1>1, <1>2
  <2>2. ~due => (IF cache = Unread THEN Default ELSE cache) = cache
      BY DEF FetchDue
  <2> QED BY <1>5, <1>7, <2>1, <2>2
<1> QED BY <1>4, <1>6, <1>7 DEF Call

LEMMA AnswersKeeps ==
    ASSUME ScheduleInv, NEW u \in Users, Answers(u)
    PROVE  ScheduleInv'
<1> DEFINE t == user[u]
           r == [t EXCEPT !.got = server]
<1>1. t \in TaskStates /\ server \in Schedules /\ HasPatch(t)
    BY DEF ScheduleInv, ScheduleTypeOK, TaskStates
<1>2. /\ r \in TaskStates /\ r.at = t.at /\ r.got = server /\ r.patch = t.patch
      /\ r.ask = t.ask /\ r.blind = t.blind
    BY <1>1 DEF TaskStates
<1>3. user' = [user EXCEPT ![u] = r] /\ UNCHANGED <<server, cache, sinceRead, writes, disturbed>>
      /\ t.at \in {"reading", "rereading"}
    BY DEF Answers
<1>4. t.at # "idle"
    BY <1>3
<1>5. user'[u] = r
    BY <1>3 DEF ScheduleInv, ScheduleTypeOK
<1> HIDE DEF r
<1>6. HasPatch(r)
    BY <1>1, <1>2 DEF HasPatch
<1>7. ASSUME ~disturbed'
      PROVE  Busy \subseteq {u} /\ Undisturbed(r, server') /\ CacheStands'
  <2>1. Busy \subseteq {u} /\ Undisturbed(t, server)
      BY <1>3, <1>4, <1>7 DEF ScheduleInv, Busy
  <2>2. Undisturbed(r, server)
      BY <1>2, <1>3, <2>1 DEF Undisturbed
  <2>3. CacheStands'
      BY <1>2, <1>3, <1>5 DEF CacheStands
  <2> QED BY <1>3, <2>1, <2>2, <2>3
<1>8. /\ server' \in Schedules /\ cache' \in Schedules \cup {Unread} /\ sinceRead' \in 0 .. 2
      /\ writes' \in 0 .. MaxWrites /\ disturbed' \in BOOLEAN
    BY <1>3 DEF ScheduleInv, ScheduleTypeOK
<1> QED BY <1>2, <1>3, <1>6, <1>7, <1>8, TaskMoves

LEMMA ReadReturnsKeeps ==
    ASSUME ScheduleInv, NEW u \in Users, ReadReturns(u)
    PROVE  ScheduleInv'
<1> DEFINE t == user[u]
           s == IF t.got # Unread THEN t.got
                ELSE IF cache # Unread THEN cache ELSE Default
<1>1. t \in TaskStates /\ server \in Schedules /\ HasPatch(t) /\ sinceRead \in 0 .. 2
    BY DEF ScheduleInv, ScheduleTypeOK, TaskStates
<1>2. Default \in Schedules
    BY ScheduleAssumption DEF ScheduleAssumption, Default, Schedules, Minutes
<1>3. s \in Schedules
    BY <1>1, <1>2 DEF ScheduleInv, ScheduleTypeOK, TaskStates
<1>4. /\ cache' = s /\ server' = server /\ writes' = writes
      /\ \/ t.at = "reading" /\ FirstReadDone(u, t, s, sinceRead > 0)
         \/ t.at = "rereading" /\ Send(u, t, s) /\ UNCHANGED sinceRead
    BY DEF ReadReturns
<1>5. /\ server' \in Schedules /\ cache' \in Schedules \cup {Unread}
      /\ writes' \in 0 .. MaxWrites /\ disturbed' \in BOOLEAN
    BY <1>1, <1>3, <1>4 DEF ScheduleInv, ScheduleTypeOK, ReadReturns
<1>6. ASSUME ~disturbed'
      PROVE  /\ Busy \subseteq {u} /\ Undisturbed(t, server) /\ s = server
             /\ CacheStands'
  <2>1. ~disturbed /\ t.got # Unread
      BY <1>5, <1>6 DEF ReadReturns, ScheduleInv, ScheduleTypeOK
  <2>2. u \in Busy
      BY <1>4 DEF Busy
  <2>3. Busy \subseteq {u} /\ Undisturbed(t, server)
      BY <2>1, <2>2 DEF ScheduleInv
  <2>4. s = server
      BY <1>4, <2>1, <2>3 DEF Undisturbed
  <2>5. CacheStands'
      BY <1>4, <2>4 DEF CacheStands
  <2> QED BY <2>3, <2>4, <2>5
<1>7. CASE t.at = "reading" /\ FirstReadDone(u, t, s, sinceRead > 0)
  <2> DEFINE due == sinceRead > 0
  <2>1. due \in BOOLEAN /\ FirstReadDone(u, t, s, due)
      BY <1>1, <1>7
  <2> HIDE DEF t, s, due
  <2>2. PICK r \in TaskStates : /\ user' = [user EXCEPT ![u] = r]
                                /\ AfterFirstRead(r, t.ask, s, due)
      BY <1>1, <1>3, <2>1, FirstReadLeaves
  <2>3. t.ask \in Requests
      BY <1>1 DEF TaskStates
  <2>4. HasPatch(r) /\ (~disturbed' => Undisturbed(r, server'))
      BY <1>3, <1>4, <1>6, <2>2, <2>3, FirstReadHasPatch
  <2>5. sinceRead' \in 0 .. 2
      BY <1>1, <2>2 DEF AfterFirstRead
  <2> QED BY <1>5, <1>6, <2>2, <2>4, <2>5, TaskMoves
<1>8. CASE t.at = "rereading" /\ Send(u, t, s) /\ UNCHANGED sinceRead
  <2> DEFINE q == Updated(t.ask, t.patch, s)
             r == [t EXCEPT !.at = "writing", !.got = Unread, !.patch = q]
  <2>1. t.patch \in Schedules /\ t.ask.do # "poll" /\ t.ask \in Requests
      BY <1>1, <1>8 DEF HasPatch, TaskStates
  <2>2. q \in Schedules
      BY <1>3, <2>1, UpdatedIsSchedule
  <2>3. user' = [user EXCEPT ![u] = r]
      BY <1>8 DEF Send
  <2> HIDE DEF q, s, t
  <2>4. /\ r \in TaskStates /\ r.at = "writing" /\ r.patch = q /\ r.ask = t.ask
        /\ r.blind = t.blind
      BY <1>1, <2>2 DEF TaskStates
  <2> HIDE DEF r
  <2>5. HasPatch(r)
      BY <2>1, <2>2, <2>4 DEF HasPatch
  <2>6. ASSUME ~disturbed' PROVE Undisturbed(r, server')
    <3>1. ~t.blind => t.patch = Changed(t.ask, server)
        BY <1>6, <1>8, <2>6 DEF Undisturbed
    <3>2. r.patch = Updated(r.ask, t.patch, server)
        BY <1>6, <2>4, <2>6 DEF q
    <3>3. ~r.blind => t.patch = Changed(r.ask, server)
        BY <3>1, <2>4
    <3> QED BY <1>4, <2>1, <2>4, <3>2, <3>3 DEF Undisturbed
  <2>7. sinceRead' \in 0 .. 2
      BY <1>1, <1>8
  <2> QED BY <1>5, <1>6, <2>3, <2>4, <2>5, <2>6, <2>7, TaskMoves
<1> QED BY <1>4, <1>7, <1>8

LEMMA TakesKeeps ==
    ASSUME ScheduleInv, NEW u \in Users, Takes(u)
    PROVE  ScheduleInv'
<1> DEFINE t == user[u]
           r == [t EXCEPT !.at = "written"]
<1>1. t \in TaskStates /\ HasPatch(t) /\ t.at = "writing" /\ t.patch \in Schedules
    BY DEF ScheduleInv, ScheduleTypeOK, TaskStates, HasPatch, Takes
<1>2. r \in TaskStates /\ r.at = "written" /\ r.patch = t.patch /\ r.ask = t.ask
    BY <1>1 DEF TaskStates
<1>3. /\ user' = [user EXCEPT ![u] = r] /\ server' = t.patch
      /\ UNCHANGED <<cache, sinceRead, writes, disturbed>>
    BY DEF Takes
<1>4. user'[u] = r
    BY <1>3 DEF ScheduleInv, ScheduleTypeOK
<1> HIDE DEF r
<1>5. HasPatch(r) /\ Undisturbed(r, server')
    BY <1>1, <1>2, <1>3 DEF HasPatch, Undisturbed
<1>6. ~disturbed' => Busy \subseteq {u}
    BY <1>1, <1>3 DEF ScheduleInv, Busy
<1>7. CacheStands'
    BY <1>2, <1>4 DEF CacheStands
<1>8. /\ server' \in Schedules /\ cache' \in Schedules \cup {Unread} /\ sinceRead' \in 0 .. 2
      /\ writes' \in 0 .. MaxWrites /\ disturbed' \in BOOLEAN
    BY <1>1, <1>3 DEF ScheduleInv, ScheduleTypeOK
<1> QED BY <1>2, <1>3, <1>5, <1>6, <1>7, <1>8, TaskMoves

LEMMA WriteReturnsKeeps ==
    ASSUME ScheduleInv, NEW u \in Users, WriteReturns(u)
    PROVE  ScheduleInv'
<1> DEFINE t == user[u]
<1>1. t \in TaskStates /\ t.at \in {"writing", "written"} /\ t.patch \in Schedules
    BY DEF ScheduleInv, ScheduleTypeOK, TaskStates, HasPatch, WriteReturns
<1>2. /\ user' = [user EXCEPT ![u] = Idle] /\ cache' = t.patch
      /\ UNCHANGED <<server, sinceRead, writes>>
    BY DEF WriteReturns
<1>3. HasPatch(Idle) /\ Undisturbed(Idle, server') /\ Idle \in TaskStates
    BY IdleIsState DEF HasPatch, Undisturbed
<1>4. /\ server' \in Schedules /\ cache' \in Schedules \cup {Unread} /\ sinceRead' \in 0 .. 2
      /\ writes' \in 0 .. MaxWrites /\ disturbed' \in BOOLEAN
    BY <1>1, <1>2 DEF ScheduleInv, ScheduleTypeOK, WriteReturns
<1>5. ASSUME ~disturbed'
      PROVE  Busy \subseteq {u} /\ CacheStands'
  <2>1. ~disturbed /\ t.at = "written"
      BY <1>1, <1>5 DEF WriteReturns
  <2>2. Busy \subseteq {u} /\ Undisturbed(t, server)
      BY <2>1 DEF ScheduleInv, Busy
  <2>3. cache' = server'
      BY <1>2, <2>1, <2>2 DEF Undisturbed
  <2> QED BY <2>2, <2>3 DEF CacheStands
<1> QED BY <1>2, <1>3, <1>4, <1>5, TaskMoves

LEMMA ScheduleStarts ==
    ScheduleInit => ScheduleInv
<1>1. SUFFICES ASSUME ScheduleInit PROVE ScheduleInv
    OBVIOUS
<1>2. Default \in Schedules
    BY ScheduleAssumption DEF ScheduleAssumption, Default, Schedules, Minutes
<1>3. user \in [Users -> TaskStates] /\ \A u \in Users : user[u] = Idle
    BY <1>1, IdleIsState DEF ScheduleInit
<1>4. ScheduleTypeOK
  <2>1. 0 \in 0 .. MaxWrites
      BY ScheduleAssumption DEF ScheduleAssumption
  <2>2. sinceRead \in 0 .. 2 /\ writes \in 0 .. MaxWrites
      BY <1>1, <2>1 DEF ScheduleInit
  <2>3. disturbed \in BOOLEAN
      BY <1>1 DEF ScheduleInit
  <2> QED BY <1>1, <1>2, <1>3, <2>2, <2>3 DEF ScheduleInit, ScheduleTypeOK, TaskStates
<1>5. \A u \in Users : user[u].at = "idle"
    BY <1>3, IdleIsState
<1>6. CacheStands
    BY <1>1 DEF ScheduleInit, CacheStands
<1> QED BY <1>4, <1>5, <1>6 DEF ScheduleInv, HasPatch, Undisturbed, Busy

LEMMA OthersKeep ==
    ASSUME ScheduleInv, TimePasses \/ PhoneWrites \/ UNCHANGED scheduleVars
    PROVE  ScheduleInv'
<1>1. CASE UNCHANGED scheduleVars
    BY <1>1 DEF scheduleVars, ScheduleInv, ScheduleTypeOK, HasPatch, Undisturbed, CacheStands, Busy
<1>2. CASE TimePasses
  <2>1. ScheduleTypeOK'
    <3>1. disturbed' \in BOOLEAN
        BY <1>2 DEF TimePasses
    <3>2. sinceRead' \in 0 .. 2
        BY <1>2 DEF TimePasses, ScheduleInv, ScheduleTypeOK
    <3>3. UNCHANGED <<server, cache, user, writes>>
        BY <1>2 DEF TimePasses
    <3> QED BY <3>1, <3>2, <3>3 DEF ScheduleInv, ScheduleTypeOK
  <2>2. user' = user /\ \A u \in Users : user[u].at = "idle"
      BY <1>2 DEF TimePasses, Busy
  <2>3. sinceRead' # 0
      BY <1>2 DEF TimePasses, ScheduleInv, ScheduleTypeOK
  <2> QED BY <2>1, <2>2, <2>3 DEF ScheduleInv, HasPatch, Undisturbed, CacheStands, Busy
<1>3. CASE PhoneWrites
  <2>1. ScheduleTypeOK'
    <3>0. (disturbed \/ Busy # {} \/ sinceRead = 0) \in BOOLEAN
        OBVIOUS
    <3>1. disturbed' \in BOOLEAN
        BY <1>3, <3>0, Zenon DEF PhoneWrites
    <3>2. writes' \in 0 .. MaxWrites
        BY <1>3, ScheduleAssumption
        DEF ScheduleAssumption, PhoneWrites, ScheduleInv, ScheduleTypeOK
    <3>3. server' \in Schedules /\ UNCHANGED <<cache, sinceRead, user>>
        BY <1>3 DEF PhoneWrites
    <3> QED BY <3>1, <3>2, <3>3 DEF ScheduleInv, ScheduleTypeOK
  <2>2. user' = user /\ sinceRead' = sinceRead
      BY <1>3 DEF PhoneWrites
  <2>3. \A u \in Users : HasPatch(user'[u])
      BY <2>2 DEF ScheduleInv
  <2>4. ASSUME ~disturbed' PROVE (\A u \in Users : user[u].at = "idle") /\ sinceRead' # 0
      BY <1>3, <2>2, <2>4 DEF PhoneWrites, Busy
  <2> QED BY <2>1, <2>2, <2>3, <2>4 DEF ScheduleInv, HasPatch, Undisturbed, CacheStands, Busy
<1> QED BY <1>1, <1>2, <1>3

LEMMA ScheduleStep ==
    ScheduleInv /\ [ScheduleNext]_scheduleVars => ScheduleInv'
BY CallKeeps, AnswersKeeps, ReadReturnsKeeps, TakesKeeps, WriteReturnsKeeps, OthersKeep
   DEF ScheduleNext

(* The server takes a schedule in one step only, and what it takes is its  *)
(* own with the change, if nothing was disturbed.                          *)
LEMMA WrittenByTakes ==
    ASSUME ScheduleInv, [ScheduleNext]_scheduleVars, NEW u \in Users,
           user[u].at = "writing", user'[u].at = "written"
    PROVE  Takes(u)
<1>1. user \in [Users -> TaskStates]
    BY DEF ScheduleInv, ScheduleTypeOK, TaskStates
<1>2. ScheduleNext /\ ~TimePasses /\ ~PhoneWrites
    BY DEF scheduleVars, TimePasses, PhoneWrites
<1>3. PICK v \in Users : \/ \E ask \in Requests : Call(v, ask)
                         \/ Answers(v) \/ ReadReturns(v) \/ Takes(v) \/ WriteReturns(v)
    BY <1>2 DEF ScheduleNext
<1>4. \E r : user' = [user EXCEPT ![v] = r]
  <2>1. ASSUME NEW ask, Call(v, ask) PROVE \E r : user' = [user EXCEPT ![v] = r]
      BY <2>1 DEF Call, FirstReadDone, Send
  <2>2. ASSUME Answers(v) PROVE \E r : user' = [user EXCEPT ![v] = r]
      BY <2>2 DEF Answers
  <2>3. ASSUME ReadReturns(v) PROVE \E r : user' = [user EXCEPT ![v] = r]
      BY <2>3 DEF ReadReturns, FirstReadDone, Send
  <2>4. ASSUME Takes(v) PROVE \E r : user' = [user EXCEPT ![v] = r]
      BY <2>4 DEF Takes
  <2>5. ASSUME WriteReturns(v) PROVE \E r : user' = [user EXCEPT ![v] = r]
      BY <2>5 DEF WriteReturns
  <2> QED BY <1>3, <2>1, <2>2, <2>3, <2>4, <2>5
<1>5. v = u
    BY <1>1, <1>4
<1>6. ~WriteReturns(u)
    BY <1>1, IdleIsState DEF WriteReturns
<1> QED BY <1>3, <1>5, <1>6 DEF Call, Answers, ReadReturns

LEMMA TakesTheChange ==
    ASSUME ScheduleInv, ~disturbed, NEW u \in Users, Takes(u)
    PROVE  /\ server \in Schedules /\ user[u].ask \in Requests /\ user[u].ask.do # "poll"
           /\ \E p \in Schedules : /\ server' = Updated(user[u].ask, p, server)
                                   /\ ~user[u].blind => p = Changed(user[u].ask, server)
BY DEF Takes, ScheduleInv, ScheduleTypeOK, HasPatch, Undisturbed

LEMMA ScheduleInvariant == ScheduleSpec => []ScheduleInv
BY ScheduleStarts, ScheduleStep, PTL DEF ScheduleSpec

(* A written schedule differs from the server's by the field asked for.    *)
LEMMA OnlyWhatWasAsked ==
    ASSUME ScheduleInv, [ScheduleNext]_scheduleVars, NEW u \in Users,
           user[u].at = "writing", user'[u].at = "written", ~disturbed
    PROVE  /\ user[u].ask.do # "enable" => server'.enabled = server.enabled
           /\ user[u].ask.do # "start" => server'.start = server.start
           /\ user[u].ask.do = "enable" => server'.duration = server.duration
<1>1. Takes(u)
    BY WrittenByTakes
<1>2. /\ server \in Schedules /\ user[u].ask \in Requests /\ user[u].ask.do # "poll"
      /\ \E p \in Schedules : server' = Updated(user[u].ask, p, server)
    BY <1>1, TakesTheChange
<1>3. user[u].ask.do \in {"start", "end", "enable"}
    BY <1>2 DEF Requests
<1> QED BY <1>2, <1>3 DEF Updated, Schedules

(* ... and a time asked for is the time the server then holds.             *)
LEMMA AskedIsHeld ==
    ASSUME ScheduleInv, [ScheduleNext]_scheduleVars, NEW u \in Users,
           user[u].at = "writing", user'[u].at = "written", ~disturbed, ~user[u].blind
    PROVE  /\ user[u].ask.do = "end" => EndOf(server') = user[u].ask.to
           /\ user[u].ask.do = "start" => /\ server'.start = user[u].ask.to
                                          /\ EndOf(server') = EndOf(server)
<1> DEFINE ask == user[u].ask
<1>1. Takes(u)
    BY WrittenByTakes
<1>2. /\ server \in Schedules /\ ask \in Requests
      /\ server' = Updated(ask, Changed(ask, server), server)
    BY <1>1, TakesTheChange
<1>3. ASSUME ask.do = "end" PROVE EndOf(server') = ask.to
  <2>1. server'.start = server.start /\ server'.duration = Wrapped(ask.to - server.start)
      BY <1>2, <1>3 DEF Updated, Changed, Schedules
  <2>2. ask.to \in Minutes /\ server.start \in Minutes
      BY <1>2, <1>3 DEF Requests, Schedules
  <2> QED BY <2>1, <2>2, WrappedEnd DEF EndOf
<1>4. ASSUME ask.do = "start"
      PROVE  server'.start = ask.to /\ EndOf(server') = EndOf(server)
  <2>1. server'.start = ask.to /\ server'.duration = Wrapped(EndOf(server) - ask.to)
      BY <1>2, <1>4 DEF Updated, Changed, Schedules
  <2>2. ask.to \in Minutes /\ EndOf(server) \in Minutes
      BY <1>2, <1>4, EndIsMinute DEF Requests
  <2>3. (ask.to + Wrapped(EndOf(server) - ask.to)) % Day = EndOf(server)
      BY <2>2, WrappedEnd
  <2> QED BY <2>1, <2>3 DEF EndOf
<1> QED BY <1>3, <1>4

(* While nothing disturbed the last quiet ten seconds, an update changes   *)
(* what was asked for, to the minute, and nothing else                     *)
(* (VehicleCoordinator.update_charging_schedule_data, time.py).            *)
THEOREM UpdatesAreAsAsked == ScheduleSpec => UpdatesAsAsked
<1>1. ScheduleInv => ScheduleTypeOK
    BY DEF ScheduleInv
<1>2. ScheduleInv /\ [ScheduleNext]_scheduleVars =>
        [\A u \in Users :
           user[u].at = "writing" /\ user'[u].at = "written" /\ ~disturbed
             => /\ user[u].ask.do # "enable" =>
                     server'.enabled = server.enabled
                /\ user[u].ask.do # "start" => server'.start = server.start
                /\ user[u].ask.do = "enable" => server'.duration = server.duration]_scheduleVars
    BY OnlyWhatWasAsked
<1>3. ScheduleInv /\ [ScheduleNext]_scheduleVars =>
        [\A u \in Users :
           user[u].at = "writing" /\ user'[u].at = "written" /\ ~disturbed /\ ~user[u].blind
             => CASE user[u].ask.do = "end" -> EndOf(server') = user[u].ask.to
                  [] user[u].ask.do = "start" -> /\ server'.start = user[u].ask.to
                                                 /\ EndOf(server') = EndOf(server)
                  [] OTHER -> TRUE]_scheduleVars
    BY AskedIsHeld
<1> QED BY <1>1, <1>2, <1>3, ScheduleInvariant, PTL
        DEF ScheduleSpec, UpdatesAsAsked, NoLostUpdate, TimeAsAsked

===============================================================================
