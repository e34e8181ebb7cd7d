--------------------------- MODULE VehicleFeedProofs ---------------------------
(***************************************************************************)
(* Proofs about VehicleFeed: each subscription has the handle that can end *)
(* it, each handle a subscription, and a refresh succeeds only on a frame  *)
(* of its own subscription, for any number of _unsubscribe tasks, ids,     *)
(* writes suspended together and writes that raise.                        *)
(***************************************************************************)
EXTENDS VehicleFeed, FiniteSetTheorems, TLAPS

Places == {"off", "sleep", "schedule", "unsub", "sub", "wait", "woken", "tpmsUnsub", "tpmsSub",
           "commands"}

PcOK(p) ==
    /\ p \in [Tasks -> [at : Places, n : 0 .. 4]]
    /\ \A t \in Refreshes : p[t].at \in {"off", "schedule", "unsub", "sub", "wait", "woken"}
    /\ \A t \in Unsubscribers : p[t].at \in {"off", "unsub"}
    /\ p["shutdown"].at \in {"off", "commands", "unsub"}
    /\ p["watchdog"].at \in {"off", "sleep", "unsub", "tpmsUnsub", "tpmsSub"}
    /\ \A t \in Tasks : p[t].n > 0 <=> p[t].at \in {"unsub", "sub"}

PairOK(h, r) == h \in [Feeds -> Ids \cup {None}] /\ r \in [Feeds -> SUBSET Ids]

FlagsOK ==
    /\ initial \in BOOLEAN /\ lastOk \in BOOLEAN /\ stale \in BOOLEAN
    /\ asleep \in BOOLEAN /\ framed \in BOOLEAN
    /\ tpmsAge \in {"never", "fresh", "stale"} /\ mute \in SUBSET Ids
    /\ debounce \in {"ready", "cooldown", "pending"} /\ down \in {"no", "begun", "done"}

(* The places of a feed in the two orders.                                 *)
Pos(f) == CASE f = "parallax" -> 1 [] f = "tpms" -> 2 [] f = "vehicle" -> 3 [] f = "cloud" -> 4
SubPos(f) == CASE f = "vehicle" -> 1 [] f = "tpms" -> 2 [] f = "parallax" -> 3 [] f = "cloud" -> 4

(* Task t is suspended in the write that ends feed f's subscription.       *)
WrittenBy(f, t) == \/ pc[t].at = "unsub" /\ pc[t].n = Pos(f)
                   \/ pc[t].at = "tpmsUnsub" /\ f = "tpms"

(* A refresh drops each handle before it goes on to the next, and no other *)
(* task assigns one until it has subscribed each feed again; but the       *)
(* watchdog may bring the tire-pressure feed back before.                  *)
Bare(t) ==
    /\ pc[t].at = "unsub" => \A f \in Feeds \ {"tpms"} : Pos(f) < pc[t].n => handle[f] = None
    /\ pc[t].at = "sub" => \A f \in Feeds \ {"tpms"} : SubPos(f) >= pc[t].n => handle[f] = None
BareBehind == \A t \in Refreshes : Bare(t)

(* A handle without its subscription is about to be dropped.               *)
LiveOrWritten ==
    raised = 0 /\ down = "no" =>
        \A f \in Feeds : \/ handle[f] = None \/ handle[f] \in reg[f]
                         \/ \E t \in Tasks : WrittenBy(f, t)

(* The poll and the debounced refresh never run together: the watchdog,    *)
(* which asks for the other, rests while the poll renews the feed.         *)
OneRefresh ==
    /\ pc["poll"].at # "off" =>
          /\ pc["request"].at = "off" /\ debounce = "ready" /\ pc["watchdog"].at # "unsub"
          /\ stale => asleep \/ pc["watchdog"].at = "off"
    /\ pc["watchdog"].at = "unsub" /\ stale => ~asleep

(* _initial belongs to the subscription there is.                          *)
InitialIsFresh ==
    raised = 0 /\ lost["vehicle"] = {} => (initial => framed /\ handle["vehicle"] # None)

PairInv == NoOrphanFeed /\ BareBehind /\ LiveOrWritten

FeedTypeOK ==
    /\ PcOK(pc) /\ PairOK(handle, reg) /\ raised \in 0 .. MaxRaises
    /\ lost \in [Feeds -> SUBSET Ids]

FeedInv == FeedTypeOK /\ FlagsOK /\ PairInv /\ OneRefresh /\ InitialIsFresh /\ FreshStart

-----------------------------------------------------------------------------
OneMore == raised < MaxRaises /\ raised' = raised + 1

LEMMA TaskNames ==
    /\ \A t \in {"poll", "request", "watchdog", "shutdown"} : t \in Tasks /\ t \notin Unsubscribers
    /\ \A t \in Unsubscribers : t \in Tasks
    /\ \A t \in Tasks : t \in {"poll", "request", "watchdog", "shutdown"} \cup Unsubscribers
BY FeedAssumption DEF Tasks, Refreshes, FeedAssumption

LEMMA NotAnId == None \notin Ids /\ IsFiniteSet(Ids) /\ Ids # {}
<1>1. IsFiniteSet(Ids)
  BY FS_Interval, FeedAssumption DEF Ids, FeedAssumption
<1> QED
  BY <1>1, FeedAssumption DEF Ids, None, FeedAssumption

LEMMA Orders ==
    /\ \A f \in Feeds : Pos(f) \in 1 .. 4 /\ UnsubOrder[Pos(f)] = f
    /\ \A m \in 1 .. 4 : UnsubOrder[m] \in Feeds /\ Pos(UnsubOrder[m]) = m
    /\ \A f \in Feeds : SubPos(f) \in 1 .. 4 /\ SubOrder[SubPos(f)] = f
    /\ \A m \in 1 .. 4 : SubOrder[m] \in Feeds /\ SubPos(SubOrder[m]) = m
<1>1. \A f \in Feeds : Pos(f) \in 1 .. 4 /\ UnsubOrder[Pos(f)] = f
  BY DEF Feeds, Pos, UnsubOrder
<1>2. \A f \in Feeds : SubPos(f) \in 1 .. 4 /\ SubOrder[SubPos(f)] = f
  BY DEF Feeds, SubPos, SubOrder
<1>3. \A m \in 1 .. 4 : m = 1 \/ m = 2 \/ m = 3 \/ m = 4
  OBVIOUS
<1>4. \A m \in 1 .. 4 : UnsubOrder[m] \in Feeds /\ Pos(UnsubOrder[m]) = m
  BY <1>3 DEF Feeds, Pos, UnsubOrder
<1>5. \A m \in 1 .. 4 : SubOrder[m] \in Feeds /\ SubPos(SubOrder[m]) = m
  BY <1>3 DEF Feeds, SubPos, SubOrder
<1> QED
  BY <1>1, <1>2, <1>4, <1>5

-----------------------------------------------------------------------------
(* Where the tasks are when _unsubscribe has returned in task t.           *)
Settled(t) ==
    /\ PcOK(pc') /\ pc'[t].at # "unsub"
    /\ t \in Refreshes => pc'[t] = At("sub", 1)
    /\ \A q \in Tasks \ {t} : \/ pc'[q] = pc[q]
                              \/ q = "request" /\ t = "watchdog" /\ pc[q] = Off /\ pc'[q].at = "schedule"

(* From handle x and ids y of feed f, task t has left both alone, or       *)
(* dropped the handle with its id, or deleted the id alone: then it is     *)
(* suspended in the write, or the write has raised.                        *)
Went(f, t, x, y) ==
    \/ handle'[f] = x /\ reg'[f] = y
    \/ handle'[f] = None /\ reg'[f] = y \ {x}
    \/ handle'[f] = x /\ reg'[f] = y \ {x} /\ (WrittenBy(f, t)' \/ OneMore)

LEMMA TpmsFeed == "tpms" \in Feeds /\ "vehicle" \in Feeds /\ Pos("tpms") = 2
BY DEF Feeds, Pos

LEMMA OffPlace ==
    /\ Off \in [at : Places, n : 0 .. 4] /\ Off.at = "off" /\ Off.n = 0
    /\ \A s \in Places : At(s, 0) \in [at : Places, n : 0 .. 4] /\ At(s, 0).at = s /\ At(s, 0).n = 0
BY DEF At, Off, Places

(* The tick touches the tire-pressure feed alone.                          *)
LEMMA TickMoves ==
    ASSUME NEW h, NEW r, NEW pcs, PairOK(h, r), PcOK(pcs), TpmsTick(h, r, pcs)
    PROVE  /\ PairOK(handle', reg') /\ (raised' = raised \/ OneMore)
           /\ \A f \in Feeds \ {"tpms"} : handle'[f] = h[f] /\ reg'[f] = r[f]
           /\ Went("tpms", "watchdog", h["tpms"], r["tpms"])
           /\ \E s \in {"off", "sleep", "tpmsUnsub", "tpmsSub"} : pc' = [pcs EXCEPT !["watchdog"] = At(s, 0)]
<1> DEFINE gone == [r EXCEPT !["tpms"] = @ \ {h["tpms"]}]
           bare == [h EXCEPT !["tpms"] = None]
<1>1. \/ /\ handle' = h /\ reg' = r
         /\ pc' = [pcs EXCEPT !["watchdog"] = At("sleep", 0)] /\ raised' = raised
      \/ /\ handle' = bare /\ reg' = gone
         /\ pc' = [pcs EXCEPT !["watchdog"] = At("tpmsSub", 0)] /\ raised' = raised
      \/ /\ handle' = h /\ reg' = gone
         /\ pc' = [pcs EXCEPT !["watchdog"] = At("tpmsUnsub", 0)] /\ raised' = raised
      \/ /\ handle' = h /\ reg' = gone
         /\ pc' = [pcs EXCEPT !["watchdog"] = At("off", 0)] /\ OneMore
  BY DEF TpmsTick, WriteRaises, OneMore, Off
<1>2. /\ PairOK(h, gone) /\ PairOK(bare, gone)
      /\ gone["tpms"] = r["tpms"] \ {h["tpms"]} /\ bare["tpms"] = None
      /\ \A f \in Feeds \ {"tpms"} : gone[f] = r[f] /\ bare[f] = h[f]
  BY TpmsFeed DEF PairOK
<1>3. pc' = [pcs EXCEPT !["watchdog"] = At("tpmsUnsub", 0)] => WrittenBy("tpms", "watchdog")'
  BY OffPlace, TaskNames DEF PcOK, Places, WrittenBy
<1> HIDE DEF gone, bare
<1>4. CASE /\ handle' = h /\ reg' = r
           /\ pc' = [pcs EXCEPT !["watchdog"] = At("sleep", 0)] /\ raised' = raised
  BY <1>4 DEF Went
<1>5. CASE /\ handle' = bare /\ reg' = gone
           /\ pc' = [pcs EXCEPT !["watchdog"] = At("tpmsSub", 0)] /\ raised' = raised
  BY <1>2, <1>5 DEF Went
<1>6. CASE /\ handle' = h /\ reg' = gone
           /\ pc' = [pcs EXCEPT !["watchdog"] = At("tpmsUnsub", 0)] /\ raised' = raised
  BY <1>2, <1>3, <1>6 DEF Went
<1>7. CASE /\ handle' = h /\ reg' = gone
           /\ pc' = [pcs EXCEPT !["watchdog"] = At("off", 0)] /\ OneMore
  BY <1>2, <1>7 DEF Went
<1> QED
  BY <1>1, <1>4, <1>5, <1>6, <1>7

LEMMA RequestMoves ==
    ASSUME PcOK(pc), debounce \in {"ready", "cooldown", "pending"}
    PROVE  /\ PcOK(Requested(pc).pc) /\ Requested(pc).d \in {"ready", "cooldown", "pending"}
           /\ \A q \in Tasks : \/ Requested(pc).pc[q] = pc[q]
                               \/ /\ q = "request" /\ pc[q] = Off /\ debounce = "ready"
                                  /\ Requested(pc).pc[q] = At("schedule", 0)
<1>1. CASE pc["request"] = Off /\ debounce = "ready"
  <2>1. Requested(pc).pc = [pc EXCEPT !["request"] = At("schedule", 0)] /\ Requested(pc).d = "ready"
    BY <1>1 DEF Requested
  <2>2. At("schedule", 0) \in [at : Places, n : 0 .. 4] /\ At("schedule", 0).at = "schedule"
        /\ At("schedule", 0).n = 0
    BY DEF At, Places
  <2>3. PcOK(Requested(pc).pc)
    BY <2>1, <2>2, TaskNames DEF PcOK, Refreshes
  <2> QED
    BY <1>1, <2>1, <2>3 DEF PcOK
<1>2. CASE ~(pc["request"] = Off /\ debounce = "ready")
  <2>1. Requested(pc).pc = pc /\ Requested(pc).d \in {debounce, "pending"}
    BY <1>2 DEF Requested
  <2> QED
    BY <2>1
<1> QED
  BY <1>1, <1>2

LEMMA ReturnSettles ==
    ASSUME PcOK(pc), NEW t \in Tasks, NEW h, NEW r, PairOK(h, r),
           debounce \in {"ready", "cooldown", "pending"}, down \in {"no", "begun", "done"},
           Unsubscribed(t, h, r)
    PROVE  /\ PairOK(handle', reg') /\ (raised' = raised \/ OneMore) /\ Settled(t)
           /\ \A f \in Feeds \ {"tpms"} : handle'[f] = h[f] /\ reg'[f] = r[f]
           /\ Went("tpms", t, h["tpms"], r["tpms"])
           /\ debounce' \in {"ready", "cooldown", "pending"} /\ down' \in {down, "done"}
           /\ t \notin {"request", "watchdog"} => debounce' \in {debounce, "ready"}
<1>1. CASE t \in Refreshes
  <2>1. /\ handle' = h /\ reg' = r /\ raised' = raised /\ pc' = [pc EXCEPT ![t] = At("sub", 1)]
        /\ debounce' = debounce /\ down' = down
    BY <1>1, TaskNames DEF Unsubscribed, Refreshes
  <2>2. At("sub", 1) \in [at : Places, n : 0 .. 4] /\ At("sub", 1).at = "sub" /\ At("sub", 1).n = 1
    BY DEF At, Places
  <2>3. PcOK(pc')
    BY <1>1, <2>1, <2>2, TaskNames DEF PcOK, Refreshes
  <2>4. pc'[t] = At("sub", 1) /\ \A q \in Tasks \ {t} : pc'[q] = pc[q]
    BY <2>1 DEF PcOK
  <2> QED
    BY <2>1, <2>2, <2>3, <2>4 DEF Settled, Went
<1>2. CASE t = "watchdog"
  <2> DEFINE pcs == Requested(pc).pc
  <2>1. TpmsTick(h, r, pcs) /\ debounce' = Requested(pc).d /\ down' = down
    BY <1>2, TaskNames DEF Unsubscribed, Refreshes
  <2>2. /\ PcOK(pcs)
        /\ \A q \in Tasks : \/ pcs[q] = pc[q]
                            \/ /\ q = "request" /\ pc[q] = Off /\ debounce = "ready"
                               /\ pcs[q] = At("schedule", 0)
        /\ Requested(pc).d \in {"ready", "cooldown", "pending"}
    BY RequestMoves
  <2> HIDE DEF pcs
  <2>3. /\ PairOK(handle', reg') /\ (raised' = raised \/ OneMore)
        /\ \A f \in Feeds \ {"tpms"} : handle'[f] = h[f] /\ reg'[f] = r[f]
        /\ Went("tpms", "watchdog", h["tpms"], r["tpms"])
        /\ \E s \in {"off", "sleep", "tpmsUnsub", "tpmsSub"} : pc' = [pcs EXCEPT !["watchdog"] = At(s, 0)]
    BY <2>1, <2>2, TickMoves
  <2>4. PICK s \in {"off", "sleep", "tpmsUnsub", "tpmsSub"} : pc' = [pcs EXCEPT !["watchdog"] = At(s, 0)]
    BY <2>3
  <2>5. At(s, 0) \in [at : Places, n : 0 .. 4] /\ At(s, 0).at = s /\ At(s, 0).n = 0
        /\ At("schedule", 0).at = "schedule"
    BY DEF At, Places
  <2>6. PcOK(pc')
    BY <2>2, <2>4, <2>5, TaskNames DEF PcOK, Refreshes
  <2>7. pc'["watchdog"] = At(s, 0) /\ \A q \in Tasks \ {"watchdog"} : pc'[q] = pcs[q]
    BY <2>2, <2>4, TaskNames DEF PcOK
  <2>8. Settled(t)
    BY <1>2, <2>2, <2>5, <2>6, <2>7, TaskNames DEF Settled, Refreshes
  <2> QED
    BY <1>2, <2>1, <2>2, <2>3, <2>8
<1>3. CASE t \in Unsubscribers \cup {"shutdown"}
  <2>1. /\ handle' = h /\ reg' = r /\ raised' = raised /\ pc' = [pc EXCEPT ![t] = Off]
        /\ debounce' \in {"ready", debounce} /\ down' \in {"done", down}
    BY <1>3, TaskNames DEF Unsubscribed, Refreshes
  <2>2. Off \in [at : Places, n : 0 .. 4] /\ Off.at = "off" /\ Off.n = 0
    BY DEF At, Off, Places
  <2>3. PcOK(pc')
    BY <1>3, <2>1, <2>2, TaskNames DEF PcOK, Refreshes
  <2>4. pc'[t] = Off /\ \A q \in Tasks \ {t} : pc'[q] = pc[q]
    BY <2>1 DEF PcOK
  <2> QED
    BY <1>3, <2>1, <2>2, <2>3, <2>4, TaskNames DEF Settled, Refreshes, Went
<1> QED
  BY <1>1, <1>2, <1>3, TaskNames DEF Refreshes

(* What _unsubscribe in task t does to the pair, from the i-th feed on and *)
(* with handles h: up to the j-th feed the handles are dropped; there it   *)
(* returns (j = 5), or that handle has deleted its id and is suspended in  *)
(* its write or has raised.                                                *)
RunsTo(t, i, j, h) ==
    /\ PairOK(handle', reg') /\ PcOK(pc')
    /\ \A f \in Feeds : Went(f, t, h[f], reg[f])
    /\ \A f \in Feeds \ {"tpms"} : handle'[f] = IF i <= Pos(f) /\ Pos(f) < j THEN None ELSE h[f]
    /\ \/ j = 5 /\ (raised' = raised \/ OneMore) /\ Settled(t)
       \/ j < 5 /\ raised' = raised /\ pc' = [pc EXCEPT ![t] = At("unsub", j)]
       \/ j < 5 /\ OneMore /\ pc' = [pc EXCEPT ![t] = Off]
    /\ debounce' \in {"ready", "cooldown", "pending"} /\ down' \in {down, "done"}
    /\ t \notin {"request", "watchdog"} => debounce' \in {debounce, "ready"}

(* _initial goes with the handle of the vehicle feed.                      *)
FlagsAfter(i, j, h, ini) ==
    /\ initial' \in BOOLEAN /\ lastOk' \in BOOLEAN
    /\ initial' => ini
    /\ initial' /\ i <= 3 /\ 3 < j => h["vehicle"] = None

LEMMA UnsubscribeRuns ==
    ASSUME FeedTypeOK, FlagsOK, NEW t \in Tasks, NEW i \in 1 .. 5, NEW h, NEW ini \in BOOLEAN,
           h \in [Feeds -> Ids \cup {None}], Unsubscribe(t, i, h, ini)
    PROVE  \E j \in i .. 5 : RunsTo(t, i, j, h) /\ FlagsAfter(i, j, h, ini)
<1> DEFINE ran(j) == {UnsubOrder[m] : m \in i .. (j - 1)}
           deleted(j) == {UnsubOrder[m] : m \in i .. (IF j = 5 THEN 4 ELSE j)}
           left(j) == [f \in Feeds |-> IF f \in ran(j) THEN None ELSE h[f]]
           kept(j) == [f \in Feeds |-> IF f \in deleted(j) THEN reg[f] \ {h[f]} ELSE reg[f]]
<1>1. PICK j \in i .. 5 :
          /\ initial' = InitialAfter(ini, ran(j), h)
          /\ \/ j = 5 /\ Unsubscribed(t, left(j), kept(j)) /\ UNCHANGED lastOk
             \/ /\ j < 5 /\ handle' = left(j) /\ reg' = kept(j)
                /\ \/ pc' = [pc EXCEPT ![t] = At("unsub", j)] /\ UNCHANGED <<debounce, down, raised, lastOk>>
                   \/ UnsubscribeRaised(t) /\ lastOk' = (lastOk /\ t \notin Refreshes)
  BY Zenon DEF Unsubscribe
<1>2. j \in 1 .. 5 /\ i <= j
  OBVIOUS
<1>3. \A f \in Feeds : f \in ran(j) <=> i <= Pos(f) /\ Pos(f) < j
  <2> SUFFICES ASSUME NEW f \in Feeds
               PROVE  f \in ran(j) <=> i <= Pos(f) /\ Pos(f) < j
    OBVIOUS
  <2>1. f \in ran(j) => i <= Pos(f) /\ Pos(f) < j
    <3> SUFFICES ASSUME NEW m \in i .. (j - 1), f = UnsubOrder[m]
                 PROVE  i <= Pos(f) /\ Pos(f) < j
      OBVIOUS
    <3>1. m \in 1 .. 4
      BY <1>2
    <3> QED
      BY <1>2, <3>1, Orders
  <2>2. i <= Pos(f) /\ Pos(f) < j => f \in ran(j)
    <3>1. i <= Pos(f) /\ Pos(f) < j => Pos(f) \in i .. (j - 1)
      BY <1>2, Orders
    <3> QED
      BY <3>1, Orders
  <2> QED
    BY <2>1, <2>2
<1>4. \A f \in Feeds : f \in deleted(j) <=> i <= Pos(f) /\ Pos(f) <= j
  <2> SUFFICES ASSUME NEW f \in Feeds
               PROVE  f \in deleted(j) <=> i <= Pos(f) /\ Pos(f) <= j
    OBVIOUS
  <2>1. f \in deleted(j) => i <= Pos(f) /\ Pos(f) <= j
    <3> SUFFICES ASSUME NEW m \in i .. (IF j = 5 THEN 4 ELSE j), f = UnsubOrder[m]
                 PROVE  i <= Pos(f) /\ Pos(f) <= j
      OBVIOUS
    <3>1. m \in 1 .. 4 /\ i <= m /\ m <= j
      BY <1>2
    <3> QED
      BY <1>2, <3>1, Orders
  <2>2. i <= Pos(f) /\ Pos(f) <= j => f \in deleted(j)
    <3>1. i <= Pos(f) /\ Pos(f) <= j => Pos(f) \in i .. (IF j = 5 THEN 4 ELSE j)
      BY <1>2, Orders
    <3> QED
      BY <3>1, Orders
  <2> QED
    BY <2>1, <2>2
<1>5. PairOK(left(j), kept(j))
  BY DEF PairOK, FeedTypeOK
<1>6. \A f \in Feeds :
          /\ left(j)[f] = IF i <= Pos(f) /\ Pos(f) < j THEN None ELSE h[f]
          /\ kept(j)[f] = IF i <= Pos(f) /\ Pos(f) <= j THEN reg[f] \ {h[f]} ELSE reg[f]
  BY <1>3, <1>4
<1>11. FlagsAfter(i, j, h, ini)
  <2>1. "vehicle" \in Feeds /\ Pos("vehicle") = 3
    BY DEF Feeds, Pos
  <2>2. i <= 3 /\ 3 < j => "vehicle" \in ran(j)
    BY <1>3, <2>1
  <2> HIDE DEF ran, deleted, left, kept
  <2>3. lastOk' \in BOOLEAN
    <3>1. lastOk' = lastOk \/ lastOk' = (lastOk /\ t \notin Refreshes)
      BY <1>1, Zenon
    <3>2. (t \notin Refreshes) \in BOOLEAN /\ lastOk \in BOOLEAN
      BY DEF FlagsOK
    <3> QED
      BY <3>1, <3>2, Zenon
  <2>4. initial' = (ini /\ ("vehicle" \in ran(j) => h["vehicle"] = None))
    BY <1>1, Zenon DEF InitialAfter
  <2>5. initial' \in BOOLEAN /\ (initial' => ini) /\ (initial' /\ "vehicle" \in ran(j) => h["vehicle"] = None)
    BY <2>4, Zenon
  <2> QED
    BY <2>2, <2>3, <2>5 DEF FlagsAfter
<1> HIDE DEF ran, deleted, left, kept
<1>7. \A f \in Feeds :
          \/ left(j)[f] = h[f] /\ kept(j)[f] = reg[f]
          \/ left(j)[f] = None /\ kept(j)[f] = reg[f] \ {h[f]}
          \/ j < 5 /\ Pos(f) = j /\ left(j)[f] = h[f] /\ kept(j)[f] = reg[f] \ {h[f]}
  <2> SUFFICES ASSUME NEW f \in Feeds
               PROVE  \/ left(j)[f] = h[f] /\ kept(j)[f] = reg[f]
                      \/ left(j)[f] = None /\ kept(j)[f] = reg[f] \ {h[f]}
                      \/ j < 5 /\ Pos(f) = j /\ left(j)[f] = h[f] /\ kept(j)[f] = reg[f] \ {h[f]}
    OBVIOUS
  <2> DEFINE n == Pos(f)  x == h[f]  y == reg[f]  v == left(j)[f]  w == kept(j)[f]
  <2>1. n \in 1 .. 4
    BY Orders
  <2>2. /\ v = IF i <= n /\ n < j THEN None ELSE x
        /\ w = IF i <= n /\ n <= j THEN y \ {x} ELSE y
    BY <1>6
  <2>3. \/ v = x /\ w = y
        \/ v = None /\ w = y \ {x}
        \/ j < 5 /\ n = j /\ v = x /\ w = y \ {x}
    <3> HIDE DEF n, x, y, v, w
    <3> QED
      BY <1>2, <2>1, <2>2
  <2> QED
    BY <2>3
<1>8. CASE j = 5 /\ Unsubscribed(t, left(j), kept(j))
  <2>1. PcOK(pc) /\ debounce \in {"ready", "cooldown", "pending"} /\ down \in {"no", "begun", "done"}
    BY DEF FeedTypeOK, FlagsOK
  <2>2. /\ PairOK(handle', reg') /\ (raised' = raised \/ OneMore) /\ Settled(t)
        /\ \A f \in Feeds \ {"tpms"} : handle'[f] = left(j)[f] /\ reg'[f] = kept(j)[f]
        /\ Went("tpms", t, left(j)["tpms"], kept(j)["tpms"])
        /\ debounce' \in {"ready", "cooldown", "pending"} /\ down' \in {down, "done"}
        /\ t \notin {"request", "watchdog"} => debounce' \in {debounce, "ready"}
    BY <1>5, <1>8, <2>1, ReturnSettles
  <2>3. \A f \in Feeds \ {"tpms"} : Went(f, t, h[f], reg[f])
    BY <1>7, <1>8, <2>2 DEF Went
  <2>4. /\ \/ left(j)["tpms"] = h["tpms"] /\ kept(j)["tpms"] = reg["tpms"]
           \/ left(j)["tpms"] = None /\ kept(j)["tpms"] = reg["tpms"] \ {h["tpms"]}
        /\ kept(j)["tpms"] \ {None} = kept(j)["tpms"]
    <3>1. kept(j)["tpms"] \in SUBSET Ids
      BY <1>5, TpmsFeed DEF PairOK
    <3> QED
      BY <1>7, <1>8, <3>1, TpmsFeed, NotAnId
  <2>5. Went("tpms", t, h["tpms"], reg["tpms"])
    BY <2>2, <2>4 DEF Went
  <2>6. \A f \in Feeds \ {"tpms"} : handle'[f] = IF i <= Pos(f) /\ Pos(f) < j THEN None ELSE h[f]
    BY <1>6, <2>2
  <2> QED
    BY <1>8, <1>11, <2>2, <2>3, <2>5, <2>6 DEF RunsTo, Settled
<1>9. CASE /\ j < 5 /\ handle' = left(j) /\ reg' = kept(j)
           /\ pc' = [pc EXCEPT ![t] = At("unsub", j)] /\ UNCHANGED <<debounce, down, raised, lastOk>>
  <2>1. At("unsub", j) \in [at : Places, n : 0 .. 4] /\ At("unsub", j).at = "unsub" /\ At("unsub", j).n = j
        /\ j > 0
    BY <1>2, <1>9 DEF At, Places
  <2>2. PcOK(pc')
    BY <1>9, <2>1, TaskNames DEF PcOK, Refreshes, FeedTypeOK
  <2>3. debounce' \in {"ready", "cooldown", "pending"} /\ down' \in {down, "done"} /\ raised' = raised
        /\ debounce' = debounce
    BY <1>9 DEF FlagsOK
  <2>4. \A f \in Feeds : Pos(f) = j => WrittenBy(f, t)'
    BY <1>9, <2>1 DEF WrittenBy, FeedTypeOK, PcOK
  <2>5. \A f \in Feeds : Went(f, t, h[f], reg[f])
    BY <1>7, <1>9, <2>4 DEF Went
  <2> QED
    BY <1>11, <1>5, <1>6, <1>9, <2>2, <2>3, <2>5 DEF RunsTo
<1>10. CASE j < 5 /\ handle' = left(j) /\ reg' = kept(j) /\ UnsubscribeRaised(t)
  <2>1. Off \in [at : Places, n : 0 .. 4] /\ Off.at = "off" /\ Off.n = 0
    BY DEF At, Off, Places
  <2>2. pc' = [pc EXCEPT ![t] = Off] /\ debounce' = Ended(t) /\ down' = down
    BY <1>10 DEF UnsubscribeRaised
  <2>3. OneMore
    BY <1>10, Zenon DEF UnsubscribeRaised, WriteRaises, OneMore
  <2>4. PcOK(pc')
    BY <2>1, <2>2, TaskNames DEF PcOK, Refreshes, FeedTypeOK
  <2>5. debounce' \in {"ready", "cooldown", "pending"} /\ (t # "request" => debounce' = debounce)
    BY <2>2 DEF FlagsOK, Ended
  <2>6. \A f \in Feeds : Went(f, t, h[f], reg[f])
    BY <1>7, <1>10, <2>3 DEF Went
  <2> QED
    BY <1>11, <1>5, <1>6, <1>10, <2>2, <2>3, <2>4, <2>5, <2>6 DEF RunsTo
<1> QED
  BY <1>1, <1>8, <1>9, <1>10, <1>11, Zenon

-----------------------------------------------------------------------------
(* One more id without a handle for each write that raised.                *)
LEMMA CountKept ==
    ASSUME raised \in 0 .. MaxRaises, NEW A \in SUBSET Ids, NEW B \in SUBSET Ids, Cardinality(A) <= raised,
           \/ B \subseteq A /\ (raised' = raised \/ OneMore)
           \/ OneMore /\ \E i \in Ids : B \subseteq A \cup {i}
    PROVE  Cardinality(B) <= raised'
<1>1. IsFiniteSet(A) /\ Cardinality(A) \in Nat /\ IsFiniteSet(B) /\ Cardinality(B) \in Nat
  BY NotAnId, FS_Subset, FS_CardinalityType
<1>2. raised \in Nat /\ (OneMore => raised' = raised + 1)
  BY FeedAssumption DEF FeedAssumption, OneMore
<1>3. CASE B \subseteq A /\ (raised' = raised \/ OneMore)
  <2>1. Cardinality(B) <= Cardinality(A)
    BY <1>1, <1>3, FS_Subset
  <2> QED
    BY <1>1, <1>2, <1>3, <2>1
<1>4. ASSUME OneMore, NEW i \in Ids, B \subseteq A \cup {i}
      PROVE  Cardinality(B) <= raised'
  <2>1. IsFiniteSet(A \cup {i}) /\ Cardinality(A \cup {i}) \in {Cardinality(A), Cardinality(A) + 1}
    BY <1>1, FS_AddElement
  <2>2. Cardinality(B) <= Cardinality(A \cup {i}) /\ Cardinality(A \cup {i}) \in Nat
    BY <1>4, <2>1, FS_Subset, FS_CardinalityType
  <2> QED
    BY <1>1, <1>2, <1>4, <2>1, <2>2
<1> QED
  BY <1>3, <1>4

(* A step that subscribes no feed may drop the handle of f, with its id or *)
(* with a note that this is lost, or the id alone while the end is written *)
(* or after the write has raised.                                          *)
Quiet(f) ==
    /\ handle'[f] \in {handle[f], None} /\ reg'[f] \in {reg[f], reg[f] \ {handle[f]}}
    /\ lost[f] \subseteq lost'[f]
    /\ f # "tpms" /\ handle'[f] = None => handle[f] \notin reg'[f] \/ handle[f] \in lost'[f]
    /\ handle'[f] = handle[f] /\ handle[f] \in reg[f] =>
          handle[f] \in reg'[f] \/ raised' # 0 \/ \E t \in Tasks : WrittenBy(f, t)'
    /\ \A t \in Tasks : WrittenBy(f, t) =>
          handle'[f] = None \/ WrittenBy(f, t)' \/ raised' # 0 \/ down' # "no"

LEMMA QuietKeeps ==
    ASSUME FeedTypeOK, PairInv, \A f \in Feeds : Quiet(f), raised' = raised \/ OneMore,
           down' = "no" => down = "no", lost' \in [Feeds -> SUBSET Ids],
           \A t \in Refreshes : pc'[t] = pc[t] \/ Bare(t)'
    PROVE  PairInv' /\ raised' \in 0 .. MaxRaises
<1>1. /\ \A f \in Feeds : reg[f] \in SUBSET Ids /\ reg'[f] \in SUBSET Ids /\ handle[f] \in Ids \cup {None}
      /\ \A f \in Feeds : lost[f] \in SUBSET Ids /\ lost'[f] \in SUBSET Ids
  BY DEF FeedTypeOK, PairOK, Quiet
<1>2. raised \in 0 .. MaxRaises /\ raised \in Nat /\ MaxRaises \in Nat
  BY FeedAssumption DEF FeedTypeOK, FeedAssumption
<1>3. raised' \in 0 .. MaxRaises /\ (raised' = 0 => raised = 0)
  BY <1>2 DEF OneMore
<1>4. NoOrphanFeed'
  <2> SUFFICES ASSUME NEW f \in Feeds \ {"tpms"}
               PROVE  Cardinality(reg'[f] \ ({handle'[f]} \cup lost'[f])) <= raised'
    BY DEF NoOrphanFeed
  <2>1. reg'[f] \ ({handle'[f]} \cup lost'[f]) \subseteq reg[f] \ ({handle[f]} \cup lost[f])
    BY <1>1, NotAnId DEF Quiet
  <2>2. Cardinality(reg[f] \ ({handle[f]} \cup lost[f])) <= raised
    BY DEF PairInv, NoOrphanFeed
  <2> QED
    BY <1>1, <1>2, <2>1, <2>2, CountKept
<1>5. LiveOrWritten'
  BY <1>1, <1>3 DEF PairInv, LiveOrWritten, Quiet
<1>6. BareBehind'
  <2> SUFFICES ASSUME NEW t \in Refreshes, pc'[t] = pc[t]
               PROVE  Bare(t)'
    BY DEF BareBehind
  <2> QED
    BY <1>1 DEF PairInv, BareBehind, Bare, Quiet
<1> QED
  BY <1>3, <1>4, <1>5, <1>6 DEF PairInv

(* A step that leaves the pair alone.                                      *)
LEMMA RestKeeps ==
    ASSUME FeedTypeOK, PairInv, UNCHANGED <<handle, reg, raised, lost>>, PcOK(pc'),
           down' = "no" => down = "no",
           \A t \in Tasks : \/ pc'[t] = pc[t]
                            \/ /\ pc'[t].at \notin {"unsub", "tpmsUnsub", "sub"}
                               /\ pc[t].at \notin {"unsub", "tpmsUnsub"} \/ down' # "no"
    PROVE  PairInv' /\ FeedTypeOK'
<1>1. \A f \in Feeds : Quiet(f)
  <2> SUFFICES ASSUME NEW f \in Feeds
               PROVE  Quiet(f)
    OBVIOUS
  <2>1. handle' = handle /\ reg' = reg /\ lost' = lost
    OBVIOUS
  <2>2. handle[f] = None => handle[f] \notin reg[f]
    BY NotAnId DEF FeedTypeOK, PairOK
  <2>3. \A t \in Tasks : WrittenBy(f, t) => WrittenBy(f, t)' \/ down' # "no"
    BY DEF WrittenBy
  <2> QED
    BY <2>1, <2>2, <2>3 DEF Quiet
<1>2. \A t \in Refreshes : pc'[t] = pc[t] \/ Bare(t)'
  BY TaskNames DEF Bare, Refreshes
<1>3. raised' = raised /\ PairOK(handle', reg') /\ lost' \in [Feeds -> SUBSET Ids]
  BY DEF FeedTypeOK
<1> QED
  BY <1>1, <1>2, <1>3, QuietKeeps DEF FeedTypeOK

(* A task that left feed f's pair alone, dropped it or ended its id, from  *)
(* the handle it found or had just cleared, has been quiet about it.       *)
LEMMA WentIsQuiet ==
    ASSUME FeedTypeOK, NEW f \in Feeds, NEW t \in Tasks, NEW x, Went(f, t, x, reg[f]),
           \/ x = handle[f]
           \/ x = None /\ (f # "tpms" => handle[f] \notin reg[f] \/ handle[f] \in lost'[f]),
           lost[f] \subseteq lost'[f],
           WrittenBy(f, t) => x = None \/ raised' # 0 \/ down' # "no",
           \A q \in Tasks \ {t} : WrittenBy(f, q) => WrittenBy(f, q)'
    PROVE  Quiet(f)
<1>1. reg[f] \in SUBSET Ids /\ handle[f] \in Ids \cup {None} /\ None \notin reg[f] /\ reg[f] \ {None} = reg[f]
  BY NotAnId DEF FeedTypeOK, PairOK
<1>2. OneMore => raised' # 0
  BY FeedAssumption DEF OneMore, FeedTypeOK, FeedAssumption
<1>3. handle'[f] \in {handle[f], None} /\ reg'[f] \in {reg[f], reg[f] \ {handle[f]}}
  BY <1>1 DEF Went
<1>4. f # "tpms" /\ handle'[f] = None => handle[f] \notin reg'[f] \/ handle[f] \in lost'[f]
  BY <1>1 DEF Went
<1>5. handle'[f] = handle[f] /\ handle[f] \in reg[f] =>
          handle[f] \in reg'[f] \/ raised' # 0 \/ \E q \in Tasks : WrittenBy(f, q)'
  BY <1>1, <1>2 DEF Went
<1>6. \A q \in Tasks : WrittenBy(f, q) =>
          handle'[f] = None \/ WrittenBy(f, q)' \/ raised' # 0 \/ down' # "no"
  BY DEF Went
<1> QED
  BY <1>3, <1>4, <1>5, <1>6 DEF Quiet

(* _unsubscribe starts with the handles there are, or goes on after a      *)
(* suspension without the one of the feed it was suspended at.             *)
RunsFrom(t, i, h) ==
    /\ lost' \in [Feeds -> SUBSET Ids]
    /\ \A f \in Feeds : /\ lost[f] \subseteq lost'[f]
                        /\ \/ h[f] = handle[f]
                           \/ /\ h[f] = None
                              /\ f # "tpms" => handle[f] \notin reg[f] \/ handle[f] \in lost'[f]
                        /\ WrittenBy(f, t) => h[f] = None
    /\ t \in Refreshes => \A f \in Feeds \ {"tpms"} : Pos(f) < i => h[f] = None

LEMMA RunIsQuiet ==
    ASSUME FeedTypeOK, PairInv, NEW t \in Tasks, NEW i \in 1 .. 5, NEW j \in i .. 5, NEW h,
           RunsFrom(t, i, h), RunsTo(t, i, j, h)
    PROVE  PairInv' /\ FeedTypeOK'
<1>1. PairOK(handle', reg') /\ PcOK(pc') /\ PcOK(pc) /\ lost' \in [Feeds -> SUBSET Ids]
  BY DEF RunsTo, RunsFrom, FeedTypeOK
<1>2. At("unsub", j).at = "unsub" /\ At("unsub", j).n = j /\ Off.at = "off" /\ At("sub", 1).at = "sub"
      /\ At("sub", 1).n = 1
  BY DEF At, Off
<1>3. /\ raised' = raised \/ OneMore
      /\ j < 5 => pc'[t] = At("unsub", j) \/ pc'[t] = Off
      /\ j = 5 /\ t \in Refreshes => pc'[t] = At("sub", 1)
      /\ \A q \in Tasks \ {t} : pc'[q] = pc[q] \/ (pc[q] = Off /\ pc'[q].at = "schedule")
  BY <1>1 DEF RunsTo, Settled, PcOK
<1>4. \A q \in Tasks \ {t}, f \in Feeds : WrittenBy(f, q) => WrittenBy(f, q)'
  BY <1>2, <1>3 DEF WrittenBy
<1>5. ASSUME NEW f \in Feeds
      PROVE  Quiet(f)
  <2>1. Went(f, t, h[f], reg[f])
    BY DEF RunsTo
  <2>2. /\ lost[f] \subseteq lost'[f]
        /\ \/ h[f] = handle[f]
           \/ h[f] = None /\ (f # "tpms" => handle[f] \notin reg[f] \/ handle[f] \in lost'[f])
        /\ WrittenBy(f, t) => h[f] = None
    BY DEF RunsFrom
  <2> DEFINE x == h[f]
  <2> HIDE DEF x
  <2>3. /\ Went(f, t, x, reg[f])
        /\ \/ x = handle[f]
           \/ x = None /\ (f # "tpms" => handle[f] \notin reg[f] \/ handle[f] \in lost'[f])
        /\ WrittenBy(f, t) => x = None \/ raised' # 0 \/ down' # "no"
    BY <2>1, <2>2 DEF x
  <2> QED
    BY <1>4, <2>2, <2>3, WentIsQuiet
<1>6. \A q \in Refreshes : pc'[q] = pc[q] \/ Bare(q)'
  <2>1. \A q \in Refreshes : q \in Tasks
    BY TaskNames DEF Refreshes
  <2>2. \A q \in Refreshes \ {t} : pc'[q] = pc[q] \/ Bare(q)'
    BY <1>3, <2>1 DEF Bare
  <2>3. ASSUME t \in Refreshes, NEW f \in Feeds \ {"tpms"}, Pos(f) < j
        PROVE  handle'[f] = None
    <3>1. handle'[f] = IF i <= Pos(f) /\ Pos(f) < j THEN None ELSE h[f]
      BY DEF RunsTo
    <3>2. Pos(f) < i => h[f] = None
      BY <2>3 DEF RunsFrom
    <3>3. Pos(f) < i \/ i <= Pos(f)
      BY Orders
    <3> QED
      BY <2>3, <3>1, <3>2, <3>3, Zenon
  <2>4. CASE j < 5
    BY <1>2, <1>3, <2>2, <2>3, <2>4 DEF Bare
  <2>5. CASE j = 5
    <3>1. t \in Refreshes => \A f \in Feeds \ {"tpms"} : handle'[f] = None
      BY <2>3, <2>5, Orders
    <3> QED
      BY <2>2, <3>1 DEF Bare
  <2> QED
    BY <2>4, <2>5
<1>7. down' = "no" => down = "no"
  BY DEF RunsTo
<1> QED
  BY <1>1, <1>3, <1>5, <1>6, <1>7, QuietKeeps DEF FeedTypeOK
(* _unsubscribe keeps the invariant in whatever task, from its start or    *)
(* after a suspension.                                                     *)
LEMMA UnsubscribeKeeps ==
    ASSUME FeedInv, NEW t \in Tasks, NEW i \in 1 .. 5, NEW h, NEW ini \in BOOLEAN,
           h \in [Feeds -> Ids \cup {None}], RunsFrom(t, i, h),
           ini => initial, ini /\ raised = 0 /\ lost'["vehicle"] = {} => h["vehicle"] # None,
           t = "watchdog" => pc["poll"].at = "off" /\ (stale => ~asleep),
           t = "poll" => pc["poll"].at # "off",
           t = "request" => pc["request"].at # "off",
           Unsubscribe(t, i, h, ini), UNCHANGED <<mute, stale, tpmsAge, asleep, framed>>
    PROVE  FeedInv'
<1>2. PICK j \in i .. 5 : RunsTo(t, i, j, h) /\ FlagsAfter(i, j, h, ini)
  BY UnsubscribeRuns DEF FeedInv
<1>3. PairInv' /\ FeedTypeOK'
  BY <1>2, RunIsQuiet DEF FeedInv
<1>4. FlagsOK'
  <2>1. /\ initial' \in BOOLEAN /\ lastOk' \in BOOLEAN
        /\ debounce' \in {"ready", "cooldown", "pending"} /\ down' \in {down, "done"}
    BY <1>2, Zenon DEF RunsTo, FlagsAfter
  <2> QED
    BY <2>1 DEF FeedInv, FlagsOK
<1>5. raised' = 0 => raised = 0
  BY <1>2, FeedAssumption DEF RunsTo, OneMore, FeedInv, FeedTypeOK, FeedAssumption
<1>1. "vehicle" \in Feeds \ {"tpms"} /\ Pos("vehicle") = 3 /\ lost["vehicle"] \subseteq lost'["vehicle"]
  BY DEF Feeds, Pos, RunsFrom
<1>6. /\ At("unsub", j).at = "unsub" /\ Off.at = "off" /\ At("sub", 1).at = "sub"
  BY DEF At, Off
<1>7. /\ pc'[t].at \notin {"wait", "woken"} \/ pc'[t] = pc[t] \/ t \notin Refreshes
      /\ \A q \in Tasks \ {t} : \/ pc'[q] = pc[q]
                                \/ q = "request" /\ t = "watchdog" /\ pc[q] = Off /\ pc'[q].at = "schedule"
  BY <1>2, <1>6 DEF RunsTo, Settled, FeedInv, FeedTypeOK, PcOK
<1>8. InitialIsFresh'
  <2>2. handle'["vehicle"] = IF i <= 3 /\ 3 < j THEN None ELSE h["vehicle"]
    BY <1>1, <1>2 DEF RunsTo
  <2>3. /\ initial' => ini
        /\ initial' /\ i <= 3 /\ 3 < j => h["vehicle"] = None
    BY <1>2 DEF FlagsAfter
  <2>4. framed' = framed
    OBVIOUS
  <2>5. lost'["vehicle"] = {} => lost["vehicle"] = {}
    BY <1>1
  <2> QED
    BY <1>5, <2>2, <2>3, <2>4, <2>5 DEF FeedInv, InitialIsFresh
<1>9. FreshStart'
  <2>1. lost'["vehicle"] = {} => lost["vehicle"] = {}
    BY <1>1
  <2> QED
    BY <1>5, <1>7, <2>1, TaskNames DEF FeedInv, FreshStart, Refreshes
<1>10. OneRefresh'
  <2>1. stale' = stale /\ asleep' = asleep
    OBVIOUS
  <2>2. t \notin {"request", "watchdog"} => debounce' \in {debounce, "ready"}
    BY <1>2 DEF RunsTo
  <2>3. /\ "poll" \in Tasks /\ "request" \in Tasks /\ "watchdog" \in Tasks
        /\ \A q \in Tasks \ {t, "request"} : pc'[q] = pc[q]
        /\ t # "watchdog" /\ t # "request" => pc'["request"] = pc["request"]
    BY <1>7, TaskNames
  <2>4. CASE t = "watchdog"
    <3>1. pc'["poll"].at = "off"
      BY <2>3, <2>4
    <3> QED
      BY <2>1, <2>4, <3>1 DEF OneRefresh
  <2>5. CASE t # "watchdog"
    <3>1. pc'["watchdog"] = pc["watchdog"]
      BY <2>3, <2>5
    <3>2. CASE t = "request"
      <4>1. pc'["poll"].at = "off"
        BY <2>3, <3>2 DEF FeedInv, OneRefresh
      <4> QED
        BY <2>1, <3>1, <4>1 DEF FeedInv, OneRefresh
    <3>3. CASE t # "request"
      <4>1. debounce' \in {debounce, "ready"} /\ pc'["request"] = pc["request"]
        BY <2>2, <2>3, <2>5, <3>3
      <4>2. pc'["poll"].at # "off" => pc["poll"].at # "off"
        BY <2>3, <3>3
      <4> QED
        BY <2>1, <3>1, <4>1, <4>2 DEF FeedInv, OneRefresh
    <3> QED
      BY <3>2, <3>3
  <2> QED
    BY <2>4, <2>5
<1> QED
  BY <1>3, <1>4, <1>8, <1>9, <1>10 DEF FeedInv
-----------------------------------------------------------------------------
(* The steps that run _unsubscribe.                                        *)
LEMMA StartRuns ==
    ASSUME FeedTypeOK, NEW t \in Tasks, pc[t].at \notin {"unsub", "tpmsUnsub"}, lost' = lost
    PROVE  RunsFrom(t, 1, handle)
<1>1. \A f \in Feeds : ~(Pos(f) < 1)
  BY Orders
<1>2. \A f \in Feeds : ~WrittenBy(f, t)
  BY DEF WrittenBy
<1> QED
  BY <1>1, <1>2 DEF RunsFrom, FeedTypeOK

(* _unsubscribe begins in a task that is not suspended in a write.         *)
LEMMA StartKeeps ==
    ASSUME FeedInv, NEW t \in Tasks, pc[t].at \notin {"unsub", "tpmsUnsub"},
           t = "watchdog" => pc["poll"].at = "off" /\ (stale => ~asleep),
           t = "poll" => pc["poll"].at # "off",
           t = "request" => pc["request"].at # "off",
           Unsubscribe(t, 1, handle, initial), UNCHANGED <<mute, stale, tpmsAge, asleep, framed, lost>>
    PROVE  FeedInv'
<1>1. RunsFrom(t, 1, handle) /\ handle \in [Feeds -> Ids \cup {None}]
  BY StartRuns DEF FeedInv, FeedTypeOK, PairOK
<1>2. initial \in BOOLEAN /\ (initial /\ raised = 0 /\ lost'["vehicle"] = {} => handle["vehicle"] # None)
  BY DEF FeedInv, FlagsOK, InitialIsFresh
<1>3. 1 \in 1 .. 5
  OBVIOUS
<1> QED
  BY <1>1, <1>2, <1>3, UnsubscribeKeeps

(* What the handle of feed g held, if registered, counts as lost.          *)
LEMMA OverwrittenIs ==
    ASSUME FeedTypeOK, NEW g \in Feeds
    PROVE  /\ Overwritten(g) \in [Feeds -> SUBSET Ids]
           /\ \A f \in Feeds : lost[f] \subseteq Overwritten(g)[f]
           /\ g # "tpms" => handle[g] \notin reg[g] \/ handle[g] \in Overwritten(g)[g]
<1>1. /\ lost \in [Feeds -> SUBSET Ids] /\ reg[g] \in SUBSET Ids
  BY DEF FeedTypeOK, PairOK
<1> QED
  BY <1>1 DEF Overwritten

LEMMA ResumeRuns ==
    ASSUME FeedTypeOK, BareBehind, NEW t \in Tasks, pc[t].at = "unsub", NEW n \in 1 .. 4, pc[t].n = n,
           lost' = Overwritten(UnsubOrder[n])
    PROVE  RunsFrom(t, n + 1, [handle EXCEPT ![UnsubOrder[n]] = None])
<1> DEFINE g == UnsubOrder[n]  h == [handle EXCEPT ![g] = None]
<1>1. g \in Feeds /\ Pos(g) = n /\ \A f \in Feeds : Pos(f) \in 1 .. 4 /\ UnsubOrder[Pos(f)] = f
  BY Orders
<1>2. \A f \in Feeds : WrittenBy(f, t) <=> f = g
  BY <1>1 DEF WrittenBy
<1>3. \A f \in Feeds : h[f] = IF f = g THEN None ELSE handle[f]
  BY <1>1 DEF FeedTypeOK, PairOK
<1>4. /\ lost' \in [Feeds -> SUBSET Ids]
      /\ \A f \in Feeds : lost[f] \subseteq lost'[f]
      /\ g # "tpms" => handle[g] \notin reg[g] \/ handle[g] \in lost'[g]
  BY <1>1, OverwrittenIs
<1> HIDE DEF g, h
<1>5. t \in Refreshes => \A f \in Feeds \ {"tpms"} : Pos(f) < n + 1 => h[f] = None
  <2> SUFFICES ASSUME t \in Refreshes, NEW f \in Feeds \ {"tpms"}, Pos(f) < n + 1
               PROVE  h[f] = None
    OBVIOUS
  <2>1. Pos(f) < n \/ Pos(f) = n
    BY <1>1
  <2>2. Pos(f) < n => handle[f] = None
    BY DEF BareBehind, Bare
  <2>3. Pos(f) = n => f = g
    BY <1>1 DEF g
  <2> QED
    BY <1>3, <2>1, <2>2, <2>3
<1>6. RunsFrom(t, n + 1, h)
  BY <1>2, <1>3, <1>4, <1>5 DEF RunsFrom
<1> QED
  BY <1>6 DEF h, g

(* A write has raised: its task ends and leaves the pair as it is.         *)
LEMMA RaiseKeeps ==
    ASSUME FeedInv, NEW t \in Tasks, OneMore, pc' = [pc EXCEPT ![t] = Off], debounce' = Ended(t),
           lastOk' \in BOOLEAN, t = "request" => pc["request"].at # "off",
           UNCHANGED <<handle, reg, initial, down, mute, stale, tpmsAge, asleep, framed, lost>>
    PROVE  FeedInv'
<1>1. Off \in [at : Places, n : 0 .. 4] /\ Off.at = "off" /\ Off.n = 0
  BY DEF At, Off, Places
<1>2. PcOK(pc')
  BY <1>1, TaskNames DEF PcOK, Refreshes, FeedTypeOK, FeedInv
<1>3. pc'[t] = Off /\ \A q \in Tasks \ {t} : pc'[q] = pc[q]
  BY DEF FeedInv, FeedTypeOK, PcOK
<1>4. raised' # 0
  BY FeedAssumption DEF OneMore, FeedInv, FeedTypeOK, FeedAssumption
<1>5. \A f \in Feeds : Quiet(f)
  <2> SUFFICES ASSUME NEW f \in Feeds
               PROVE  Quiet(f)
    OBVIOUS
  <2>1. handle[f] = None => handle[f] \notin reg[f]
    BY NotAnId DEF FeedInv, FeedTypeOK, PairOK
  <2> QED
    BY <1>4, <2>1 DEF Quiet
<1>6. \A q \in Refreshes : pc'[q] = pc[q] \/ Bare(q)'
  BY <1>1, <1>3, TaskNames DEF Bare, Refreshes
<1>7. PairInv' /\ raised' \in 0 .. MaxRaises
  BY <1>5, <1>6, QuietKeeps DEF FeedInv, FeedTypeOK
<1>8. FlagsOK'
  BY DEF FeedInv, FlagsOK, Ended
<1>9. OneRefresh'
  <2>1. /\ "poll" \in Tasks /\ "request" \in Tasks /\ "watchdog" \in Tasks
        /\ \A q \in Tasks : pc'[q] = pc[q] \/ pc'[q].at = "off"
    BY <1>1, <1>3, TaskNames
  <2>2. pc["poll"].at # "off" => debounce' = debounce
    BY DEF FeedInv, OneRefresh, Ended
  <2> QED
    BY <2>1, <2>2 DEF FeedInv, OneRefresh
<1>10. InitialIsFresh' /\ FreshStart'
  BY <1>4 DEF InitialIsFresh, FreshStart
<1> QED
  BY <1>2, <1>7, <1>8, <1>9, <1>10 DEF FeedInv, FeedTypeOK

LEMMA ResumeKeeps ==
    ASSUME FeedInv, NEW t \in Tasks, UnsubscribeResumes(t)
    PROVE  FeedInv'
<1> DEFINE n == pc[t].n  g == UnsubOrder[n]  h == [handle EXCEPT ![g] = None]
           ini == initial /\ g # "vehicle"
<1>1. /\ pc[t].at = "unsub" /\ UNCHANGED <<mute, stale, tpmsAge, asleep, framed>>
      /\ \/ Unsubscribe(t, n + 1, h, ini) /\ lost' = Overwritten(g)
         \/ UnsubscribeRaised(t) /\ lastOk' = (lastOk /\ t \notin Refreshes) /\ UNCHANGED <<handle, reg, initial, lost>>
  BY Zenon DEF UnsubscribeResumes
<1>2. n \in 1 .. 4
  <2>1. pc[t] \in [at : Places, n : 0 .. 4] /\ pc[t].n > 0
    BY <1>1 DEF FeedInv, FeedTypeOK, PcOK
  <2> QED
    BY <2>1
<1>3. CASE Unsubscribe(t, n + 1, h, ini) /\ lost' = Overwritten(g)
  <2>1. RunsFrom(t, n + 1, h) /\ n + 1 \in 1 .. 5
    <3>1. FeedTypeOK /\ BareBehind
      BY DEF FeedInv, PairInv
    <3>2. RunsFrom(t, n + 1, h)
      BY <1>1, <1>2, <1>3, <3>1, ResumeRuns
    <3> QED
      BY <1>2, <3>2
  <2>2. h \in [Feeds -> Ids \cup {None}]
    BY DEF FeedInv, FeedTypeOK, PairOK
  <2>3. initial \in BOOLEAN
    BY DEF FeedInv, FlagsOK
  <2>4. ini \in BOOLEAN /\ (ini => initial) /\ (ini => g # "vehicle")
    BY <2>3, Zenon
  <2>5. g # "vehicle" => h["vehicle"] = handle["vehicle"]
    BY DEF FeedInv, FeedTypeOK, PairOK, Feeds
  <2>8. lost'["vehicle"] = {} => lost["vehicle"] = {}
    BY <1>2, <1>3, Orders, OverwrittenIs, TpmsFeed DEF FeedInv
  <2>6. ini /\ raised = 0 /\ lost'["vehicle"] = {} => h["vehicle"] # None
    BY <2>4, <2>5, <2>8 DEF FeedInv, InitialIsFresh
  <2>7. /\ t = "watchdog" => pc["poll"].at = "off" /\ (stale => ~asleep)
        /\ t = "poll" => pc["poll"].at # "off"
        /\ t = "request" => pc["request"].at # "off"
    BY <1>1 DEF FeedInv, OneRefresh
  <2> HIDE DEF n, g, h, ini
  <2> QED
    BY <1>1, <1>3, <2>1, <2>2, <2>4, <2>6, <2>7, UnsubscribeKeeps
<1>4. CASE UnsubscribeRaised(t) /\ lastOk' = (lastOk /\ t \notin Refreshes) /\ UNCHANGED <<handle, reg, initial, lost>>
  <2>1. OneMore
    BY <1>4, Zenon DEF UnsubscribeRaised, WriteRaises, OneMore
  <2>2. pc' = [pc EXCEPT ![t] = Off] /\ debounce' = Ended(t) /\ down' = down
    BY <1>4 DEF UnsubscribeRaised
  <2>3. lastOk' \in BOOLEAN
    <3>1. (t \notin Refreshes) \in BOOLEAN
      OBVIOUS
    <3> QED
      BY <1>4, <3>1, Zenon
  <2>4. t = "request" => pc["request"].at # "off"
    BY <1>1
  <2> QED
    BY <1>1, <1>4, <2>1, <2>2, <2>3, <2>4, RaiseKeeps
<1> QED
  BY <1>1, <1>3, <1>4
(* A step that neither changes the pair nor suspends a task in a write nor *)
(* lets one go on with the feeds.                                          *)
LEMMA RestIsKept ==
    ASSUME FeedInv, UNCHANGED <<handle, reg, raised, lost>>, PcOK(pc'), FlagsOK', OneRefresh',
           down' = "no" => down = "no",
           initial' => initial \/ (reg["vehicle"] # {} /\ framed'), framed => framed',
           \A t \in Tasks : \/ pc'[t] = pc[t]
                            \/ /\ pc'[t].at \notin {"unsub", "tpmsUnsub", "sub"}
                               /\ pc[t].at \notin {"unsub", "tpmsUnsub"} \/ down' # "no"
                               /\ pc'[t].at # "woken" \/ framed'
    PROVE  FeedInv'
<1>1. PairInv' /\ FeedTypeOK'
  BY RestKeeps DEF FeedInv
<1>2. raised' = 0 /\ lost["vehicle"] = {} /\ reg["vehicle"] # {} => handle["vehicle"] # None
  <2> SUFFICES ASSUME raised = 0, lost["vehicle"] = {}, reg["vehicle"] # {}, handle["vehicle"] = None
               PROVE  FALSE
    OBVIOUS
  <2>1. /\ reg["vehicle"] \in SUBSET Ids
        /\ reg["vehicle"] \ ({handle["vehicle"]} \cup lost["vehicle"]) = reg["vehicle"]
        /\ "vehicle" \in Feeds \ {"tpms"}
    BY NotAnId DEF FeedInv, FeedTypeOK, PairOK, Feeds
  <2>2. Cardinality(reg["vehicle"]) <= 0
    BY <2>1 DEF FeedInv, PairInv, NoOrphanFeed
  <2>3. IsFiniteSet(reg["vehicle"]) /\ Cardinality(reg["vehicle"]) \in Nat
    BY <2>1, NotAnId, FS_Subset, FS_CardinalityType
  <2>4. Cardinality(reg["vehicle"]) = 0
    BY <2>2, <2>3
  <2> QED
    BY <2>3, <2>4, FS_EmptySet
<1>3. InitialIsFresh'
  <2>1. raised' = raised /\ handle' = handle /\ lost' = lost
    OBVIOUS
  <2>2. raised = 0 /\ lost["vehicle"] = {} /\ initial => framed /\ handle["vehicle"] # None
    BY DEF FeedInv, InitialIsFresh
  <2> QED
    BY <1>2, <2>1, <2>2, Zenon DEF InitialIsFresh
<1>4. FreshStart'
  <2>1. raised = 0 /\ lost["vehicle"] = {} => \A t \in Refreshes : pc[t].at = "woken" => framed
    BY DEF FeedInv, FreshStart
  <2>2. \A t \in Refreshes : t \in Tasks
    BY TaskNames DEF Refreshes
  <2>3. raised' = raised /\ lost' = lost
    OBVIOUS
  <2> SUFFICES ASSUME raised = 0, lost["vehicle"] = {}, NEW t \in Refreshes, pc'[t].at = "woken"
               PROVE  framed'
    BY <2>3 DEF FreshStart
  <2> QED
    BY <2>1, <2>2
<1> QED
  BY <1>1, <1>3, <1>4 DEF FeedInv

-----------------------------------------------------------------------------
LEMMA DecideKeeps ==
    ASSUME FeedInv, NEW t \in Refreshes, RefreshDecides(t)
    PROVE  FeedInv'
<1>1. t \in Tasks /\ pc[t].at = "schedule" /\ t # "watchdog"
  BY TaskNames DEF RefreshDecides, Refreshes
<1>4. UNCHANGED <<mute, stale, tpmsAge, asleep, framed, lost>>
  BY DEF RefreshDecides
<1>5. \/ Unsubscribe(t, 1, handle, initial)
      \/ /\ pc' = [pc EXCEPT ![t] = Off] /\ debounce' = Ended(t)
         /\ UNCHANGED <<handle, reg, initial, lastOk, down, raised>>
  BY Zenon DEF RefreshDecides
<1>2. CASE Unsubscribe(t, 1, handle, initial)
  BY <1>1, <1>2, <1>4, StartKeeps
<1>3. CASE /\ pc' = [pc EXCEPT ![t] = Off] /\ debounce' = Ended(t)
           /\ UNCHANGED <<handle, reg, initial, lastOk, down, raised>>
  <2>1. PcOK(pc')
    BY <1>1, <1>3, OffPlace, TaskNames DEF PcOK, Refreshes, FeedTypeOK, FeedInv
  <2>2. pc'[t] = Off /\ \A q \in Tasks \ {t} : pc'[q] = pc[q]
    BY <1>1, <1>3 DEF FeedInv, FeedTypeOK, PcOK
  <2>3. FlagsOK'
    BY <1>3, <1>4 DEF FeedInv, FlagsOK, Ended
  <2>4. pc["poll"].at # "off" => debounce' = debounce
    BY <1>1, <1>3 DEF FeedInv, OneRefresh, Ended
  <2>5. OneRefresh'
    BY <1>1, <1>3, <1>4, <2>2, <2>4, OffPlace, TaskNames DEF FeedInv, OneRefresh
  <2>6. \A q \in Tasks : \/ pc'[q] = pc[q]
                         \/ /\ pc'[q].at \notin {"unsub", "tpmsUnsub", "sub"}
                            /\ pc[q].at \notin {"unsub", "tpmsUnsub"} \/ down' # "no"
                            /\ pc'[q].at # "woken" \/ framed'
    BY <1>1, <2>2, OffPlace
  <2>7. /\ initial' => initial \/ (reg["vehicle"] # {} /\ framed')
        /\ framed => framed'
        /\ down' = "no" => down = "no"
        /\ UNCHANGED <<handle, reg, raised, lost>>
    BY <1>3, <1>4
  <2> QED
    BY <2>1, <2>3, <2>5, <2>6, <2>7, RestIsKept
<1> QED
  BY <1>2, <1>3, <1>5

LEMMA BadFrameKeeps ==
    ASSUME FeedInv, NEW u \in Unsubscribers, BadVehicleFrame(u)
    PROVE  FeedInv'
<1>1. u \in Tasks /\ pc[u].at = "off" /\ u \notin {"watchdog", "poll", "request"}
  BY OffPlace, TaskNames DEF BadVehicleFrame
<1> QED
  BY <1>1, StartKeeps DEF BadVehicleFrame

LEMMA ShutdownKeeps ==
    ASSUME FeedInv, ShutdownUnsubscribes
    PROVE  FeedInv'
<1>1. "shutdown" \in Tasks /\ pc["shutdown"].at = "commands"
  BY TaskNames DEF ShutdownUnsubscribes
<1> QED
  BY <1>1, StartKeeps DEF ShutdownUnsubscribes

(* The tire-pressure feed is renewed by the watchdog.                      *)
LEMMA TpmsKeeps ==
    ASSUME FeedInv, NEW s \in {"off", "sleep", "tpmsUnsub", "tpmsSub"},
           pc' = [pc EXCEPT !["watchdog"] = At(s, 0)], pc["watchdog"].at \notin {"off", "unsub"},
           \A f \in Feeds : Quiet(f), raised' = raised \/ OneMore, PairOK(handle', reg'),
           handle'["vehicle"] = handle["vehicle"],
           UNCHANGED <<mute, initial, lastOk, stale, tpmsAge, asleep, debounce, down, framed, lost>>
    PROVE  FeedInv'
<1>1. s \in Places /\ "watchdog" \in Tasks /\ "watchdog" \notin Refreshes
  BY TaskNames DEF Places, Refreshes
<1>2. PcOK(pc')
  BY <1>1, OffPlace, TaskNames DEF PcOK, Refreshes, FeedTypeOK, FeedInv
<1>3. pc'["watchdog"] = At(s, 0) /\ At(s, 0).at = s /\ \A q \in Tasks \ {"watchdog"} : pc'[q] = pc[q]
  BY <1>1, OffPlace DEF FeedInv, FeedTypeOK, PcOK
<1>4. \A q \in Refreshes : pc'[q] = pc[q] \/ Bare(q)'
  BY <1>1, <1>3, TaskNames DEF Refreshes
<1>5. PairInv' /\ raised' \in 0 .. MaxRaises
  BY <1>4, QuietKeeps DEF FeedInv, FeedTypeOK
<1>6. FlagsOK'
  BY DEF FeedInv, FlagsOK
<1>7. OneRefresh'
  <2>1. /\ pc'["poll"] = pc["poll"] /\ pc'["request"] = pc["request"]
        /\ pc'["watchdog"].at = s /\ s # "unsub"
    BY <1>3, TaskNames
  <2>2. pc["poll"].at # "off" => (stale => asleep)
    BY DEF FeedInv, OneRefresh
  <2> QED
    BY <2>1, <2>2 DEF FeedInv, OneRefresh
<1>8. raised' = 0 => raised = 0
  BY FeedAssumption DEF OneMore, FeedInv, FeedTypeOK, FeedAssumption
<1>9. InitialIsFresh'
  <2>1. initial' = initial /\ framed' = framed /\ lost' = lost
    OBVIOUS
  <2> QED
    BY <1>8, <2>1 DEF FeedInv, InitialIsFresh
<1>10. FreshStart'
  <2>1. framed' = framed /\ lost' = lost /\ \A t \in Refreshes : pc'[t] = pc[t]
    BY <1>1, <1>3, TaskNames DEF Refreshes
  <2> QED
    BY <1>8, <2>1 DEF FeedInv, FreshStart
<1> QED
  BY <1>2, <1>5, <1>6, <1>7, <1>9, <1>10 DEF FeedInv, FeedTypeOK

LEMMA WatchdogKeeps ==
    ASSUME FeedInv, WatchdogTicks
    PROVE  FeedInv'
<1>1. /\ pc["watchdog"].at = "sleep" /\ UNCHANGED <<mute, stale, tpmsAge, asleep, framed, lost>>
      /\ \/ stale /\ ~asleep /\ Unsubscribe("watchdog", 1, handle, initial)
         \/ TpmsTick(handle, reg, pc) /\ UNCHANGED <<initial, lastOk, debounce, down>>
  BY Zenon DEF WatchdogTicks, WatchdogRestarts
<1>2. CASE stale /\ ~asleep /\ Unsubscribe("watchdog", 1, handle, initial)
  <2>1. pc["poll"].at = "off" /\ "watchdog" \in Tasks
    BY <1>1, <1>2, TaskNames DEF FeedInv, OneRefresh
  <2> QED
    BY <1>1, <1>2, <2>1, StartKeeps
<1>3. CASE TpmsTick(handle, reg, pc) /\ UNCHANGED <<initial, lastOk, debounce, down>>
  <2>1. PairOK(handle, reg) /\ PcOK(pc)
    BY DEF FeedInv, FeedTypeOK
  <2>2. /\ PairOK(handle', reg') /\ (raised' = raised \/ OneMore)
        /\ \A f \in Feeds \ {"tpms"} : handle'[f] = handle[f] /\ reg'[f] = reg[f]
        /\ Went("tpms", "watchdog", handle["tpms"], reg["tpms"])
        /\ \E s \in {"off", "sleep", "tpmsUnsub", "tpmsSub"} : pc' = [pc EXCEPT !["watchdog"] = At(s, 0)]
    BY <1>3, <2>1, TickMoves
  <2>3. PICK s \in {"off", "sleep", "tpmsUnsub", "tpmsSub"} : pc' = [pc EXCEPT !["watchdog"] = At(s, 0)]
    BY <2>2
  <2>4. "watchdog" \in Tasks /\ \A q \in Tasks \ {"watchdog"} : pc'[q] = pc[q]
    BY <2>1, <2>3, TaskNames DEF PcOK
  <2>5. \A f \in Feeds : /\ Went(f, "watchdog", handle[f], reg[f])
                         /\ \A q \in Tasks \ {"watchdog"} : WrittenBy(f, q) => WrittenBy(f, q)'
                         /\ ~WrittenBy(f, "watchdog")
    BY <1>1, <2>2, <2>4 DEF Went, WrittenBy
  <2>6. ASSUME NEW f \in Feeds
        PROVE  Quiet(f)
    <3> DEFINE x == handle[f]
    <3>1. Went(f, "watchdog", x, reg[f]) /\ x = handle[f] /\ lost[f] \subseteq lost'[f]
      BY <1>1, <2>5
    <3> HIDE DEF x
    <3> QED
      BY <2>4, <2>5, <3>1, WentIsQuiet DEF FeedInv
  <2> QED
    BY <1>1, <1>3, <2>2, <2>3, <2>6, TpmsFeed, TpmsKeeps
<1> QED
  BY <1>1, <1>2, <1>3

LEMMA TpmsUnsubscribedKeeps ==
    ASSUME FeedInv, TpmsUnsubscribed
    PROVE  FeedInv'
<1>1. /\ pc["watchdog"].at = "tpmsUnsub" /\ reg' = reg
      /\ UNCHANGED <<mute, initial, lastOk, stale, tpmsAge, asleep, debounce, down, framed, lost>>
  BY DEF TpmsUnsubscribed
<1>2. \/ /\ handle' = [handle EXCEPT !["tpms"] = None]
         /\ pc' = [pc EXCEPT !["watchdog"] = At("tpmsSub", 0)] /\ raised' = raised
      \/ /\ pc' = [pc EXCEPT !["watchdog"] = At("off", 0)] /\ OneMore /\ handle' = handle
  BY DEF TpmsUnsubscribed, WriteRaises, OneMore, Off
<1>3. /\ PairOK(handle, reg) /\ PairOK([handle EXCEPT !["tpms"] = None], reg)
      /\ \A f \in Feeds : handle[f] = None => handle[f] \notin reg[f]
  BY NotAnId DEF FeedInv, FeedTypeOK, PairOK
<1>5. ASSUME NEW s \in {"off", "tpmsSub"}, pc' = [pc EXCEPT !["watchdog"] = At(s, 0)]
      PROVE  \A f \in Feeds, q \in Tasks : WrittenBy(f, q) => WrittenBy(f, q)' \/ f = "tpms"
  <2>1. At(s, 0).at = s /\ pc'["watchdog"] = At(s, 0) /\ \A q \in Tasks \ {"watchdog"} : pc'[q] = pc[q]
    BY <1>5, OffPlace, TaskNames DEF FeedInv, FeedTypeOK, PcOK, Places
  <2> QED
    BY <1>1, <2>1 DEF WrittenBy
<1>6. CASE /\ handle' = [handle EXCEPT !["tpms"] = None]
           /\ pc' = [pc EXCEPT !["watchdog"] = At("tpmsSub", 0)] /\ raised' = raised
  <2>1. handle'["tpms"] = None /\ \A f \in Feeds \ {"tpms"} : handle'[f] = handle[f]
    BY <1>6, TpmsFeed DEF FeedInv, FeedTypeOK, PairOK
  <2>2. \A f \in Feeds : Quiet(f)
    BY <1>1, <1>3, <1>5, <1>6, <2>1 DEF Quiet
  <2> QED
    BY <1>1, <1>3, <1>6, <2>1, <2>2, TpmsFeed, TpmsKeeps
<1>7. CASE pc' = [pc EXCEPT !["watchdog"] = At("off", 0)] /\ OneMore /\ handle' = handle
  <2>1. raised' # 0
    BY <1>7, FeedAssumption DEF OneMore, FeedInv, FeedTypeOK, FeedAssumption
  <2>2. \A f \in Feeds : Quiet(f)
    BY <1>1, <1>3, <1>5, <1>7, <2>1 DEF Quiet
  <2> QED
    BY <1>1, <1>3, <1>7, <2>2, TpmsKeeps
<1> QED
  BY <1>2, <1>6, <1>7

-----------------------------------------------------------------------------
(* A subscription is made or tried, whatever writes are suspended, of a    *)
(* feed whose handle is dropped, unless it is the tire-pressure feed.      *)
LEMMA NewIdIs ==
    ASSUME FeedTypeOK, NEW f \in Feeds
    PROVE  NewId(f) \in Ids \ {handle[f]}
<1>1. \E i \in Ids : i # handle[f]
  <2>1. 1 \in Ids /\ 2 \in Ids
    BY FeedAssumption DEF Ids, FeedAssumption
  <2> QED
    BY <2>1
<1>2. \E i \in Ids \ {handle[f]} : i \notin reg[f] \/ Ids \ {handle[f]} \subseteq reg[f]
  BY <1>1
<1> QED
  BY <1>2 DEF NewId

Takes(f) ==
    \/ /\ handle' = [handle EXCEPT ![f] = NewId(f)]
       /\ reg' = [reg EXCEPT ![f] = @ \cup {NewId(f)}] /\ raised' = raised
    \/ /\ handle' \in {handle, [handle EXCEPT ![f] = None]}
       /\ \/ reg' = reg /\ raised' = raised
          \/ reg' = [reg EXCEPT ![f] = @ \cup {NewId(f)}] /\ OneMore

LEMMA TakeKeeps ==
    ASSUME FeedTypeOK, PairInv, NEW f \in Feeds, Takes(f), f # "tpms" => handle[f] = None,
           PcOK(pc'), BareBehind', down' = down, lost' = lost,
           \A t \in Tasks, g \in Feeds : WrittenBy(g, t) => WrittenBy(g, t)'
    PROVE  PairInv' /\ FeedTypeOK'
<1> DEFINE new == NewId(f)
<1>1. new \in Ids \ {handle[f]} /\ PairOK(handle, reg)
  BY NewIdIs DEF FeedTypeOK
<1>2. /\ \/ handle'[f] = new /\ reg'[f] = reg[f] \cup {new} /\ raised' = raised
         \/ handle'[f] \in {handle[f], None} /\ reg'[f] = reg[f] /\ raised' = raised
         \/ handle'[f] \in {handle[f], None} /\ reg'[f] = reg[f] \cup {new} /\ OneMore
      /\ \A g \in Feeds \ {f} : handle'[g] = handle[g] /\ reg'[g] = reg[g]
      /\ PairOK(handle', reg')
  <2> DEFINE more == [reg EXCEPT ![f] = @ \cup {new}]
             held(x) == [handle EXCEPT ![f] = x]
  <2>1. \/ handle' = held(new) /\ reg' = more /\ raised' = raised
        \/ handle' \in {handle, held(None)} /\ reg' = reg /\ raised' = raised
        \/ handle' \in {handle, held(None)} /\ reg' = more /\ OneMore
    BY Zenon DEF Takes
  <2> HIDE DEF new
  <2>2. /\ more[f] = reg[f] \cup {new} /\ \A g \in Feeds \ {f} : more[g] = reg[g]
        /\ more \in [Feeds -> SUBSET Ids]
    BY <1>1 DEF PairOK
  <2>3. \A x \in Ids \cup {None} : /\ held(x)[f] = x /\ held(x) \in [Feeds -> Ids \cup {None}]
                                   /\ \A g \in Feeds \ {f} : held(x)[g] = handle[g]
    BY <1>1 DEF PairOK
  <2>4. new \in Ids \cup {None} /\ None \in Ids \cup {None} /\ PairOK(handle, reg)
    BY <1>1
  <2> HIDE DEF more, held
  <2>5. CASE handle' = held(new) /\ reg' = more /\ raised' = raised
    BY <2>2, <2>3, <2>4, <2>5 DEF PairOK
  <2>6. CASE handle' \in {handle, held(None)} /\ reg' = reg /\ raised' = raised
    BY <2>2, <2>3, <2>4, <2>6 DEF PairOK
  <2>7. CASE handle' \in {handle, held(None)} /\ reg' = more /\ OneMore
    BY <2>2, <2>3, <2>4, <2>7 DEF PairOK
  <2> QED
    BY <2>1, <2>5, <2>6, <2>7
<1>3. raised \in Nat /\ raised \in 0 .. MaxRaises /\ MaxRaises \in Nat
  BY FeedAssumption DEF FeedTypeOK, FeedAssumption
<1>4. raised' \in 0 .. MaxRaises /\ (raised' = raised \/ OneMore) /\ (raised' = 0 => raised = 0 /\ raised' = raised)
  BY <1>2, <1>3 DEF OneMore
<1> HIDE DEF new
<1>5. NoOrphanFeed'
  <2> SUFFICES ASSUME NEW g \in Feeds \ {"tpms"}
               PROVE  Cardinality(reg'[g] \ ({handle'[g]} \cup lost'[g])) <= raised'
    BY DEF NoOrphanFeed
  <2> DEFINE A == reg[g] \ ({handle[g]} \cup lost[g])  B == reg'[g] \ ({handle'[g]} \cup lost'[g])
  <2>1. A \in SUBSET Ids /\ B \in SUBSET Ids
    BY <1>1, <1>2 DEF PairOK
  <2>2. Cardinality(A) <= raised
    BY DEF PairInv, NoOrphanFeed
  <2>3. \/ B \subseteq A /\ (raised' = raised \/ OneMore)
        \/ OneMore /\ \E i \in Ids : B \subseteq A \cup {i}
    <3>1. CASE g # f
      BY <1>2, <1>4, <3>1
    <3>2. CASE g = f
      <4>1. handle[f] = None /\ None \notin reg[f] /\ new \in Ids
        BY <1>1, <3>2, NotAnId DEF PairOK
      <4> QED
        BY <1>2, <3>2, <4>1
    <3> QED
      BY <3>1, <3>2
  <2> HIDE DEF A, B
  <2>4. Cardinality(B) <= raised'
    BY <1>3, <2>1, <2>2, <2>3, CountKept
  <2> QED
    BY <2>4 DEF B
<1>6. LiveOrWritten'
  <2> SUFFICES ASSUME raised' = 0, down = "no", NEW g \in Feeds
               PROVE  handle'[g] = None \/ handle'[g] \in reg'[g] \/ \E t \in Tasks : WrittenBy(g, t)'
    BY DEF LiveOrWritten
  <2>1. handle[g] = None \/ handle[g] \in reg[g] \/ \E t \in Tasks : WrittenBy(g, t)'
    BY <1>4 DEF PairInv, LiveOrWritten
  <2> QED
    BY <1>2, <2>1
<1> QED
  BY <1>2, <1>4, <1>5, <1>6 DEF PairInv, FeedTypeOK

LEMMA TakeElsewhere ==
    ASSUME FeedTypeOK, NEW f \in Feeds, Takes(f)
    PROVE  /\ \A g \in Feeds \ {f} : handle'[g] = handle[g]
           /\ raised' = 0 => raised = 0
<1> DEFINE held(x) == [handle EXCEPT ![f] = x]
<1>1. \E x : handle' = held(x) \/ handle' = handle
  BY Zenon DEF Takes
<1>2. \A x : \A g \in Feeds \ {f} : held(x)[g] = handle[g]
  BY DEF FeedTypeOK, PairOK
<1>3. raised' = raised \/ OneMore
  BY Zenon DEF Takes
<1>4. raised' = 0 => raised = 0
  BY <1>3, FeedAssumption DEF OneMore, FeedTypeOK, FeedAssumption
<1> HIDE DEF held
<1> QED
  BY <1>1, <1>2, <1>4

(* A refresh has subscribed its n-th feed, or has failed to.               *)
LEMMA RefreshTakes ==
    ASSUME FeedInv, NEW t \in Refreshes, pc[t].at = "sub", NEW n \in 1 .. 4, pc[t].n = n,
           Takes(SubOrder[n]), NEW p, pc' = [pc EXCEPT ![t] = p],
           \/ p = Off
           \/ n < 4 /\ p = At("sub", n + 1)
           \/ n = 4 /\ p \in {At("woken", 0), At("wait", 0)},
           p.at = "woken" => initial, UNCHANGED <<initial, down, asleep, lost>>,
           stale' => stale, FlagsOK', t = "poll" => debounce' = debounce,
           framed' = framed \/ n = 1
    PROVE  FeedInv'
<1> DEFINE f == SubOrder[n]
<1>1. /\ t \in Tasks /\ t \in {"poll", "request"} /\ "poll" \in Tasks /\ "request" \in Tasks
      /\ "watchdog" \in Tasks /\ t # "watchdog"
  BY TaskNames DEF Refreshes
<1>2. f \in Feeds /\ SubPos(f) = n /\ \A g \in Feeds : SubPos(g) \in 1 .. 4 /\ SubOrder[SubPos(g)] = g
  BY Orders
<1>3. \A g \in Feeds \ {"tpms"} : SubPos(g) >= n => handle[g] = None
  BY <1>1 DEF FeedInv, PairInv, BareBehind, Bare
<1>4. f # "tpms" => handle[f] = None
  BY <1>2, <1>3
<1>5. \A q \in Refreshes \ {t} : pc[q].at = "off"
  BY <1>1 DEF FeedInv, OneRefresh, Refreshes
<1>7. /\ p \in [at : Places, n : 0 .. 4] /\ p.at \in {"off", "sub", "woken", "wait"}
      /\ p.n > 0 <=> p.at = "sub"
      /\ p.at = "sub" => p.n = n + 1
      /\ p.at = "woken" => n = 4
  BY OffPlace DEF At, Places
<1>8. PcOK(pc')
  BY <1>1, <1>7, TaskNames DEF PcOK, Refreshes, FeedTypeOK, FeedInv
<1>9. pc'[t] = p /\ \A q \in Tasks \ {t} : pc'[q] = pc[q]
  BY <1>1 DEF FeedInv, FeedTypeOK, PcOK
<1>10. (\A g \in Feeds \ {f} : handle'[g] = handle[g]) /\ (raised' = 0 => raised = 0)
  BY <1>2, TakeElsewhere DEF FeedInv
<1> HIDE DEF f
<1>11. BareBehind'
  <2> SUFFICES ASSUME NEW q \in Refreshes
               PROVE  Bare(q)'
    BY DEF BareBehind
  <2>1. CASE q # t
    BY <1>5, <1>9, <2>1, TaskNames DEF Bare, Refreshes
  <2>2. CASE q = t
    <3> SUFFICES ASSUME p.at = "sub", NEW g \in Feeds \ {"tpms"}, SubPos(g) >= n + 1
                 PROVE  handle'[g] = None
      BY <1>7, <1>9, <2>2 DEF Bare
    <3>1. g # f /\ SubPos(g) >= n
      BY <1>2
    <3> QED
      BY <1>3, <1>10, <3>1
  <2> QED
    BY <2>1, <2>2
<1>12. PairInv' /\ FeedTypeOK'
  <2>1. \A q \in Tasks, g \in Feeds : WrittenBy(g, q) => WrittenBy(g, q)'
    BY <1>9 DEF WrittenBy
  <2>2. Takes(f) /\ down' = down
    BY DEF f
  <2> QED
    BY <1>2, <1>4, <1>8, <1>11, <2>1, <2>2, TakeKeeps DEF FeedInv
<1>13. OneRefresh'
  <2>1. stale' => stale
    OBVIOUS
  <2>2. CASE t = "poll"
    BY <1>1, <1>5, <1>9, <2>1, <2>2 DEF FeedInv, OneRefresh
  <2>3. CASE t = "request"
    <3>1. pc'["poll"].at = "off" /\ pc'["watchdog"] = pc["watchdog"]
      BY <1>1, <1>5, <1>9, <2>3 DEF Refreshes
    <3> QED
      BY <2>1, <3>1 DEF FeedInv, OneRefresh
  <2> QED
    BY <1>1, <2>2, <2>3
<1>14. "vehicle" \in Feeds \ {"tpms"} /\ SubPos("vehicle") = 1
  BY DEF Feeds, SubPos
<1>15. n = 1 => handle["vehicle"] = None
  BY <1>3, <1>14
<1>16. n # 1 => handle'["vehicle"] = handle["vehicle"]
  BY <1>2, <1>10, <1>14
<1>17. raised = 0 /\ lost["vehicle"] = {} => (initial => framed /\ handle["vehicle"] # None)
  BY DEF FeedInv, InitialIsFresh
<1>18. InitialIsFresh'
  <2> SUFFICES ASSUME raised = 0, lost["vehicle"] = {}, initial
               PROVE  framed' /\ handle'["vehicle"] # None
    BY <1>10 DEF InitialIsFresh
  <2>1. framed /\ handle["vehicle"] # None
    BY <1>17
  <2>2. n # 1
    BY <1>15, <2>1
  <2>3. framed' = framed
    BY <2>2
  <2> QED
    BY <1>16, <2>1, <2>2, <2>3
<1>19. FreshStart'
  <2> SUFFICES ASSUME raised = 0, lost["vehicle"] = {}, NEW q \in Refreshes, pc'[q].at = "woken"
               PROVE  framed'
    BY <1>10 DEF FreshStart
  <2>1. q = t
    BY <1>1, <1>5, <1>9, TaskNames DEF Refreshes
  <2>2. p.at = "woken" /\ n # 1
    BY <1>7, <1>9, <2>1
  <2>3. framed' = framed /\ initial
    BY <1>9, <2>1, <2>2
  <2> QED
    BY <1>17, <2>3
<1> QED
  BY <1>12, <1>13, <1>18, <1>19 DEF FeedInv

LEMMA SubscribesKeeps ==
    ASSUME FeedInv, NEW t \in Refreshes, RefreshSubscribes(t)
    PROVE  FeedInv'
<1> DEFINE n == pc[t].n  f == SubOrder[n]  p == AfterSubscribing(n)
<1>1. pc[t].at = "sub" /\ UNCHANGED <<initial, lastOk, asleep, debounce, down, raised, lost>>
  BY DEF RefreshSubscribes
<1>2. /\ Subscribed(f)
      /\ stale' = (stale /\ n # 4)
      /\ framed' = (framed /\ n # 1)
  BY Zenon DEF RefreshSubscribes
<1>3. n \in 1 .. 4 /\ f \in Feeds
  <2>1. t \in Tasks
    BY TaskNames DEF Refreshes
  <2>2. pc[t] \in [at : Places, n : 0 .. 4] /\ pc[t].n > 0
    BY <1>1, <2>1 DEF FeedInv, FeedTypeOK, PcOK
  <2> QED
    BY <2>2, Orders
<1>4. pc' = [pc EXCEPT ![t] = p]
  BY DEF RefreshSubscribes
<1>5. /\ \/ n < 4 /\ p = At("sub", n + 1)
         \/ n = 4 /\ p \in {At("woken", 0), At("wait", 0)}
      /\ p.at = "woken" => initial
  BY <1>3 DEF AfterSubscribing, At
<1>6. /\ initial \in BOOLEAN /\ stale \in BOOLEAN /\ framed \in BOOLEAN
      /\ (n # 4) \in BOOLEAN /\ (n # 1) \in BOOLEAN
  BY DEF FeedInv, FlagsOK
<1>7. stale' \in BOOLEAN /\ framed' \in BOOLEAN /\ (stale' => stale)
  BY <1>2, <1>6, Zenon
<1>8. framed' = framed \/ n = 1
  BY <1>2, <1>6, Zenon
<1>9. Takes(f) /\ mute' \in SUBSET Ids /\ tpmsAge' \in {"never", "fresh", "stale"}
  <2>1. \/ /\ handle' = [handle EXCEPT ![f] = NewId(f)]
           /\ reg' = [reg EXCEPT ![f] = @ \cup {NewId(f)}]
           /\ mute' \in {mute, mute \ {NewId(f)}}
        \/ /\ handle' = [handle EXCEPT ![f] = None]
           /\ reg' = reg /\ mute' = mute
    BY <1>2 DEF Subscribed
  <2>2. tpmsAge' \in {"fresh", tpmsAge}
    BY <1>2 DEF Subscribed
  <2>3. mute \in SUBSET Ids /\ tpmsAge \in {"never", "fresh", "stale"}
    BY DEF FeedInv, FlagsOK
  <2>4. raised' = raised
    BY <1>1
  <2>5. Takes(f)
    BY <2>1, <2>4, Zenon DEF Takes
  <2>6. mute' \in SUBSET Ids
    BY <2>1, <2>3
  <2> QED
    BY <2>2, <2>3, <2>5, <2>6
<1>10. FlagsOK'
  BY <1>1, <1>7, <1>9 DEF FeedInv, FlagsOK
<1>11. UNCHANGED <<initial, down, asleep, lost>> /\ debounce' = debounce
  BY <1>1
<1> HIDE DEF p
<1>12. FeedInv /\ pc[t].n = n /\ Takes(SubOrder[n])
  BY <1>9
<1> HIDE DEF n, f
<1> QED
  BY <1>1, <1>3, <1>4, <1>5, <1>7, <1>8, <1>10, <1>11, <1>12, RefreshTakes

LEMMA RaisedTakes ==
    ASSUME NEW f, SubscriptionRaised(f), handle' \in {handle, [handle EXCEPT ![f] = None]}
    PROVE  Takes(f)
BY DEF SubscriptionRaised, WriteRaises, Takes, OneMore

LEMMA FailsKeeps ==
    ASSUME FeedInv, NEW t \in Refreshes, RefreshSubscriptionFails(t)
    PROVE  FeedInv'
<1> DEFINE n == pc[t].n  f == SubOrder[n]
<1>1. pc[t].at = "sub" /\ UNCHANGED <<mute, initial, stale, tpmsAge, asleep, down, framed, lost>>
  BY DEF RefreshSubscriptionFails
<1>2. /\ SubscriptionRaised(f)
      /\ \/ /\ f \in {"tpms", "parallax"}
            /\ handle' = [handle EXCEPT ![f] = None]
            /\ pc' = [pc EXCEPT ![t] = At("sub", n + 1)]
            /\ lastOk' = lastOk /\ debounce' = debounce
         \/ /\ lastOk' = FALSE /\ pc' = [pc EXCEPT ![t] = Off] /\ debounce' = Ended(t)
            /\ handle' = handle
  BY DEF RefreshSubscriptionFails, RefreshFails
<1>3. n \in 1 .. 4 /\ f \in Feeds
  <2>1. t \in Tasks
    BY TaskNames DEF Refreshes
  <2>2. pc[t] \in [at : Places, n : 0 .. 4] /\ pc[t].n > 0
    BY <1>1, <2>1 DEF FeedInv, FeedTypeOK, PcOK
  <2> QED
    BY <2>2, Orders
<1>4. FlagsOK'
  BY <1>1, <1>2 DEF FeedInv, FlagsOK, Ended
<1>5. t = "poll" => debounce' = debounce
  BY <1>2 DEF Ended
<1>6. Takes(f)
  BY <1>2, RaisedTakes
<1>7. ASSUME NEW p, pc' = [pc EXCEPT ![t] = p], p = Off \/ (n < 4 /\ p = At("sub", n + 1))
      PROVE  FeedInv'
  <2>1. p.at # "woken"
    BY <1>7, OffPlace DEF At
  <2>2. UNCHANGED <<initial, down, asleep, lost>> /\ (stale' => stale) /\ framed' = framed
    BY <1>1
  <2>3. FeedInv /\ pc[t].n = n /\ Takes(SubOrder[n])
    BY <1>6
  <2> HIDE DEF n, f
  <2> QED
    BY <1>1, <1>3, <1>4, <1>5, <1>7, <2>1, <2>2, <2>3, RefreshTakes
<1>8. f \in {"tpms", "parallax"} => n < 4
  <2>1. SubOrder[4] = "cloud"
    BY DEF SubOrder
  <2>2. n = 4 => f = "cloud"
    BY <2>1
  <2> HIDE DEF f
  <2> QED
    BY <1>3, <2>2
<1> HIDE DEF n, f
<1> QED
  BY <1>2, <1>7, <1>8

LEMMA TpmsSubscribedKeeps ==
    ASSUME FeedInv, TpmsSubscribed
    PROVE  FeedInv'
<1>1. /\ pc["watchdog"].at = "tpmsSub"
      /\ pc' = [pc EXCEPT !["watchdog"] = At("sleep", 0)]
      /\ UNCHANGED <<initial, lastOk, stale, asleep, debounce, down, framed, lost>>
  BY DEF TpmsSubscribed
<1>2. /\ Takes("tpms")
      /\ mute' = mute /\ tpmsAge' \in {"fresh", tpmsAge}
  <2>1. CASE Subscribed("tpms") /\ raised' = raised
    BY <2>1 DEF Subscribed, Takes
  <2>2. CASE SubscriptionRaised("tpms") /\ handle' = [handle EXCEPT !["tpms"] = None] /\ UNCHANGED <<mute, tpmsAge>>
    BY <2>2, RaisedTakes
  <2> QED
    BY <2>1, <2>2 DEF TpmsSubscribed
<1>3. FlagsOK'
  BY <1>1, <1>2 DEF FeedInv, FlagsOK
<1>4. "watchdog" \in Tasks /\ "watchdog" \notin Refreshes /\ "sleep" \in Places
  BY TaskNames DEF Refreshes, Places
<1>5. PcOK(pc')
  BY <1>1, <1>4, OffPlace, TaskNames DEF PcOK, Refreshes, FeedTypeOK, FeedInv
<1>6. pc'["watchdog"].at = "sleep" /\ \A q \in Tasks \ {"watchdog"} : pc'[q] = pc[q]
  BY <1>1, <1>4, OffPlace DEF FeedInv, FeedTypeOK, PcOK
<1>7. (\A g \in Feeds \ {"tpms"} : handle'[g] = handle[g]) /\ (raised' = 0 => raised = 0)
  BY <1>2, TpmsFeed, TakeElsewhere DEF FeedInv
<1>8. \A q \in Tasks, g \in Feeds : WrittenBy(g, q) => WrittenBy(g, q)'
  BY <1>1, <1>6 DEF WrittenBy
<1>9. BareBehind'
  <2> SUFFICES ASSUME NEW q \in Refreshes
               PROVE  Bare(q)'
    BY DEF BareBehind
  <2>1. Bare(q)
    BY DEF FeedInv, PairInv, BareBehind
  <2>2. pc'[q] = pc[q]
    BY <1>4, <1>6, TaskNames DEF Refreshes
  <2> QED
    BY <1>7, <2>1, <2>2 DEF Bare
<1>10. PairInv' /\ FeedTypeOK'
  BY <1>1, <1>2, <1>5, <1>8, <1>9, TpmsFeed, TakeKeeps DEF FeedInv
<1>11. OneRefresh'
  BY <1>1, <1>4, <1>6, TaskNames DEF FeedInv, OneRefresh
<1>12. InitialIsFresh'
  <2>1. /\ handle'["vehicle"] = handle["vehicle"] /\ initial' = initial
        /\ framed' = framed /\ lost' = lost
    BY <1>1, <1>7, TpmsFeed
  <2> QED
    BY <1>7, <2>1 DEF FeedInv, InitialIsFresh
<1>13. FreshStart'
  <2>1. framed' = framed /\ lost' = lost /\ \A q \in Refreshes : pc'[q] = pc[q]
    BY <1>1, <1>4, <1>6, TaskNames DEF Refreshes
  <2> QED
    BY <1>7, <2>1 DEF FeedInv, FreshStart
<1> QED
  BY <1>3, <1>10, <1>11, <1>12, <1>13 DEF FeedInv

-----------------------------------------------------------------------------
(* The steps that leave the pair alone.                                    *)
LEMMA TimeKeeps ==
    ASSUME FeedInv,
           \/ FeedAges \/ TpmsAges \/ BackendError \/ Reconnected \/ UNCHANGED vars
           \/ \E f \in Feeds : PushFrame(f)
    PROVE  FeedInv'
<1>1. /\ UNCHANGED <<handle, reg, raised, lost>> /\ pc' = pc /\ down' = down /\ initial' = initial /\ framed' = framed
      /\ debounce' \in {debounce, "ready"} /\ asleep' = asleep
      /\ stale' = stale \/ \A r \in Refreshes : pc[r] = Off /\ Suspended = {}
  BY DEF FeedAges, TpmsAges, BackendError, Reconnected, vars, PushFrame, Published
<1>2. lastOk' \in {lastOk, TRUE} /\ stale' \in {stale, TRUE}
  BY DEF FeedAges, TpmsAges, BackendError, Reconnected, vars, PushFrame, Published
<1>3. tpmsAge' \in {tpmsAge, "fresh", "stale"} /\ mute' \in {mute, {}, reg["vehicle"]}
  BY DEF FeedAges, TpmsAges, BackendError, Reconnected, vars, PushFrame, Published
<1>4. reg["vehicle"] \in SUBSET Ids
  BY TpmsFeed DEF FeedInv, FeedTypeOK, PairOK
<1>5. FlagsOK'
  <2>1. lastOk' \in BOOLEAN /\ stale' \in BOOLEAN
    BY <1>2 DEF FeedInv, FlagsOK
  <2> QED
    BY <1>1, <1>3, <1>4, <2>1 DEF FeedInv, FlagsOK
<1>6. OneRefresh'
  <2>1. CASE stale' = stale
    BY <1>1, <2>1 DEF FeedInv, OneRefresh
  <2>2. CASE \A r \in Refreshes : pc[r] = Off /\ Suspended = {}
    <3>1. pc["poll"].at = "off" /\ pc["watchdog"].at # "unsub"
      BY <2>2, OffPlace, TaskNames DEF Refreshes, Suspended
    <3> QED
      BY <1>1, <3>1 DEF OneRefresh
  <2> QED
    BY <1>1, <2>1, <2>2
<1>7. PcOK(pc')
  BY <1>1 DEF FeedInv, FeedTypeOK
<1>8. /\ \A q \in Tasks : pc'[q] = pc[q]
      /\ initial' => initial \/ (reg["vehicle"] # {} /\ framed')
      /\ framed => framed'
      /\ down' = "no" => down = "no"
      /\ UNCHANGED <<handle, reg, raised, lost>>
  BY <1>1
<1> QED
  BY <1>5, <1>6, <1>7, <1>8, RestIsKept

LEMMA FrameKeeps ==
    ASSUME FeedInv, VehicleFrame
    PROVE  FeedInv'
<1>1. /\ UNCHANGED <<handle, reg, mute, tpmsAge, down, raised, lost>> /\ reg["vehicle"] # {}
      /\ pc' = [t \in Tasks |-> IF pc[t].at = "wait" THEN At("woken", 0) ELSE pc[t]]
      /\ debounce' = "ready"
  BY DEF VehicleFrame, Published
<1>2. lastOk' = TRUE /\ initial' = TRUE /\ stale' = FALSE /\ framed' = TRUE /\ asleep' \in BOOLEAN
  BY DEF VehicleFrame, Published
<1>3. FlagsOK'
  <2>1. lastOk' \in BOOLEAN /\ initial' \in BOOLEAN /\ stale' \in BOOLEAN /\ framed' \in BOOLEAN
    BY <1>2
  <2> QED
    BY <1>1, <1>2, <2>1 DEF FeedInv, FlagsOK
<1>4. \A q \in Tasks : \/ pc'[q] = pc[q]
                       \/ pc[q].at = "wait" /\ pc'[q] = At("woken", 0)
  BY <1>1
<1>5. At("woken", 0) \in [at : Places, n : 0 .. 4] /\ At("woken", 0).at = "woken" /\ At("woken", 0).n = 0
  BY DEF At, Places
<1>6. PcOK(pc')
  <2>1. pc' \in [Tasks -> [at : Places, n : 0 .. 4]]
    BY <1>1, <1>5 DEF FeedInv, FeedTypeOK, PcOK
  <2> QED
    BY <1>4, <1>5, <2>1, TaskNames DEF PcOK, Refreshes, FeedTypeOK, FeedInv
<1>7. OneRefresh'
  <2>1. /\ pc["poll"].at = "off" => pc'["poll"].at = "off"
        /\ pc'["poll"].at # "off" => pc["poll"].at # "off"
        /\ pc["request"].at = "off" => pc'["request"].at = "off"
        /\ pc'["watchdog"].at = "unsub" => pc["watchdog"].at = "unsub"
    BY <1>4, <1>5, TaskNames
  <2>2. ~stale'
    BY <1>2
  <2> QED
    BY <1>1, <2>1, <2>2 DEF FeedInv, OneRefresh
<1>8. framed'
  BY <1>2
<1>9. \A q \in Tasks : \/ pc'[q] = pc[q]
                       \/ /\ pc'[q].at \notin {"unsub", "tpmsUnsub", "sub"}
                          /\ pc[q].at \notin {"unsub", "tpmsUnsub"} \/ down' # "no"
                          /\ pc'[q].at # "woken" \/ framed'
  BY <1>4, <1>5, <1>8
<1>10. /\ initial' => initial \/ (reg["vehicle"] # {} /\ framed')
       /\ framed => framed'
       /\ down' = "no" => down = "no"
       /\ UNCHANGED <<handle, reg, raised, lost>>
  BY <1>1, <1>8
<1> QED
  BY <1>3, <1>6, <1>7, <1>9, <1>10, RestIsKept

(* A step that moves tasks which are not suspended in a write to a place   *)
(* where they hold nothing, or ends them at the shutdown.                  *)
LEMMA MoveKeeps ==
    ASSUME FeedInv, UNCHANGED <<handle, reg, mute, initial, stale, tpmsAge, asleep, raised, framed, lost>>,
           PcOK(pc'), lastOk' \in BOOLEAN, debounce' \in {"ready", "cooldown", "pending"}, OneRefresh',
           down' = down \/ down' = "begun",
           \A q \in Tasks : \/ pc'[q] = pc[q]
                            \/ /\ pc'[q].at \in {"off", "sleep", "schedule", "commands"}
                               /\ pc[q].at \notin {"unsub", "tpmsUnsub"} \/ down' # "no"
    PROVE  FeedInv'
<1>1. FlagsOK'
  BY DEF FeedInv, FlagsOK
<1>2. \A q \in Tasks : \/ pc'[q] = pc[q]
                       \/ /\ pc'[q].at \notin {"unsub", "tpmsUnsub", "sub"}
                          /\ pc[q].at \notin {"unsub", "tpmsUnsub"} \/ down' # "no"
                          /\ pc'[q].at # "woken" \/ framed'
  OBVIOUS
<1>3. /\ initial' => initial \/ (reg["vehicle"] # {} /\ framed')
      /\ framed => framed'
      /\ down' = "no" => down = "no"
      /\ UNCHANGED <<handle, reg, raised, lost>>
  OBVIOUS
<1> QED
  BY <1>1, <1>2, <1>3, RestIsKept

LEMMA PollKeeps ==
    ASSUME FeedInv, PollStarts
    PROVE  FeedInv'
<1>1. /\ stale /\ (asleep \/ pc["watchdog"] = Off) /\ pc["request"] = Off /\ pc["poll"] = Off
      /\ pc' = [pc EXCEPT !["poll"] = At("schedule", 0)] /\ debounce' = "ready" /\ down' = down
      /\ UNCHANGED <<handle, reg, mute, initial, stale, tpmsAge, asleep, raised, framed, lost>>
      /\ lastOk' = lastOk
  BY DEF PollStarts, Refreshes
<1>2. "poll" \in Tasks /\ "schedule" \in Places
  BY TaskNames DEF Places
<1>3. PcOK(pc')
  BY <1>1, <1>2, OffPlace, TaskNames DEF PcOK, Refreshes, FeedTypeOK, FeedInv
<1>4. pc'["poll"].at = "schedule" /\ \A q \in Tasks \ {"poll"} : pc'[q] = pc[q]
  BY <1>1, <1>2, OffPlace DEF FeedInv, FeedTypeOK, PcOK
<1>5. pc["watchdog"].at # "unsub" /\ (asleep \/ pc["watchdog"].at = "off")
  BY <1>1, OffPlace DEF FeedInv, OneRefresh
<1>6. OneRefresh'
  BY <1>1, <1>4, <1>5, OffPlace, TaskNames DEF OneRefresh
<1>7. lastOk' \in BOOLEAN
  BY <1>1 DEF FeedInv, FlagsOK
<1>8. pc["poll"].at \notin {"unsub", "tpmsUnsub"}
  BY <1>1, OffPlace
<1> QED
  BY <1>1, <1>3, <1>4, <1>6, <1>7, <1>8, MoveKeeps

LEMMA CooldownKeeps ==
    ASSUME FeedInv, CooldownEnds
    PROVE  FeedInv'
<1>1. /\ debounce # "ready" /\ pc["request"] = Off /\ debounce' = "ready" /\ down' = down
      /\ \E s \in {"off", "schedule"} : pc' = [pc EXCEPT !["request"] = At(s, 0)]
      /\ UNCHANGED <<handle, reg, mute, initial, stale, tpmsAge, asleep, raised, framed, lost>>
      /\ lastOk' = lastOk
  BY DEF CooldownEnds, Off
<1>2. PICK s \in {"off", "schedule"} : pc' = [pc EXCEPT !["request"] = At(s, 0)]
  BY <1>1
<1>3. "request" \in Tasks /\ s \in Places
  BY TaskNames DEF Places
<1>4. PcOK(pc')
  BY <1>2, <1>3, OffPlace, TaskNames DEF PcOK, Refreshes, FeedTypeOK, FeedInv
<1>5. pc'["request"].at = s /\ \A q \in Tasks \ {"request"} : pc'[q] = pc[q]
  BY <1>2, <1>3, OffPlace DEF FeedInv, FeedTypeOK, PcOK
<1>6. OneRefresh'
  <2>1. pc["poll"].at = "off"
    BY <1>1 DEF FeedInv, OneRefresh
  <2> QED
    BY <1>1, <1>5, <2>1, TaskNames DEF FeedInv, OneRefresh
<1>7. lastOk' \in BOOLEAN
  BY <1>1 DEF FeedInv, FlagsOK
<1>8. pc["request"].at \notin {"unsub", "tpmsUnsub"}
  BY <1>1, OffPlace
<1> QED
  BY <1>1, <1>4, <1>5, <1>6, <1>7, <1>8, MoveKeeps

LEMMA EndsKeeps ==
    ASSUME FeedInv, NEW t \in Refreshes, RefreshSucceeds(t) \/ RefreshTimesOut(t)
    PROVE  FeedInv'
<1> DEFINE pcs == [pc EXCEPT ![t] = Off]
           wake == IF pc["watchdog"] = Off THEN At("sleep", 0) ELSE pc["watchdog"]
<1>1. t \in Tasks /\ t \in {"poll", "request"} /\ "watchdog" \in Tasks /\ t # "watchdog"
  BY TaskNames DEF Refreshes
<1>2. /\ pc[t].at \in {"woken", "wait"} /\ debounce' = Ended(t) /\ down' = down
      /\ UNCHANGED <<handle, reg, mute, initial, stale, tpmsAge, asleep, raised, framed, lost>>
      /\ lastOk' \in {TRUE, FALSE}
  BY DEF RefreshSucceeds, RefreshTimesOut, RefreshFails
<1>3. pc' = pcs \/ pc' = [pcs EXCEPT !["watchdog"] = wake]
  BY <1>1 DEF RefreshSucceeds, RefreshTimesOut, RefreshFails
<1>4. PcOK(pcs) /\ pcs[t] = Off /\ \A q \in Tasks \ {t} : pcs[q] = pc[q]
  BY <1>1, OffPlace, TaskNames DEF PcOK, Refreshes, FeedTypeOK, FeedInv
<1>5. "sleep" \in Places /\ At("sleep", 0).at = "sleep" /\ At("sleep", 0) \in [at : Places, n : 0 .. 4]
      /\ At("sleep", 0).n = 0
  BY DEF Places, At
<1>6. [pcs EXCEPT !["watchdog"] = wake]["watchdog"] = wake
      /\ \A q \in Tasks \ {"watchdog"} : [pcs EXCEPT !["watchdog"] = wake][q] = pcs[q]
  BY <1>1, <1>4 DEF PcOK
<1>7. PcOK([pcs EXCEPT !["watchdog"] = wake])
  <2>1. PcOK(pc)
    BY DEF FeedInv, FeedTypeOK
  <2>2. wake \in [at : Places, n : 0 .. 4] /\ wake.at \in {"off", "sleep", "unsub", "tpmsUnsub", "tpmsSub"}
        /\ (wake.n > 0 <=> wake.at \in {"unsub", "sub"})
    BY <1>1, <1>5, <2>1 DEF PcOK
  <2> HIDE DEF pcs, wake
  <2> QED
    BY <1>1, <1>4, <2>2, TaskNames DEF PcOK, Refreshes
<1>8. /\ PcOK(pc') /\ pc'[t].at = "off"
      /\ \A q \in Tasks \ {t} : \/ pc'[q] = pc[q]
                                \/ q = "watchdog" /\ pc[q].at = "off" /\ pc'[q].at = "sleep"
  <2>1. wake = pc["watchdog"] \/ (pc["watchdog"].at = "off" /\ wake.at = "sleep")
    BY <1>5, OffPlace
  <2>2. pcs["watchdog"] = pc["watchdog"]
    BY <1>1, <1>4
  <2> DEFINE woken == [pcs EXCEPT !["watchdog"] = wake]
  <2>3. woken["watchdog"] = wake /\ (\A q \in Tasks \ {"watchdog"} : woken[q] = pcs[q]) /\ PcOK(woken)
    BY <1>6, <1>7
  <2>4. pc' = pcs \/ pc' = woken
    BY <1>3
  <2> HIDE DEF pcs, wake, woken
  <2>5. CASE pc' = pcs
    BY <1>4, <2>5, OffPlace
  <2>6. CASE pc' = woken
    BY <1>1, <1>4, <2>1, <2>3, <2>6, OffPlace
  <2> QED
    BY <2>4, <2>5, <2>6
<1>9. debounce' \in {"ready", "cooldown", "pending"} /\ (t = "poll" => debounce' = debounce)
  BY <1>2 DEF Ended, FeedInv, FlagsOK
<1>10. OneRefresh'
  <2>1. CASE t = "poll"
    BY <1>1, <1>2, <1>8, <2>1, TaskNames DEF FeedInv, OneRefresh
  <2>2. CASE t = "request"
    <3>1. pc["poll"].at = "off"
      BY <1>2, <2>2 DEF FeedInv, OneRefresh
    <3>2. pc'["poll"].at = "off"
      BY <1>8, <2>2, <3>1, TaskNames
    <3> QED
      BY <1>1, <1>2, <1>8, <3>2, TaskNames DEF FeedInv, OneRefresh
  <2> QED
    BY <1>1, <2>1, <2>2
<1>11. \A q \in Tasks : \/ pc'[q] = pc[q]
                        \/ /\ pc'[q].at \in {"off", "sleep", "schedule", "commands"}
                           /\ pc[q].at \notin {"unsub", "tpmsUnsub"} \/ down' # "no"
  BY <1>2, <1>8
<1>12. lastOk' \in BOOLEAN
  BY <1>2
<1> QED
  BY <1>2, <1>8, <1>9, <1>10, <1>11, <1>12, MoveKeeps

LEMMA ShutdownBeginsKeeps ==
    ASSUME FeedInv, ShutdownBegins
    PROVE  FeedInv'
<1> DEFINE pcs == [pc EXCEPT !["watchdog"] = Off, !["poll"] = Off]
<1>1. /\ down' = "begun" /\ pc' = [pcs EXCEPT !["shutdown"] = At("commands", 0)]
      /\ UNCHANGED <<handle, reg, mute, initial, stale, tpmsAge, asleep, raised, framed, lost>>
      /\ lastOk' = lastOk /\ debounce' = debounce
  BY DEF ShutdownBegins
<1>2. "shutdown" \in Tasks /\ "watchdog" \in Tasks /\ "poll" \in Tasks /\ "commands" \in Places
  BY TaskNames DEF Places
<1>3. /\ PcOK(pcs) /\ pcs["watchdog"] = Off /\ pcs["poll"] = Off
      /\ \A q \in Tasks \ {"watchdog", "poll"} : pcs[q] = pc[q]
  BY <1>2, OffPlace, TaskNames DEF PcOK, Refreshes, FeedTypeOK, FeedInv
<1>4. PcOK(pc')
  <2> HIDE DEF pcs
  <2> QED
    BY <1>1, <1>2, <1>3, OffPlace, TaskNames DEF PcOK, Refreshes
<1>5. pc'["shutdown"].at = "commands" /\ \A q \in Tasks \ {"shutdown"} : pc'[q] = pcs[q]
  <2> HIDE DEF pcs
  <2> QED
    BY <1>1, <1>2, <1>3, OffPlace DEF PcOK
<1>6. /\ pc'["watchdog"].at = "off" /\ pc'["poll"].at = "off" /\ pc'["shutdown"].at = "commands"
      /\ \A q \in Tasks \ {"shutdown", "watchdog", "poll"} : pc'[q] = pc[q]
  BY <1>2, <1>3, <1>5, OffPlace
<1>7. OneRefresh'
  BY <1>6 DEF OneRefresh
<1>8. lastOk' \in BOOLEAN /\ debounce' \in {"ready", "cooldown", "pending"}
  BY <1>1 DEF FeedInv, FlagsOK
<1> QED
  BY <1>1, <1>4, <1>6, <1>7, <1>8, MoveKeeps

-----------------------------------------------------------------------------
LEMMA InitHolds == Init => FeedInv
<1> SUFFICES ASSUME Init
             PROVE  FeedInv
  OBVIOUS
<1>1. /\ handle \in [Feeds -> {1, None}] /\ handle["vehicle"] = 1
      /\ reg = [f \in Feeds |-> {handle[f]} \ {None}] /\ raised = 0
      /\ pc = [t \in Tasks |-> IF t = "watchdog" THEN At("sleep", 0) ELSE Off]
  <2>1. /\ reg = [f \in Feeds |-> {handle[f]} \ {None}] /\ raised = 0
        /\ pc = [t \in Tasks |-> IF t = "watchdog" THEN At("sleep", 0) ELSE Off]
    BY DEF Init
  <2>2. handle \in [Feeds -> {1, None}] /\ \A f \in Feeds : f = "vehicle" => handle[f] = 1
    BY DEF Init
  <2> QED
    BY <2>1, <2>2, TpmsFeed
<1>2. initial = TRUE /\ lastOk = TRUE /\ stale = FALSE /\ framed = TRUE /\ asleep \in BOOLEAN
      /\ mute = {} /\ tpmsAge \in {"never", "fresh"} /\ debounce = "ready" /\ down = "no"
  BY DEF Init
<1>15. lost \in [Feeds -> SUBSET Ids] /\ \A f \in Feeds : lost[f] = {}
  BY DEF Init
<1>3. 1 \in Ids
  BY FeedAssumption DEF Ids, FeedAssumption
<1>4. FlagsOK
  <2>1. initial \in BOOLEAN /\ lastOk \in BOOLEAN /\ stale \in BOOLEAN /\ framed \in BOOLEAN
    BY <1>2
  <2> QED
    BY <1>2, <2>1 DEF FlagsOK
<1>5. At("sleep", 0) \in [at : Places, n : 0 .. 4] /\ At("sleep", 0).at = "sleep" /\ At("sleep", 0).n = 0
  BY DEF At, Places
<1>6. PcOK(pc) /\ \A t \in Tasks : pc[t].at \in {"sleep", "off"} /\ (t # "watchdog" => pc[t].at = "off")
  BY <1>1, <1>5, OffPlace, TaskNames DEF PcOK, Refreshes
<1>7. PairOK(handle, reg) /\ \A f \in Feeds : reg[f] = {handle[f]} \ {None}
  BY <1>1, <1>3 DEF PairOK
<1>8. raised \in 0 .. MaxRaises
  BY <1>1, FeedAssumption DEF FeedAssumption
<1>9. NoOrphanFeed
  <2>1. \A f \in Feeds : reg[f] \ ({handle[f]} \cup lost[f]) = {}
    BY <1>7, <1>15
  <2>2. Cardinality({}) = 0
    BY FS_EmptySet
  <2> QED
    BY <1>1, <2>1, <2>2 DEF NoOrphanFeed
<1>10. \A t \in Refreshes : Bare(t)
  BY <1>6, TaskNames DEF Bare, Refreshes
<1>11. LiveOrWritten
  BY <1>7 DEF LiveOrWritten
<1>12. PairInv
  BY <1>9, <1>10, <1>11 DEF PairInv, BareBehind
<1>13. OneRefresh /\ FreshStart
  BY <1>6, TaskNames DEF OneRefresh, FreshStart, Refreshes
<1>14. InitialIsFresh
  <2>1. handle["vehicle"] # None
    BY <1>1 DEF None
  <2> QED
    BY <1>2, <2>1 DEF InitialIsFresh
<1> QED
  BY <1>4, <1>6, <1>7, <1>8, <1>12, <1>13, <1>14, <1>15 DEF FeedInv, FeedTypeOK

LEMMA StepHolds == FeedInv /\ [Next]_vars => FeedInv'
<1> SUFFICES ASSUME FeedInv, [Next]_vars
             PROVE  FeedInv'
  OBVIOUS
<1>1. CASE PollStarts
  BY <1>1, PollKeeps
<1>2. CASE CooldownEnds
  BY <1>2, CooldownKeeps
<1>3. ASSUME NEW t \in Refreshes, RefreshStep(t)
      PROVE  FeedInv'
  BY <1>3, DecideKeeps, SubscribesKeeps, FailsKeeps, EndsKeeps DEF RefreshStep
<1>4. ASSUME NEW t \in Tasks, UnsubscribeResumes(t)
      PROVE  FeedInv'
  BY <1>4, ResumeKeeps
<1>5. CASE WatchdogStep
  BY <1>5, WatchdogKeeps, TpmsUnsubscribedKeeps, TpmsSubscribedKeeps DEF WatchdogStep
<1>6. CASE \/ FeedAges \/ TpmsAges \/ BackendError \/ Reconnected \/ UNCHANGED vars
           \/ \E f \in Feeds : PushFrame(f)
  BY <1>6, TimeKeeps
<1>7. CASE VehicleFrame
  BY <1>7, FrameKeeps
<1>8. ASSUME NEW u \in Unsubscribers, BadVehicleFrame(u)
      PROVE  FeedInv'
  BY <1>8, BadFrameKeeps
<1>9. CASE ShutdownBegins
  BY <1>9, ShutdownBeginsKeeps
<1>10. CASE ShutdownUnsubscribes
  BY <1>10, ShutdownKeeps
<1> QED
  BY <1>1, <1>2, <1>3, <1>4, <1>5, <1>6, <1>7, <1>8, <1>9, <1>10 DEF Next

LEMMA FeedInvariant == Spec => []FeedInv
BY InitHolds, StepHolds, PTL DEF Spec

-----------------------------------------------------------------------------
(* Each registered subscription is held by the coordinator's handle, but   *)
(* for one per write that raised and those whose handle a resuming         *)
(* _unsubscribe cleared; and, while no write is suspended, a handle        *)
(* belongs to a registered subscription.  However many writes overlap,     *)
(* refreshes, restarts, bad frames and the watchdog leave a feed that      *)
(* cannot be ended in no other way, and none that only seems to be there.  *)
THEOREM VehicleFeedIsHeld == Spec => []FeedHeld
<1>1. FeedInv => TypeOK
  <2> SUFFICES ASSUME FeedInv
               PROVE  TypeOK
    OBVIOUS
  <2>1. {initial, lastOk, stale, asleep, framed} \subseteq BOOLEAN
    BY DEF FeedInv, FlagsOK
  <2>2. /\ handle \in [Feeds -> Ids \cup {None}] /\ reg \in [Feeds -> SUBSET Ids] /\ mute \in SUBSET Ids
        /\ lost \in [Feeds -> SUBSET Ids]
        /\ tpmsAge \in {"never", "fresh", "stale"} /\ raised \in 0 .. MaxRaises
        /\ debounce \in {"ready", "cooldown", "pending"} /\ down \in {"no", "begun", "done"}
    BY DEF FeedInv, FlagsOK, FeedTypeOK, PairOK
  <2> QED
    BY <2>1, <2>2 DEF FeedInv, FeedTypeOK, PcOK, Places, TypeOK
<1>2. FeedInv => HandleIsLive
  <2> SUFFICES ASSUME FeedInv, Suspended = {}, raised = 0, down = "no", NEW f \in Feeds, handle[f] # None
               PROVE  handle[f] \in reg[f]
    BY DEF HandleIsLive
  <2>1. \A t \in Tasks : ~WrittenBy(f, t)
    BY DEF WrittenBy, Suspended
  <2> QED
    BY <2>1 DEF FeedInv, PairInv, LiveOrWritten
<1>3. FeedInv => FeedHeld
  BY <1>1, <1>2 DEF FeedHeld, FeedInv, PairInv
<1> QED
  BY <1>3, FeedInvariant, PTL

(* A refresh succeeds only on a frame that came after its own vehicle      *)
(* subscription, unless a write raised or one lost its handle.             *)
THEOREM RefreshesStartFresh == Spec => []FreshStart
<1>1. FeedInv => FreshStart
  BY DEF FeedInv
<1> QED
  BY <1>1, FeedInvariant, PTL
=============================================================================
