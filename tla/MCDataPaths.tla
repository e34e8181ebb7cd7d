----------------------------- MODULE MCDataPaths -----------------------------
(* The instance of CloudRequests, ParallaxTopics, ClosureViews,               *)
(* LiveSignalling, OfferTrimming, SensorViews and ChargingGraph that TLC      *)
(* checks: seven paths between the vehicle or the cloud and the owner that    *)
(* share no state, so a behaviour is one of them and the rest stay in one     *)
(* initial state.                                                             *)
EXTENDS CloudRequests, ParallaxTopics, ClosureViews, LiveSignalling, OfferTrimming,
        SensorViews, ChargingGraph

CONSTANTS r1, r2, k1, k2, c1, c2
MCRefreshes  == {r1, r2}
MCLocks      == {k1, k2}
MCCandidates == {c1, c2}
MCVideo      == <<1, 2, 3>>
MCAudio      == <<4, 5>>

(* The endpoint and the offer of the behaviours that are not about one.       *)
OtherHost == [host |-> "other", signed |-> FALSE, id |-> Absent]
OneCodec  == [kind |-> "video", numbers |-> MCVideo, headers |-> 0,
              codec |-> [n \in ToSet(MCVideo) |-> "h264"],
              apt |-> [n \in ToSet(MCVideo) |-> NoCodec]]

NoPower == [power |-> Unsent, start |-> Unsent, end |-> Unsent, state |-> 1]

VARIABLE part
mcVars == <<cloudVars, topicVars, viewVars, signalVars, trimVars, sensorVars, graphVars, part>>

MCInit ==
    /\ part \in {"cloud", "topics", "views", "signalling", "offer", "sensors", "graph"}
    /\ CloudInit   /\ (part = "cloud" \/ (poller = "user" /\ well /\ takesCodes))
    /\ TopicInit   /\ (part = "topics" \/ topic = "vehicle.power.state")
    /\ ViewInit    /\ (part = "views" \/ kind = "locks")
    /\ SignalInit  /\ (part = "signalling" \/ endpoint = OtherHost)
    /\ TrimInit    /\ (part = "offer" \/ (original = <<OneCodec>> /\ room = 1))
    /\ IF part = "sensors" THEN SensorInit
       ELSE FieldInit({"vehicleMileage"})
    /\ GraphInit   /\ (part = "graph" \/ segments[1] = NoPower)

MCNext ==
    /\ UNCHANGED part
    /\ \/ /\ part = "cloud" /\ CloudNext
          /\ UNCHANGED <<topicVars, viewVars, signalVars, trimVars, sensorVars, graphVars>>
       \/ /\ part = "topics" /\ TopicNext
          /\ UNCHANGED <<cloudVars, viewVars, signalVars, trimVars, sensorVars, graphVars>>
       \/ /\ part = "views" /\ ViewNext
          /\ UNCHANGED <<cloudVars, topicVars, signalVars, trimVars, sensorVars, graphVars>>
       \/ /\ part = "signalling" /\ SignalNext
          /\ UNCHANGED <<cloudVars, topicVars, viewVars, trimVars, sensorVars, graphVars>>
       \/ /\ part = "offer" /\ TrimNext
          /\ UNCHANGED <<cloudVars, topicVars, viewVars, signalVars, sensorVars, graphVars>>
       \/ /\ part = "sensors" /\ SensorNext
          /\ UNCHANGED <<cloudVars, topicVars, viewVars, signalVars, trimVars, graphVars>>
       \/ /\ part = "graph" /\ GraphNext
          /\ UNCHANGED <<cloudVars, topicVars, viewVars, signalVars, trimVars, sensorVars>>

(* CloudFairness, SignalFairness and SensorFairness, each of its behaviours.  *)
MCFairness ==
    /\ WF_cloudVars(part = "cloud" /\ TimerFires)
    /\ \A r \in MCRefreshes :
          WF_cloudVars(part = "cloud" /\ (Answers(r) \/ Retries(r) \/ Ends(r)))
    /\ WF_signalVars(part = "signalling" /\ (SocketOpens \/ SocketFails))
    /\ WF_signalVars(part = "signalling" /\ OfferWritten)
    /\ WF_signalVars(part = "signalling" /\ SocketCloses)
    /\ WF_signalVars(part = "signalling" /\ (PumpReceives \/ PumpRelays))
    /\ \A t \in Tasks : WF_signalVars(part = "signalling" /\ SendsNext(t))
    /\ WF_sensorVars(part = "sensors" /\ UsableFrame)
    /\ WF_sensorVars(part = "sensors" /\ UsableMessage)

(* Every field an entity shows has a writer that the other does not keep from *)
(* writing (ViewFed), in the behaviours that follow a field.                  *)
SensorFed == part = "sensors" => ViewFed

MCSpec == MCInit /\ [][MCNext]_mcVars /\ MCFairness
=============================================================================
