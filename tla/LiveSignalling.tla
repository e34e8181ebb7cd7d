--------------------------- MODULE LiveSignalling ----------------------------
(***************************************************************************)
(* What one live session relays (camera.py, _LiveSession and               *)
(* _pump_signaling; kvs_signaling.py): the offer and the viewer's          *)
(* candidates to the vehicle, the vehicle's answer and candidates to the   *)
(* viewer.  The tasks are the offer, the calls of                          *)
(* async_on_webrtc_candidate, and the pump; each writes a frame and then   *)
(* waits for the socket.  LiveCamera has the life of the sessions; here    *)
(* the session's configuration has arrived.                                *)
(***************************************************************************)
EXTENDS Naturals, Sequences, FiniteSets, SequencesExt

CONSTANTS Candidates,   \* the viewer's candidates
          Events,       \* bound: the events the vehicle sends
          Ours,         \* the client id the session makes up
          Bound,        \* one that a signed endpoint may name
          Absent        \* no id

ASSUME SignallingAssumption ==
    /\ Events \in Nat /\ Cardinality({Ours, Bound, Absent}) = 3
    /\ "offer" \notin Candidates

VARIABLES
    endpoint,   \* the endpoint of the configuration: [host, signed, id]
    socket,     \* live.ws, and the id its URL names: [state, id]
    client,     \* live.client_id
    over,       \* live.closed
    pending,    \* live.pending_ice
    batch,      \* what each flush has still to send
    task,       \* where the offer and the pump are
    recipient,  \* live.recipient_client_id: the vehicle's is known
    incoming,   \* the frames of the vehicle the pump has not received
    made,       \* how many events the vehicle has made
    given,      \* history: the candidates the viewer has given
    frames,     \* history: what was sent to the vehicle
    relayed,    \* history: how many events the viewer was sent
    late,       \* history: a message was relayed after the session was closed
    introduced  \* history: the pump has taken an event that names its sender

signalVars == <<endpoint, socket, client, over, pending, batch, task, recipient,
                incoming, made, given, frames, relayed, late, introduced>>

Tasks == {"offer", "pump"}
(* An answer or a candidate of the vehicle's, under its id or under none.  *)
Signals == {"signal", "unnamed"}
Endpoints == [host : {"kvs", "other", "cleartext"}, signed : BOOLEAN,
              id : {Bound, "blank", Absent}]

SignalTypeOK ==
    /\ endpoint \in Endpoints /\ client \in {Ours, Bound}
    /\ socket \in [state : {"none", "open", "closed"}, id : {Ours, Bound, "blank", Absent}]
    /\ {over, recipient, late, introduced} \subseteq BOOLEAN /\ {made, relayed} \subseteq 0..Events
    /\ pending \subseteq Candidates /\ given \subseteq Candidates
    /\ batch \in [Tasks -> SUBSET Candidates]
    /\ \A t \in Tasks : batch[t] \cap pending = {}
    /\ task \in [Tasks -> {"no", "sending", "flushing", "listening", "junk", "done"} \cup Signals]
    /\ incoming \in Seq(Signals \cup {"junk"})
    /\ \A i \in DOMAIN frames : frames[i] \in [of : Candidates \cup {"offer"}, named : BOOLEAN]

-----------------------------------------------------------------------------
(* The endpoint.                                                           *)

(* signaling_ws_url: the id in the URL.  A signed URL is not touched, nor  *)
(* one that names an id.                                                   *)
UrlId(e, id) == IF e.signed \/ e.id # Absent THEN e.id ELSE id

OursAlways(e) == Ours   \* mutant: the session keeps the id it made up

(* client_id_from_endpoint: an id that is not blank binds the session.     *)
ClientOf(e) == IF e.id \in {"blank", Absent} THEN Ours ELSE e.id

(* Only a host of Kinesis Video under wss is accepted.                     *)
Accepted(e) == e.host = "kvs"

-----------------------------------------------------------------------------
SignalInit ==
    /\ endpoint \in Endpoints /\ client = Ours /\ over = FALSE
    /\ socket = [state |-> "none", id |-> Absent]
    /\ pending = {} /\ batch = [t \in Tasks |-> {}] /\ task = [t \in Tasks |-> "no"]
    /\ recipient = FALSE /\ incoming = <<>> /\ made = 0
    /\ given = {} /\ frames = <<>> /\ relayed = 0 /\ late = FALSE /\ introduced = FALSE

Open == socket.state = "open"

(* The offer: connect, start the pump, send the offer.                     *)
SocketOpens ==
    /\ task["offer"] = "no" /\ ~over /\ Accepted(endpoint)
    /\ client' = ClientOf(endpoint)
    /\ socket' = [state |-> "open", id |-> UrlId(endpoint, ClientOf(endpoint))]
    /\ task' = [offer |-> "sending", pump |-> "listening"]
    /\ frames' = Append(frames, [of |-> "offer", named |-> FALSE])
    /\ UNCHANGED <<endpoint, over, pending, batch, recipient, incoming, made, given, relayed,
                   late, introduced>>

(* The endpoint is refused, or the socket cannot be opened.                *)
SocketFails ==
    /\ task["offer"] = "no" /\ ~over
    /\ task' = [task EXCEPT !["offer"] = "done"] /\ over' = TRUE
    /\ UNCHANGED <<endpoint, socket, client, pending, batch, recipient, incoming, made, given,
                   frames, relayed, late, introduced>>

FlushCopies(t) ==   \* mutant: pending_ice is not cleared before it is sent
    /\ batch' = [batch EXCEPT ![t] = pending]
    /\ UNCHANGED pending

(* flush_pending_ice, up to its first send.                                *)
Flushes(t) ==
    IF Open THEN batch' = [batch EXCEPT ![t] = pending] /\ pending' = {}
    ELSE UNCHANGED <<batch, pending>>

(* The offer has been sent.                                                *)
OfferWritten ==
    /\ task["offer"] = "sending"
    /\ Flushes("offer")
    /\ task' = [task EXCEPT !["offer"] = "flushing"]
    /\ UNCHANGED <<endpoint, socket, client, over, recipient, incoming, made, given, frames,
                   relayed, late, introduced>>

(* send_ice of the next candidate of a flush: while the socket is closed   *)
(* it goes back to the pending ones.                                       *)
SendsNext(t) ==
    /\ \E c \in batch[t] :
          /\ batch' = [batch EXCEPT ![t] = @ \ {c}]
          /\ IF Open THEN frames' = Append(frames, [of |-> c, named |-> recipient])
                          /\ UNCHANGED pending
             ELSE pending' = pending \cup {c} /\ UNCHANGED frames
    /\ UNCHANGED <<endpoint, socket, client, over, task, recipient, incoming, made, given,
                   relayed, late, introduced>>

OfferDone ==
    /\ task["offer"] = "flushing" /\ batch["offer"] = {}
    /\ task' = [task EXCEPT !["offer"] = "done"]
    /\ UNCHANGED <<endpoint, socket, client, over, pending, batch, recipient, incoming, made,
                   given, frames, relayed, late, introduced>>

SentOrDropped(c) ==   \* mutant: a candidate given during the connection is dropped
    IF Open THEN frames' = Append(frames, [of |-> c, named |-> recipient]) /\ UNCHANGED pending
    ELSE UNCHANGED <<frames, pending>>

SentOrKept(c) ==
    IF Open THEN frames' = Append(frames, [of |-> c, named |-> recipient]) /\ UNCHANGED pending
    ELSE pending' = pending \cup {c} /\ UNCHANGED frames

(* async_on_webrtc_candidate.                                              *)
ViewerGives(c) ==
    /\ c \notin given /\ ~over
    /\ given' = given \cup {c} /\ SentOrKept(c)
    /\ UNCHANGED <<endpoint, socket, client, over, batch, task, recipient, incoming, made,
                   relayed, late, introduced>>

(* The vehicle signals, or sends something that is no signal.              *)
VehicleSends(e) ==
    /\ Open /\ made < Events
    /\ incoming' = Append(incoming, e) /\ made' = made + 1
    /\ UNCHANGED <<endpoint, socket, client, over, pending, batch, task, recipient, given,
                   frames, relayed, late, introduced>>

SenderWiped(e) ==   \* mutant: a signal without a sender takes the name back
    e = "signal" \/ (recipient /\ e = "junk")

(* The sender of a signal is the recipient from then on, if it has a name. *)
NamedBy(e) == recipient \/ e = "signal"

(* _pump_signaling: a frame, with parse_signaling_event; the pending       *)
(* candidates are sent before it is relayed.                               *)
PumpReceives ==
    /\ task["pump"] = "listening" /\ incoming # <<>>
    /\ incoming' = Tail(incoming) /\ recipient' = NamedBy(Head(incoming))
    /\ task' = [task EXCEPT !["pump"] = Head(incoming)]
    /\ introduced' = (introduced \/ Head(incoming) = "signal")
    /\ IF Head(incoming) \in Signals THEN Flushes("pump") ELSE UNCHANGED <<batch, pending>>
    /\ UNCHANGED <<endpoint, socket, client, over, made, given, frames, relayed, late>>

(* ... and after its flush.                                                *)
PumpRelays ==
    /\ task["pump"] \in Signals \cup {"junk"} /\ batch["pump"] = {}
    /\ task' = [task EXCEPT !["pump"] = "listening"]
    /\ relayed' = IF task["pump"] \in Signals THEN relayed + 1 ELSE relayed
    /\ late' = (late \/ over)
    /\ UNCHANGED <<endpoint, socket, client, over, pending, batch, recipient, incoming, made,
                   given, frames, introduced>>

PumpRunsOn ==   \* mutant: closing a session leaves its pump
    UNCHANGED <<task, batch>>

(* aclose cancels the pump, wherever it is.                                *)
PumpCancelled ==
    /\ task' = [task EXCEPT !["pump"] = "done"]
    /\ batch' = [batch EXCEPT !["pump"] = {}]

(* The session is closed, by the viewer or because the service hung up:    *)
(* then the socket is closed already.                                      *)
Closes ==
    /\ ~over /\ over' = TRUE /\ PumpCancelled
    /\ socket' \in {socket, IF Open THEN [socket EXCEPT !.state = "closed"] ELSE socket}
    /\ UNCHANGED <<endpoint, client, pending, recipient, incoming, made, given, frames, relayed,
                   late, introduced>>

(* aclose, after the pump.                                                 *)
SocketCloses ==
    /\ over /\ Open /\ socket' = [socket EXCEPT !.state = "closed"]
    /\ UNCHANGED <<endpoint, client, over, pending, batch, task, recipient, incoming, made,
                   given, frames, relayed, late, introduced>>

SignalNext ==
    \/ SocketOpens \/ SocketFails \/ OfferWritten \/ OfferDone \/ PumpReceives \/ PumpRelays
    \/ \E t \in Tasks : SendsNext(t)
    \/ \E c \in Candidates : ViewerGives(c)
    \/ \E e \in Signals \cup {"junk"} : VehicleSends(e)
    \/ Closes \/ SocketCloses

SignalSpec == SignalInit /\ [][SignalNext]_signalVars

SignalFairness ==
    /\ WF_signalVars(SocketOpens \/ SocketFails) /\ WF_signalVars(OfferWritten)
    /\ WF_signalVars(SocketCloses)
    /\ WF_signalVars(PumpReceives \/ PumpRelays)
    /\ \A t \in Tasks : WF_signalVars(SendsNext(t))

-----------------------------------------------------------------------------
(* The vehicle gets the offer first, and every candidate at most once,     *)
(* though three tasks send and two of them from the same list              *)
(* (_async_run_offer, flush_pending_ice).                                  *)
OfferFirstThenEachOnce ==
    /\ frames # <<>> => frames[1].of = "offer"
    /\ \A i, j \in DOMAIN frames : frames[i].of = frames[j].of => i = j

(* A candidate sent after the pump took a signal under the vehicle's name  *)
(* is addressed to it, whatever signals without a name come in between: a  *)
(* frame sent without the name was sent before any with it, and the name,  *)
(* once the vehicle has said it, stays known (recipient_client_id; an      *)
(* event without a senderClientId leaves it alone).                        *)
NamedOnceKnown ==
    /\ \A i, j \in DOMAIN frames : i < j /\ frames[i].named => frames[j].named
    /\ introduced => recipient

(* Nothing reaches the viewer of a session that is over, even if the pump  *)
(* was sending when it ended (aclose cancels it).                          *)
NothingAfterTheEnd == ~late

(* The frames name as their sender the id of the URL they go to, unless    *)
(* the endpoint is signed and names none, or names a blank one.            *)
SenderIsOfUrl ==
    socket.state # "none" => socket.id \in {client, "blank"} \/ (endpoint.signed /\ socket.id = Absent)

(* The candidates the viewer gives reach the vehicle, or the session ends. *)
CandidatesArrive ==
    LET arrived == {frames[i].of : i \in DOMAIN frames} IN
    ~(given \subseteq arrived) ~> (over \/ given \subseteq arrived)

(* A session relays the offer first, then every candidate, once and        *)
(* addressed as well as can be, and nothing after its end.                 *)
SignalsRelayed ==
    /\ SignalTypeOK
    /\ OfferFirstThenEachOnce
    /\ NamedOnceKnown
    /\ NothingAfterTheEnd
    /\ SenderIsOfUrl
=============================================================================
