------------------------- MODULE SubscriptionService -------------------------
(***************************************************************************)
(* What the websocket client promises to the coordinators, the commands    *)
(* and the live view, whatever becomes of its connections: a subscription  *)
(* is theirs from start_subscription to the call of the handle it          *)
(* returned, only what is theirs is served, a handle ends its subscription *)
(* in one step, and a connection that is lost may be followed by one that  *)
(* serves again whatever is still theirs.                                  *)
(***************************************************************************)
CONSTANT Ids

VARIABLES
    owned,    \* registered and not yet ended by their handles
    served    \* served to the client on the connection it uses

serviceVars == <<owned, served>>

ServiceInit == owned = {} /\ served = {}

(* start_subscription: the id is registered before it is sent, and the     *)
(* send may fail.                                                          *)
Register(i) ==
    /\ i \notin owned /\ owned' = owned \cup {i}
    /\ served' \in {served, served \cup {i}}

(* The handle that start_subscription returned.                            *)
Drop(i) == i \in owned /\ owned' = owned \ {i} /\ served' = served \ {i}

Serve(i) == i \in owned /\ served' = served \cup {i} /\ UNCHANGED owned

Disconnect == served' = {} /\ UNCHANGED owned

ServiceNext == (\E i \in Ids : Register(i) \/ Drop(i) \/ Serve(i)) \/ Disconnect

ServiceSpec == ServiceInit /\ [][ServiceNext]_serviceVars
=============================================================================
