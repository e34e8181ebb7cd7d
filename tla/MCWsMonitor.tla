----------------------------- MODULE MCWsMonitor -----------------------------
(* Model values for WsMonitor: two subscriptions, two sockets.             *)
EXTENDS WsMonitor, TLC

CONSTANTS s1, s2, w1, w2

MCCalls == {s1, s2}
MCOneCall == {s1}
MCConns == {w1, w2}
Symmetry == Permutations(MCCalls) \cup Permutations(MCConns)
=============================================================================
