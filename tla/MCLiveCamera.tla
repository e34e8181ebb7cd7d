----------------------------- MODULE MCLiveCamera -----------------------------
(* The instances of LiveCamera that TLC checks.                            *)
EXTENDS LiveCamera

CONSTANTS o1, o2, p1, left, front
=============================================================================
