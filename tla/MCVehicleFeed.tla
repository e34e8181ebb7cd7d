---------------------------- MODULE MCVehicleFeed ----------------------------
(* The instances of VehicleFeed that TLC checks.                           *)
EXTENDS VehicleFeed

MCUnsubscribers == {"unsub1"}
=============================================================================
