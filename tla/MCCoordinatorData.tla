-------------------------- MODULE MCCoordinatorData --------------------------
(* Small values for CoordinatorData.  One frame names two keys at most: the  *)
(* charging stream runs beside the keys it shares, and stands still beside   *)
(* the others.                                                               *)
EXTENDS CoordinatorData

VARIABLE focus   \* the keys the frames name in this behaviour

MCInit == DataInit /\ focus \in {{"field", "mileage"}, {"field", "status"}, {"eta", "status"}}
MCNext ==
    /\ DataNext(focus)
    /\ "eta" \notin focus => UNCHANGED chargingVars
    /\ UNCHANGED focus
MCSpec == MCInit /\ [][MCNext]_<<dataRecords, focus>>
=============================================================================
