-------------------------- MODULE MCRolloutRecorder --------------------------
(* Values of the constants of RolloutRecorder for TLC: two items with the   *)
(* same contents, one with usage.                                           *)
EXTENDS RolloutRecorder

CONSTANTS i1, i2, i3

MCItems == {i1, i2, i3}
MCPayload == [i \in MCItems |-> IF i = i3 THEN "usage" ELSE "text"]
MCUse == [i \in MCItems |-> IF i = i3 THEN 1 ELSE 0]
==============================================================================
