-------------------------- MODULE MCMissionScript ---------------------------
(* A unit and a static object, for the runs of MissionScript.              *)
EXTENDS MissionScript

CONSTANTS unit, static, p1, p2

MCHome == [o \in {unit, static} |-> p1]

=============================================================================
