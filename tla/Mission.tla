------------------------------ MODULE Mission -------------------------------
(***************************************************************************)
(* The life of DCS' mission scripting environment, as far as HoundTTS      *)
(* notices it: each mission has a Lua state of its own, into which         *)
(* HoundTTS-mission.lua is loaded by MissionScripting.lua, by the hook's   *)
(* onMissionLoadEnd or by both.  The Lua state, its tables and its timers  *)
(* go with the mission; the DLL and everything it holds stay.              *)
(***************************************************************************)
EXTENDS Naturals

CONSTANT MaxMissions   \* bound: missions flown one after the other

ASSUME MissionAssumption == MaxMissions \in Nat \ {0}

VARIABLES
  mission,   \* the number of the mission
  ended,     \* S_EVENT_MISSION_END was raised in it
  loads      \* how many times the mission script has run in its Lua state

missionVars == <<mission, ended, loads>>

MaxLoads == 2
Running == ~ended

MissionTypeOK ==
  /\ mission \in 1 .. MaxMissions
  /\ ended \in BOOLEAN
  /\ loads \in 0 .. MaxLoads

MissionInit ==
  /\ mission = 1
  /\ ended = FALSE
  /\ loads = 0

\* MissionScripting.lua, then the hook; either may be missing.
LoadScript ==
  /\ loads < MaxLoads
  /\ loads' = loads + 1
  /\ UNCHANGED <<mission, ended>>

\* The event that missionEndHandler waits for.
RaiseEnd ==
  /\ Running
  /\ ended' = TRUE
  /\ UNCHANGED <<mission, loads>>

\* DCS starts the next mission in a new Lua state.
NextMission ==
  /\ ended
  /\ mission < MaxMissions
  /\ mission' = mission + 1
  /\ ended' = FALSE
  /\ loads' = 0

=============================================================================
