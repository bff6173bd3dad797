--------------------------- MODULE MissionScript ----------------------------
(* The mission script's two timers, tracked sessions and polled translations, *)
(* over the missions they live in.                                            *)
EXTENDS TrackedSessions, TranslateSlots

vars == <<missionVars, trackVars, translateVars>>

TypeOK == MissionTypeOK /\ TrackTypeOK /\ TranslateTypeOK

Init == MissionInit /\ TrackInit /\ TranslateInit

Load == LoadScript /\ LoadTracking /\ UNCHANGED translateVars

MissionEnd == RaiseEnd /\ HandleEnd /\ UNCHANGED translateVars

Restart == NextMission /\ ForgetMission /\ DropPolls

Next ==
  \/ Load
  \/ MissionEnd
  \/ Restart
  \/ TrackNext /\ UNCHANGED translateVars
  \/ TranslateNext /\ UNCHANGED trackVars

Spec == Init /\ [][Next]_vars

\* The DLL's threads run, providers return, and while a mission runs DCS calls
\* the functions that its script has scheduled.
FairSpec ==
  /\ Spec
  /\ \A s \in Sessions : WF_vars(Attach(s) /\ UNCHANGED <<missionVars, translateVars>>)
  /\ \A m \in Messages : WF_vars(TranslateStep(m) /\ UNCHANGED <<missionVars, trackVars>>)
  /\ \A k \in 1 .. MaxLoads :
       WF_vars(Running /\ UpdateTracked(k) /\ UNCHANGED <<missionVars, translateVars>>)
  /\ \A m \in Messages :
       WF_vars(Running /\ PollStep(m) /\ UNCHANGED <<missionVars, trackVars>>)

=============================================================================
