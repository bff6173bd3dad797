------------------------- MODULE MissionScriptProofs -------------------------
(***************************************************************************)
(* Proofs about MissionScript, for any number of missions, messages,       *)
(* sessions and objects: translations are answered with whole results,     *)
(* slots have pollers, and no session survives the end of its mission      *)
(* unless it was started after the event.                                  *)
(***************************************************************************)
EXTENDS MissionScript, TLAPS

\* What the proofs need of types, and no more.
SlotTypes ==
  /\ mission \in Nat \ {0}
  /\ asked \in [Messages -> Nat]
  /\ outcome \in [Messages -> Outcomes \cup {"none"}]
  /\ written \in [Messages -> SUBSET Fields]
  /\ stored \subseteq Messages
  /\ polls \subseteq Messages
  /\ answers \in [Messages -> Seq(Outcomes \cup {"empty", "refused", "unknown"})]

\* A message is answered only when it is not polled, and before that its thread
\* stores the fields of a result in order.
ResultInv ==
  /\ ResultIsWhole
  /\ \A m \in polls : answers[m] = <<>>
  /\ \A m \in Messages : outcome[m] = "none" => written[m] = {}
  /\ \A m \in Messages : \A f \in written[m] : Earlier(f) \subseteq written[m]

-----------------------------------------------------------------------------
(* What a step can do to the slots.                                        *)

SlotSteps ==
  \/ UNCHANGED <<mission, translateVars>>
  \/ Restart
  \/ /\ \E m \in Messages : TranslateAsync(m) \/ Refuse(m) \/ TranslateStep(m) \/ PollStep(m)
     /\ mission' = mission

LEMMA EveryStepIsSlotStep ==
  ASSUME [Next]_vars
  PROVE  SlotSteps
<1>1. ASSUME Load \/ MissionEnd \/ UNCHANGED vars
      PROVE  SlotSteps
  BY <1>1 DEF Load, LoadScript, MissionEnd, RaiseEnd, vars, missionVars, SlotSteps
<1>2. ASSUME TrackNext /\ UNCHANGED translateVars
      PROVE  SlotSteps
  BY <1>2 DEF TrackNext, missionVars, SlotSteps
<1>3. ASSUME TranslateNext
      PROVE  SlotSteps
  BY <1>3 DEF TranslateNext, missionVars, SlotSteps
<1> QED
  BY <1>1, <1>2, <1>3 DEF Next, SlotSteps

\* A result is one of the answers that a callback can get.
LEMMA ResultType ==
  ASSUME NEW m
  PROVE  Result(m) \in Outcomes \cup {"empty", "refused", "unknown"}
BY DEF Result, Outcomes

LEMMA SlotTypesStep ==
  ASSUME SlotTypes, SlotSteps
  PROVE  SlotTypes'
<1> USE DEF SlotTypes
<1> DEFINE A == Outcomes \cup {"empty", "refused", "unknown"}
<1>1. CASE UNCHANGED <<mission, translateVars>>
  BY <1>1 DEF translateVars
<1>2. CASE Restart
  BY <1>2 DEF Restart, NextMission, DropPolls
<1>3. ASSUME NEW m \in Messages, mission' = mission, TranslateAsync(m)
      PROVE  SlotTypes'
  BY <1>3 DEF TranslateAsync
<1>4. ASSUME NEW m \in Messages, mission' = mission, NEW a \in A,
             answers' = [answers EXCEPT ![m] = Append(@, a)]
      PROVE  answers' \in [Messages -> Seq(A)]
  <2> HIDE DEF A
  <2>1. answers \in [Messages -> Seq(A)]
    BY DEF A
  <2>2. Append(answers[m], a) \in Seq(A)
    BY <2>1
  <2> QED
    BY <1>4, <2>1, <2>2
<1>5. ASSUME NEW m \in Messages, mission' = mission, Refuse(m)
      PROVE  SlotTypes'
  <2>1. answers' \in [Messages -> Seq(A)]
    BY <1>4, <1>5 DEF Refuse
  <2> QED
    BY <1>5, <2>1 DEF Refuse
<1>6. ASSUME NEW m \in Messages, mission' = mission, TranslateStep(m)
      PROVE  SlotTypes'
  BY <1>6 DEF TranslateStep, Fetch, Store
<1>7. ASSUME NEW m \in Messages, mission' = mission, PollStep(m)
      PROVE  SlotTypes'
  <2>1. CASE PollPending(m)
    BY <1>7, <2>1 DEF PollPending, translateVars
  <2>2. CASE PollDone(m)
    <3>1. answers' \in [Messages -> Seq(A)]
      BY <1>4, <1>7, <2>2, ResultType DEF PollDone
    <3> QED
      BY <1>7, <2>2, <3>1 DEF PollDone
  <2> QED
    BY <1>7, <2>1, <2>2 DEF PollStep
<1> QED
  BY <1>1, <1>2, <1>3, <1>5, <1>6, <1>7 DEF SlotSteps

LEMMA SlotsInit ==
  ASSUME Init
  PROVE  /\ mission = 1 /\ stored = {} /\ polls = {}
         /\ \A m \in Messages : /\ asked[m] = 0 /\ outcome[m] = "none"
                                /\ written[m] = {} /\ answers[m] = <<>>
         /\ SlotTypes
<1>1. /\ mission = 1 /\ stored = {} /\ polls = {}
      /\ asked = [m \in Messages |-> 0]
      /\ outcome = [m \in Messages |-> "none"]
      /\ written = [m \in Messages |-> {}]
      /\ answers = [m \in Messages |-> <<>>]
  BY DEF Init, MissionInit, TranslateInit
<1>2. answers \in [Messages -> Seq(Outcomes \cup {"empty", "refused", "unknown"})]
  BY <1>1
<1> QED
  BY <1>1, <1>2 DEF SlotTypes

-----------------------------------------------------------------------------

LEMMA PollersStep ==
  ASSUME SlotTypes, SlotsHavePollers, SlotSteps
  PROVE  SlotsHavePollers'
<1> USE DEF SlotTypes, SlotsHavePollers
<1>1. CASE UNCHANGED <<mission, translateVars>>
  BY <1>1 DEF translateVars
<1>2. CASE Restart
  BY <1>2 DEF Restart, NextMission, DropPolls
<1>3. ASSUME NEW m \in Messages, mission' = mission, TranslateAsync(m)
      PROVE  SlotsHavePollers'
  BY <1>3 DEF TranslateAsync, Fresh
<1>4. ASSUME NEW m \in Messages, mission' = mission, Refuse(m) \/ TranslateStep(m)
      PROVE  SlotsHavePollers'
  BY <1>4 DEF Refuse, TranslateStep, Fetch, Store
<1>5. ASSUME NEW m \in Messages, mission' = mission, PollStep(m)
      PROVE  SlotsHavePollers'
  BY <1>5 DEF PollStep, PollPending, PollDone, translateVars
<1> QED
  BY <1>1, <1>2, <1>3, <1>4, <1>5 DEF SlotSteps

\* No slot is left behind by a mission that goes on, and no poll is left without
\* its slot (lua_translate.cpp:65-69, 150-160, 212-215).
THEOREM SlotsArePolled == Spec => []SlotsHavePollers
<1>1. Init => SlotTypes /\ SlotsHavePollers
  BY SlotsInit DEF SlotsHavePollers
<1>2. SlotTypes /\ SlotsHavePollers /\ [Next]_vars => (SlotTypes /\ SlotsHavePollers)'
  BY EveryStepIsSlotStep, SlotTypesStep, PollersStep
<1> QED
  BY <1>1, <1>2, PTL DEF Spec

-----------------------------------------------------------------------------

LEMMA ResultStep ==
  ASSUME StoresInOrder, SlotTypes, SlotsHavePollers, ResultInv, SlotSteps
  PROVE  ResultInv'
<1> USE DEF SlotTypes, ResultInv, ResultIsWhole
<1>1. CASE UNCHANGED <<mission, translateVars>>
  BY <1>1 DEF translateVars
<1>2. CASE Restart
  BY <1>2 DEF Restart, DropPolls
<1>3. ASSUME NEW m \in Messages, TranslateAsync(m)
      PROVE  ResultInv'
  BY <1>3 DEF TranslateAsync, Fresh
<1>4. ASSUME NEW m \in Messages, Refuse(m)
      PROVE  ResultInv'
  <2>1. m \notin polls
    BY <1>4 DEF Refuse, Fresh, SlotsHavePollers
  <2> QED
    BY <1>4, <2>1 DEF Refuse, Fresh
<1>5. ASSUME NEW m \in Messages, Fetch(m)
      PROVE  ResultInv'
  BY <1>5 DEF Fetch, Outcomes
<1>6. ASSUME NEW m \in Messages, NEW f \in Fields, Store(m, f)
      PROVE  ResultInv'
  BY <1>6 DEF Store, Earlier, Fields
<1>7. ASSUME NEW m \in Messages, PollStep(m)
      PROVE  ResultInv'
  <2>1. CASE PollPending(m)
    BY <1>7, <2>1 DEF PollPending, translateVars
  <2>2. CASE PollDone(m)
    <3>1. /\ m \in polls /\ m \in stored /\ "done" \in written[m] /\ answers[m] = <<>>
      BY <2>2 DEF PollDone, SlotsHavePollers
    <3>2. /\ outcome[m] \in Outcomes
          /\ "error" \in written[m] /\ "text" \in written[m]
      BY <3>1 DEF Earlier
    <3>3. Result(m) = outcome[m]
      BY <3>1, <3>2 DEF Result, Outcomes
    <3>4. answers' = [answers EXCEPT ![m] = <<outcome[m]>>]
      BY <2>2, <3>1, <3>3 DEF PollDone
    <3>5. polls' = polls \ {m} /\ UNCHANGED <<outcome, written>>
      BY <2>2 DEF PollDone
    <3>6. /\ answers'[m] = <<outcome[m]>>
          /\ \A n \in Messages : n # m => answers'[n] = answers[n]
      BY <3>4
    <3>7. ResultIsWhole'
      <4>1. answers'[m] \in {<<o>> : o \in {outcome'[m]} \cap Outcomes}
        BY <3>2, <3>5, <3>6
      <4>2. ASSUME NEW n \in Messages, n # m
            PROVE  answers'[n] = answers[n] /\ outcome'[n] = outcome[n]
        BY <3>5, <3>6, <4>2
      <4> QED
        BY <4>1, <4>2
    <3> QED
      BY <3>5, <3>6, <3>7
  <2> QED
    BY <1>7, <2>1, <2>2 DEF PollStep
<1> QED
  BY <1>1, <1>2, <1>3, <1>4, <1>5, <1>6, <1>7 DEF SlotSteps, TranslateStep

\* A callback is called once, with what the provider returned, as long as the
\* thread's stores stay in order (lua_translate.cpp:76-85, 208-227).
THEOREM ResultsAreWhole ==
  ASSUME StoresInOrder
  PROVE  Spec => []ResultIsWhole
<1> DEFINE I == SlotTypes /\ SlotsHavePollers /\ ResultInv
<1>1. Init => I
  BY SlotsInit DEF SlotsHavePollers, ResultInv, ResultIsWhole
<1>2. I /\ [Next]_vars => I'
  BY EveryStepIsSlotStep, SlotTypesStep, PollersStep, ResultStep
<1>3. I => ResultIsWhole
  BY DEF ResultInv
<1> HIDE DEF I
<1> QED
  BY <1>1, <1>2, <1>3, PTL DEF Spec

-----------------------------------------------------------------------------
(* Sessions and missions.                                                  *)

\* As long as a mission's Lua state has not loaded the script, no session of it
\* can be live, and there is no handler that would kill one.
SurvivorsInv ==
  /\ SurvivorsStartedLate
  /\ loads = 0 => \A s \in Sessions : state[s] \in Live => late[s]
  /\ mission \in Nat /\ loads \in Nat /\ ended \in BOOLEAN
  /\ state \in [Sessions -> Live \cup {"none", "over"}]
  /\ born \in [Sessions -> Nat]
  /\ late \in [Sessions -> BOOLEAN]

LEMMA SurvivorsStep ==
  ASSUME SurvivorsInv, [Next]_vars
  PROVE  SurvivorsInv'
<1> USE DEF SurvivorsInv, SurvivorsStartedLate, Current, Running, Live
<1>1. CASE UNCHANGED <<mission, ended, loads, state, born, late>>
  BY <1>1
<1>2. CASE Load
  BY <1>2 DEF Load, LoadScript, LoadTracking, sessionVars
<1>3. CASE MissionEnd
  <2>1. mission' = mission /\ ended' = TRUE /\ loads' = loads
        /\ UNCHANGED <<born, late>>
    BY <1>3 DEF MissionEnd, RaiseEnd, HandleEnd, KillEverything, trackVars, sessionVars
  <2>2. CASE loads > 0
    <3>1. state' = [s \in Sessions |-> IF state[s] \in Live THEN "over" ELSE state[s]]
      BY <1>3, <2>2 DEF MissionEnd, HandleEnd, KillEverything
    <3> QED
      BY <2>1, <3>1
  <2>3. CASE ~(loads > 0)
    <3>1. state' = state
      BY <1>3, <2>3 DEF MissionEnd, HandleEnd, trackVars, sessionVars
    <3>2. loads = 0
      BY <2>3
    <3> QED
      BY <2>1, <3>1, <3>2
  <2> QED
    BY <2>2, <2>3
<1>4. CASE Restart
  <2>1. /\ ended /\ ended' = FALSE /\ mission' = mission + 1 /\ loads' = 0
        /\ UNCHANGED <<state, born, late>>
    BY <1>4 DEF Restart, NextMission, ForgetMission, sessionVars
  <2>2. \A s \in Sessions : state[s] \in Live => late[s]
    BY <2>1
  <2>3. SurvivorsStartedLate' /\ \A s \in Sessions : state'[s] \in Live => late'[s]
    BY <2>1, <2>2
  <2>4. mission' \in Nat /\ loads' \in Nat
    BY <2>1
  <2>5. ended' \in BOOLEAN
    BY <2>1
  <2> QED
    BY <2>1, <2>3, <2>4, <2>5
<1>5. ASSUME NEW s \in Sessions, NEW o \in Objects, Transmit(s, o), UNCHANGED missionVars
      PROVE  SurvivorsInv'
  <2>1. /\ loads > 0 /\ UNCHANGED <<mission, ended, loads>>
        /\ state' = [state EXCEPT ![s] = "started"]
        /\ born' = [born EXCEPT ![s] = mission]
        /\ late' = [late EXCEPT ![s] = ended]
    BY <1>5 DEF Transmit, missionVars
  <2>2. \A r \in Sessions : r # s => /\ state'[r] = state[r]
                                     /\ born'[r] = born[r] /\ late'[r] = late[r]
    BY <2>1
  <2>3. born'[s] = mission /\ late'[s] = ended
    BY <2>1
  <2>4. SurvivorsStartedLate'
    BY <2>1, <2>2, <2>3
  <2> QED
    BY <2>1, <2>4
<1>6. ASSUME UNCHANGED <<mission, ended, loads, born, late>>,
             state' \in [Sessions -> Live \cup {"none", "over"}],
             \A s \in Sessions : state'[s] \in Live => state[s] \in Live
      PROVE  SurvivorsInv'
  BY <1>6
<1>7. CASE TrackNext /\ ~\E s \in Sessions, o \in Objects : Transmit(s, o)
  <2>1. UNCHANGED <<mission, ended, loads>>
    BY <1>7 DEF TrackNext, missionVars
  <2>2. ASSUME \/ \E u \in Units : Move(u)
               \/ \E o \in Objects : Die(o) \/ TransmitFails(o)
        PROVE  SurvivorsInv'
    BY <1>1, <2>1, <2>2 DEF Move, Die, TransmitFails, sessionVars
  <2>3. ASSUME NEW s \in Sessions, Attach(s) \/ PlayOut(s) \/ KillSession(s)
        PROVE  SurvivorsInv'
    BY <1>6, <2>1, <2>3 DEF Attach, PlayOut, KillSession
  <2>4. ASSUME NEW k \in 1 .. MaxLoads, UpdateTracked(k)
        PROVE  SurvivorsInv'
    BY <1>6, <2>1, <2>4 DEF UpdateTracked
  <2>5. ASSUME KillAllSessions
        PROVE  SurvivorsInv'
    BY <1>6, <2>1, <2>5 DEF KillAllSessions, KillEverything
  <2> QED
    BY <1>7, <2>2, <2>3, <2>4, <2>5 DEF TrackNext
<1> QED
  BY <1>1, <1>2, <1>3, <1>4, <1>5, <1>7 DEF Next, TrackNext, TranslateNext, vars, trackVars,
     sessionVars, missionVars

\* A session that survives the end of its mission was started after the event,
\* in any number of missions (HoundTTS-mission.lua:663-671).
THEOREM SurvivorsAreLate == Spec => []SurvivorsStartedLate
<1>1. Init => SurvivorsInv
  <2> SUFFICES ASSUME Init PROVE SurvivorsInv
    OBVIOUS
  <2>1. mission = 1 /\ loads = 0 /\ ended = FALSE
    BY DEF Init, MissionInit
  <2>2. /\ state = [s \in Sessions |-> "none"] /\ born = [s \in Sessions |-> 0]
        /\ late = [s \in Sessions |-> FALSE]
    BY DEF Init, TrackInit
  <2> QED
    BY <2>1, <2>2 DEF SurvivorsInv, SurvivorsStartedLate, Live
<1>2. SurvivorsInv /\ [Next]_vars => SurvivorsInv'
  BY SurvivorsStep
<1>3. SurvivorsInv => SurvivorsStartedLate
  BY DEF SurvivorsInv
<1> QED
  BY <1>1, <1>2, <1>3, PTL DEF Spec

-----------------------------------------------------------------------------
(* Types.                                                                  *)

PlainTypeOK == MissionTypeOK /\ asked \in [Messages -> 0 .. MaxMissions]

LEMMA PlainTypeStep ==
  ASSUME PlainTypeOK, [Next]_vars
  PROVE  PlainTypeOK'
<1> USE DEF PlainTypeOK, MissionTypeOK, MaxLoads
<1>0. MaxMissions \in Nat
  BY MissionAssumption
<1>1. CASE Load
  <2>1. loads' \in 0 .. 2 /\ mission' = mission /\ ended' = ended
    BY <1>1 DEF Load, LoadScript
  <2> QED
    BY <1>1, <2>1 DEF Load, translateVars
<1>2. CASE MissionEnd
  BY <1>2 DEF MissionEnd, RaiseEnd, translateVars
<1>3. CASE Restart
  <2>1. mission' \in 1 .. MaxMissions /\ loads' \in 0 .. 2
    BY <1>0, <1>3 DEF Restart, NextMission
  <2>2. ended' \in BOOLEAN /\ asked' = asked
    BY <1>3 DEF Restart, NextMission, DropPolls
  <2> QED
    BY <2>1, <2>2
<1>4. CASE TranslateNext
  <2>1. \/ asked' = asked
        \/ \E m \in Messages : asked' = [asked EXCEPT ![m] = mission]
    BY <1>4 DEF TranslateNext, TranslateAsync, Refuse, TranslateStep, Fetch, Store, PollStep,
                PollPending, PollDone, translateVars
  <2>2. asked' \in [Messages -> 0 .. MaxMissions]
    BY <1>0, <2>1
  <2> QED
    BY <1>4, <2>2 DEF TranslateNext, missionVars
<1>5. CASE (TrackNext /\ UNCHANGED translateVars) \/ UNCHANGED vars
  BY <1>5 DEF TrackNext, missionVars, translateVars, vars
<1> QED
  BY <1>1, <1>2, <1>3, <1>4, <1>5 DEF Next

LEMMA TrackTypeStep ==
  ASSUME PlainTypeOK, TrackTypeOK, [Next]_vars
  PROVE  TrackTypeOK'
<1> USE DEF TrackTypeOK
<1>0. mission \in 0 .. MaxMissions /\ ended \in BOOLEAN
  BY MissionAssumption DEF PlainTypeOK, MissionTypeOK
<1>1. CASE Load
  BY <1>1 DEF Load, LoadTracking, sessionVars, objectVars
<1>2. ASSUME KillEverything
      PROVE  TrackTypeOK'
  BY <1>2 DEF KillEverything, objectVars, Live
<1>3. CASE UNCHANGED trackVars
  BY <1>3 DEF trackVars, objectVars, sessionVars
<1>4. CASE MissionEnd
  BY <1>2, <1>3, <1>4 DEF MissionEnd, HandleEnd
<1>5. CASE Restart
  <2>1. exists' = Objects /\ where' = Home /\ point' = [o \in Objects |-> NoPlace]
        /\ tracked' = [k \in 1 .. MaxLoads |-> {}] /\ UNCHANGED sessionVars
    BY <1>5 DEF Restart, ForgetMission
  <2> QED
    BY <2>1, TrackedAssumption DEF sessionVars
<1>6. ASSUME NEW o \in Objects, Die(o) \/ TransmitFails(o) \/ Move(o)
      PROVE  TrackTypeOK'
  <2>1. CASE Die(o)
    BY <2>1 DEF Die, sessionVars
  <2>2. CASE Move(o)
    BY <2>2 DEF Move, sessionVars
  <2>3. CASE TransmitFails(o)
    BY <2>3 DEF TransmitFails, DerivePoint, sessionVars
  <2> QED
    BY <1>6, <2>1, <2>2, <2>3
<1>7. ASSUME NEW s \in Sessions, Attach(s) \/ PlayOut(s) \/ KillSession(s)
      PROVE  TrackTypeOK'
  BY <1>7 DEF Attach, PlayOut, KillSession, objectVars, Live
<1>8. ASSUME NEW s \in Sessions, NEW o \in Objects, Transmit(s, o)
      PROVE  TrackTypeOK'
  <2>1. PICK start \in Places \cup {NoPlace} :
          DerivePoint(o, start) /\ at' = [at EXCEPT ![s] = start]
    BY <1>8 DEF Transmit
  <2>2. point' \in [Objects -> Places \cup {NoPlace}]
    BY <2>1 DEF DerivePoint
  <2>3. /\ state' \in [Sessions -> Live \cup {"none", "over"}]
        /\ object' \in [Sessions -> Objects \cup {NoObject}]
        /\ at' \in [Sessions -> Places \cup {NoPlace}]
    BY <1>8, <2>1 DEF Transmit, Live
  <2>4. born' \in [Sessions -> 0 .. MaxMissions]
    BY <1>0, <1>8 DEF Transmit
  <2>5. late' \in [Sessions -> BOOLEAN]
    BY <1>0, <1>8 DEF Transmit
  <2>6. tracked' \in [1 .. MaxLoads -> SUBSET Sessions]
    BY <1>8 DEF Transmit
  <2>7. exists' \subseteq Objects /\ where' \in [Objects -> Places]
    BY <1>8 DEF Transmit
  <2> QED
    BY <2>2, <2>3, <2>4, <2>5, <2>6, <2>7
<1>9. ASSUME NEW k \in 1 .. MaxLoads, UpdateTracked(k)
      PROVE  TrackTypeOK'
  <2> DEFINE told == {s \in tracked[k] : object[s] \in exists}
  <2>1. /\ at' = [s \in Sessions |->
                   IF s \in told /\ object[s] \in Units /\ state[s] = "attached"
                     THEN where[object[s]] ELSE at[s]]
        /\ state' = [s \in Sessions |-> IF s \in tracked[k] \ told THEN "over" ELSE state[s]]
        /\ tracked' = [tracked EXCEPT ![k] = {s \in told : state[s] \in Live}]
        /\ UNCHANGED <<object, born, late, exists, where, point>>
    BY <1>9 DEF UpdateTracked, objectVars
  <2>2. at' \in [Sessions -> Places \cup {NoPlace}]
    BY <2>1 DEF Objects
  <2>3. state' \in [Sessions -> Live \cup {"none", "over"}]
    BY <2>1 DEF Live
  <2>4. tracked' \in [1 .. MaxLoads -> SUBSET Sessions]
    BY <2>1
  <2> QED
    BY <2>1, <2>2, <2>3, <2>4
<1>10. CASE TrackNext
  BY <1>2, <1>6, <1>7, <1>8, <1>9, <1>10 DEF TrackNext, KillAllSessions, Objects
<1> QED
  BY <1>1, <1>3, <1>4, <1>5, <1>10 DEF Next, TranslateNext, vars

\* The variables keep their types.
THEOREM TypeCorrect == Spec => []TypeOK
<1> DEFINE I == SlotTypes /\ PlainTypeOK /\ TrackTypeOK
<1>1. Init => I
  <2> SUFFICES ASSUME Init PROVE I
    OBVIOUS
  <2>1. PlainTypeOK
    <3>1. mission \in 1 .. MaxMissions /\ loads \in 0 .. MaxLoads
      BY MissionAssumption DEF Init, MissionInit, MaxLoads
    <3>2. asked \in [Messages -> 0 .. MaxMissions]
      BY MissionAssumption DEF Init, TranslateInit
    <3>3. ended \in BOOLEAN
      BY DEF Init, MissionInit
    <3> QED
      BY <3>1, <3>2, <3>3 DEF PlainTypeOK, MissionTypeOK
  <2>2. TrackTypeOK
    <3>1. born \in [Sessions -> 0 .. MaxMissions]
      BY MissionAssumption DEF Init, TrackInit
    <3>2. /\ exists \subseteq Objects /\ where \in [Objects -> Places]
          /\ point \in [Objects -> Places \cup {NoPlace}]
      BY TrackedAssumption DEF Init, TrackInit, ObjectsInit
    <3>3. /\ state \in [Sessions -> Live \cup {"none", "over"}]
          /\ object \in [Sessions -> Objects \cup {NoObject}]
          /\ at \in [Sessions -> Places \cup {NoPlace}]
      BY DEF Init, TrackInit
    <3>4. late \in [Sessions -> BOOLEAN]
      BY DEF Init, TrackInit
    <3>5. tracked \in [1 .. MaxLoads -> SUBSET Sessions]
      BY DEF Init, TrackInit, ObjectsInit
    <3> QED
      BY <3>1, <3>2, <3>3, <3>4, <3>5 DEF TrackTypeOK
  <2> QED
    BY <2>1, <2>2, SlotsInit
<1>2. I /\ [Next]_vars => I'
  BY EveryStepIsSlotStep, SlotTypesStep, PlainTypeStep, TrackTypeStep
<1>3. I => TypeOK
  BY DEF SlotTypes, PlainTypeOK, TypeOK, TranslateTypeOK
<1> HIDE DEF I
<1> QED
  BY <1>1, <1>2, <1>3, PTL DEF Spec

=============================================================================
