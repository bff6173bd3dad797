-------------------------- MODULE TrackedSessions ---------------------------
(***************************************************************************)
(* The transmissions that HoundTTS-mission.lua ties to a unit or a static  *)
(* object: tracked_sessions, the timer function that walks it twice a      *)
(* second, and the handler that kills every session at the mission's end.  *)
(*                                                                         *)
(* Each load of the script has a table, a timer and a handler of its own,  *)
(* while the functions of HoundTTS are those of the last load.  Of the     *)
(* DLL's sessions (SessionLifecycle) only what Lua can tell is kept.  Lua  *)
(* runs in one thread; what streams do during a walk commutes with it,     *)
(* each session being asked about once.                                    *)
(***************************************************************************)
EXTENDS Mission

CONSTANTS
  Sessions,   \* session ids: transmissions with a dcsObject
  Units,      \* DCS units: they move and die
  Statics,    \* static objects: they stay, and may be destroyed
  Places,     \* positions
  Home,       \* where each object is when the mission starts
  NoPlace,    \* no position
  NoObject    \* a session that was not started

Objects == Units \cup Statics

ASSUME TrackedAssumption ==
  /\ Home \in [Objects -> Places]
  /\ NoPlace \notin Places
  /\ NoObject \notin Objects
  /\ Units \cap Statics = {}

VARIABLES
  exists,    \* the objects of this mission that are alive
  where,     \* their positions
  point,     \* tp.point of the parameter table a script keeps for an object
  state,     \* a session in the DLL
  object,    \* the object it is tied to
  at,        \* the position the DLL has for it
  born,      \* the mission it was started in
  late,      \* it was started after the event that ends its mission
  tracked    \* tracked_sessions of each load of the script

objectVars  == <<exists, where, point>>
sessionVars == <<state, object, at, born, late>>
trackVars   == <<objectVars, sessionVars, tracked>>

\* Started; attached once Transmit has its position data; over once it is
\* killed or played out, whether or not it is still in the map.
Live == {"started", "attached"}

TrackTypeOK ==
  /\ exists \subseteq Objects
  /\ where \in [Objects -> Places]
  /\ point \in [Objects -> Places \cup {NoPlace}]
  /\ state \in [Sessions -> Live \cup {"none", "over"}]
  /\ object \in [Sessions -> Objects \cup {NoObject}]
  /\ at \in [Sessions -> Places \cup {NoPlace}]
  /\ born \in [Sessions -> 0 .. MaxMissions]
  /\ late \in [Sessions -> BOOLEAN]
  /\ tracked \in [1 .. MaxLoads -> SUBSET Sessions]

ObjectsInit ==
  /\ exists = Objects
  /\ where = Home
  /\ point = [o \in Objects |-> NoPlace]
  /\ tracked = [k \in 1 .. MaxLoads |-> {}]

TrackInit ==
  /\ ObjectsInit
  /\ state = [s \in Sessions |-> "none"]
  /\ object = [s \in Sessions |-> NoObject]
  /\ at = [s \in Sessions |-> NoPlace]
  /\ born = [s \in Sessions |-> 0]
  /\ late = [s \in Sessions |-> FALSE]

-----------------------------------------------------------------------------
(* Objects and streams.                                                    *)

Move(u) ==
  /\ u \in exists
  /\ \E p \in Places : where' = [where EXCEPT ![u] = p]
  /\ UNCHANGED <<exists, point, sessionVars, tracked>>

Die(o) ==
  /\ o \in exists
  /\ exists' = exists \ {o}
  /\ UNCHANGED <<where, point, sessionVars, tracked>>

\* SRSBackend::Transmit attaches the position data, from the request's point.
Attach(s) ==
  /\ state[s] = "started"
  /\ state' = [state EXCEPT ![s] = "attached"]
  /\ UNCHANGED <<object, at, born, late, objectVars, tracked>>

PlayOut(s) ==
  /\ state[s] \in Live
  /\ state' = [state EXCEPT ![s] = "over"]
  /\ UNCHANGED <<object, at, born, late, objectVars, tracked>>

-----------------------------------------------------------------------------
(* The mission script.                                                     *)

\* getTransmitterPos: no position for an object that is not alive.
TransmitterPos(o) == IF o \in exists THEN where[o] ELSE NoPlace

\* A transmission with a dcsObject and no point, from a new parameter table or
\* from one the script keeps: the derived position is written into the table,
\* which has a point from then on.
DerivePoint(o, start) ==
  \/ /\ start = TransmitterPos(o)
     /\ point' = point
  \/ /\ start = IF point[o] # NoPlace THEN point[o] ELSE TransmitterPos(o)
     /\ point' = [point EXCEPT ![o] = start]

\* Transmit, TransmitNoise or TransmitTone: the session is tracked.
Transmit(s, o) ==
  /\ loads > 0
  /\ state[s] = "none"
  /\ state' = [state EXCEPT ![s] = "started"]
  /\ object' = [object EXCEPT ![s] = o]
  /\ \E start \in Places \cup {NoPlace} :
        /\ DerivePoint(o, start)
        /\ at' = [at EXCEPT ![s] = start]
  /\ born' = [born EXCEPT ![s] = mission]
  /\ late' = [late EXCEPT ![s] = ended]
  /\ tracked' = [tracked EXCEPT ![loads] = @ \cup {s}]
  /\ UNCHANGED <<exists, where>>

\* The DLL has no GUID for a session: nothing is transmitted or tracked, but the
\* table has its point.
TransmitFails(o) ==
  /\ loads > 0
  /\ \E start \in Places \cup {NoPlace} : DerivePoint(o, start)
  /\ UNCHANGED <<exists, where, sessionVars, tracked>>

\* Mutant: the session of a dead object is forgotten without being killed.
UpdateTrackedForgets(k) ==
  LET told == {s \in tracked[k] : object[s] \in exists} IN
  /\ k <= loads
  /\ at' = [s \in Sessions |->
              IF s \in told /\ object[s] \in Units /\ state[s] = "attached"
                THEN where[object[s]] ELSE at[s]]
  /\ tracked' = [tracked EXCEPT ![k] = {s \in told : state[s] \in Live}]
  /\ UNCHANGED <<state, object, born, late, objectVars>>

\* updateTrackedSessions of the k-th load: a session whose object is alive is
\* updated (with a point if the object is a unit, which is dropped before the
\* session is attached), and kept as long as it is alive; the other sessions are
\* killed and no longer tracked.
UpdateTracked(k) ==
  LET told == {s \in tracked[k] : object[s] \in exists} IN
  /\ k <= loads
  /\ at' = [s \in Sessions |->
              IF s \in told /\ object[s] \in Units /\ state[s] = "attached"
                THEN where[object[s]] ELSE at[s]]
  /\ state' = [s \in Sessions |-> IF s \in tracked[k] \ told THEN "over" ELSE state[s]]
  /\ tracked' = [tracked EXCEPT ![k] = {s \in told : state[s] \in Live}]
  /\ UNCHANGED <<object, born, late, objectVars>>

\* KillSession: the table is left to the next walk.
KillSession(s) ==
  /\ loads > 0
  /\ state[s] \in Live
  /\ state' = [state EXCEPT ![s] = "over"]
  /\ UNCHANGED <<object, at, born, late, objectVars, tracked>>

\* Mutant: only the sessions that the script knows are killed.
KillEverythingTracked ==
  /\ state' = [s \in Sessions |->
                 IF s \in tracked[loads] /\ state[s] \in Live THEN "over" ELSE state[s]]
  /\ tracked' = [tracked EXCEPT ![loads] = {}]
  /\ UNCHANGED <<object, at, born, late, objectVars>>

\* KillAllSessions: the table of the last load is emptied, and the DLL kills its
\* sessions, whatever mission they are from.
KillEverything ==
  /\ state' = [s \in Sessions |-> IF state[s] \in Live THEN "over" ELSE state[s]]
  /\ tracked' = [tracked EXCEPT ![loads] = {}]
  /\ UNCHANGED <<object, at, born, late, objectVars>>

KillAllSessions == loads > 0 /\ KillEverything

\* missionEndHandler, if the script was loaded.
HandleEnd ==
  IF loads > 0 THEN KillEverything ELSE UNCHANGED trackVars

\* Mutant: the second load empties the table that the first one uses.
LoadTrackingShared ==
  /\ tracked' = [k \in 1 .. MaxLoads |-> {}]
  /\ UNCHANGED <<objectVars, sessionVars>>

\* A load of the script makes a new, empty table.
LoadTracking ==
  /\ tracked' = [tracked EXCEPT ![loads + 1] = {}]
  /\ UNCHANGED <<objectVars, sessionVars>>

\* The next mission has new objects and no tables; sessions live on.
ForgetMission ==
  /\ exists' = Objects
  /\ where' = Home
  /\ point' = [o \in Objects |-> NoPlace]
  /\ tracked' = [k \in 1 .. MaxLoads |-> {}]
  /\ UNCHANGED sessionVars

TrackNext ==
  /\ \/ \E u \in Units : Move(u)
     \/ \E o \in Objects : Die(o)
     \/ \E s \in Sessions : Attach(s) \/ PlayOut(s) \/ KillSession(s)
     \/ \E s \in Sessions, o \in Objects : Transmit(s, o)
     \/ \E o \in Objects : TransmitFails(o)
     \/ \E k \in 1 .. MaxLoads : UpdateTracked(k)
     \/ KillAllSessions
  /\ UNCHANGED missionVars

-----------------------------------------------------------------------------

\* A session whose mission is running.
Current(s) == born[s] = mission /\ Running

\* README.md:568: the session of an object that dies or stops existing is
\* killed, in whichever table it is and however early it was when that happened
\* (HoundTTS-mission.lua:157-181).
DeadObjectEndsSession ==
  \A s \in Sessions :
    Current(s) /\ object[s] \notin exists ~> state[s] = "over" \/ ~Current(s)

\* README.md:568: the position follows the unit.  Whatever update was dropped
\* before the session was attached, and whatever old point a parameter table
\* held, a session on the air ends up where its unit comes to rest
\* (HoundTTS-mission.lua:157-181, 250-252).
AtRest(s, p) ==
  Current(s) /\ state[s] = "attached" /\ object[s] \in Units \cap exists /\ where[object[s]] = p

TrackedPositionFollows ==
  \A s \in Sessions, p \in Places : <>[]AtRest(s, p) => <>[](at[s] = p)

\* "Kill all active sessions on mission end to prevent jammers surviving a
\* restart": a session that survives the end of its mission was started after
\* the event (HoundTTS-mission.lua:663-671).
SurvivorsStartedLate ==
  \A s \in Sessions : state[s] \in Live /\ ~Current(s) => late[s]

=============================================================================
