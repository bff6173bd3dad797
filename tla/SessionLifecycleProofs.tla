------------------------ MODULE SessionLifecycleProofs ------------------------
(***************************************************************************)
(* Proofs about SessionLifecycle, for any set of sessions and coordinates. *)
(* Three inductive invariants, each on top of the previous one:            *)
(*   TypeOK   the types;                                                   *)
(*   LockInv  who holds syncMutex, where the callback is registered and    *)
(*            while which steps the client is connected;                   *)
(*   SentInv  what the stream thread has loaded and what was sent last;    *)
(* and OverInv, how far the session has got, when nobody calls Reap.       *)
(***************************************************************************)
EXTENDS SessionLifecycle, TLAPS

\* The steps during which the callback may be registered.
WithCallback == {"startTimer", "check", "heartbeat", "loadLon", "send",
                 "stopTimer", "clearCb"}

\* The steps during which the client is connected.
Connected == {"handshake", "resolve", "buffer", "register", "disconnect"}
               \cup WithCallback

\* The Lua thread is inside a call for a session.
LuaBusy == lua.pc \notin {"idle", "return"} => lua.s \in Sessions

\* The stream thread starts when the worker ends.  Then,
\* syncMutex is held exactly by the thread that runs the callback, which is
\* registered only while the stream thread streams, on an open connection.
LockInv ==
  /\ LuaBusy
  /\ \A s \in Sessions :
        /\ worker[s] = "done" <=> stream[s] # "none"
        /\ sync[s] = "lua" <=> (lua.pc = "callback" /\ lua.s = s)
        /\ sync[s] = "stream" <=> stream[s] \in {"loadLon", "send"}
        /\ cb[s] => stream[s] \in WithCallback
        /\ sync[s] # "free" => cb[s]
        /\ stream[s] \in Connected => client[s] = "open"

ConnectPC == {"none", "connect"}
OverPC    == {"cleanupSync", "cleanupAlive", "cleanupBackend", "cleanupRemove",
              "destroy", "end"}

\* How far a session has got determines what is left of it.
OverInv ==
  \A s \in Sessions :
     /\ worker[s] # "absent" /\ stream[s] \notin {"destroy", "end"} => s \in registry
     /\ worker[s] = "absent" => s \notin registry
     /\ stream[s] \in {"cleanupBackend", "cleanupRemove", "destroy", "end"} => ~alive[s]
     /\ backend[s] => stream[s] \notin {"none", "cleanupRemove", "destroy", "end"}
     /\ stream[s] \in ConnectPC \cup OverPC => client[s] # "open"
     /\ timer[s] = "running" => stream[s] \in {"check", "heartbeat", "loadLon",
                                               "send", "stopTimer"}

BeforeCallback == {"none", "connect", "handshake", "resolve", "buffer", "register"}

\* What was loaded is what is stored, and what was sent is what is stored,
\* unless the Lua thread is in the middle of a position update.
SentInv ==
  \A s \in Sessions :
     /\ stream[s] \in BeforeCallback => sentAt[s] = "never"
     /\ stream[s] = "loadLon" /\ ~LuaMovesPosition(s) => loaded[s].lat = pos[s].lat
     /\ stream[s] = "send" /\ ~LuaMovesPosition(s) => loaded[s] = pos[s]
     /\ cb[s] /\ sentAt[s] # "never" /\ ~sendFailed[s] /\ ~LuaMovesPosition(s)
           => lastSent[s] = pos[s]

-----------------------------------------------------------------------------

\* The parts of the tuple vars, for the stuttering steps.
LEMMA VarsUnchanged ==
  UNCHANGED vars =>
    UNCHANGED <<registry, alive, backend, kind, worker, producer, encoder,
                stream, client, timer, finished, pos, loaded, lastSent, sentAt,
                sendFailed, sync, cb, lua>>
BY DEF vars, sessionVars, threadVars, streamVars, positionVars, callbackVars

\* Sending a position keeps its bookkeeping in its types.
LEMMA PositionSyncTypes ==
  ASSUME NEW s \in Sessions, NEW p \in Position, TypeOK, PositionSync(s, p)
  PROVE  /\ lastSent' \in [Sessions -> Position]
         /\ sentAt' \in [Sessions -> {"never", "recent", "due"}]
         /\ sendFailed' \in [Sessions -> BOOLEAN]
<1>1. lastSent \in [Sessions -> Position] /\ sentAt \in [Sessions -> {"never", "recent", "due"}]
      /\ sendFailed \in [Sessions -> BOOLEAN]
  BY DEF TypeOK
<1>2. SendPosition(s, p) \/ UNCHANGED <<lastSent, sentAt, sendFailed>>
  BY DEF PositionSync
<1>3. CASE SendPosition(s, p)
  BY <1>1, <1>3 DEF SendPosition
<1>4. QED BY <1>1, <1>2, <1>3

\* Moving the program counter of the Lua thread keeps the type of its call.
LEMMA LuaPcType ==
  ASSUME TypeOK, NEW to \in LuaPC
  PROVE  [lua EXCEPT !.pc = to] \in LuaCall
BY DEF TypeOK, LuaCall

\* Storing a coordinate that an update carries keeps a position a position.
LEMMA StoreTypes ==
  ASSUME TypeOK, lua.s \in Sessions, LifecycleAssumption
  PROVE  /\ lua.upd.lat # NoValue => [pos EXCEPT ![lua.s].lat = lua.upd.lat] \in [Sessions -> Position]
         /\ lua.upd.lon # NoValue => [pos EXCEPT ![lua.s].lon = lua.upd.lon] \in [Sessions -> Position]
<1>1. lua.upd \in Update
  BY DEF TypeOK, LuaCall
<1>2. pos[lua.s] \in Position
  BY DEF TypeOK
<1>3. lua.upd.lat # NoValue => [pos[lua.s] EXCEPT !.lat = lua.upd.lat] \in Position
  BY <1>1, <1>2 DEF Update, Position
<1>4. lua.upd.lon # NoValue => [pos[lua.s] EXCEPT !.lon = lua.upd.lon] \in Position
  BY <1>1, <1>2 DEF Update, Position
<1>5. QED BY <1>3, <1>4 DEF TypeOK

\* The Lua thread's steps keep the types.
LEMMA LuaTypes ==
  ASSUME TypeOK, LuaBusy, LuaStep
  PROVE  TypeOK'
<1> USE DEF TypeOK, LuaBusy, sessionVars, threadVars, streamVars, positionVars,
        callbackVars
<1>0. \A to \in LuaPC : [lua EXCEPT !.pc = to] \in LuaCall
  BY LuaPcType
<1>a. {"readBackend", "storeLat", "storeLon", "lockSync", "callback", "setAlive", "return"} \subseteq LuaPC
  BY DEF LuaPC
<1>1. CASE LuaReadBackend
  BY <1>0, <1>a, <1>1 DEF LuaReadBackend
<1>2. CASE LuaStoreLat
  <2>1. pos' \in [Sessions -> Position]
    BY <1>2, StoreTypes, LifecycleAssumption DEF LuaStoreLat
  <2>2. QED BY <1>0, <1>a, <1>2, <2>1 DEF LuaStoreLat
<1>3. CASE LuaStoreLon
  <2>1. pos' \in [Sessions -> Position]
    BY <1>3, StoreTypes, LifecycleAssumption DEF LuaStoreLon
  <2>2. QED BY <1>0, <1>a, <1>3, <2>1 DEF LuaStoreLon
<1>4. CASE LuaLockSync
  <2>1. lua' \in LuaCall
    BY <1>0, <1>a, <1>4 DEF LuaLockSync
  <2>2. sync' \in [Sessions -> {"free", "lua", "stream"}]
    BY <1>4 DEF LuaLockSync
  <2>3. QED BY <1>4, <2>1, <2>2 DEF LuaLockSync
<1>5. CASE LuaCallback
  <2>1. lua.s \in Sessions /\ pos[lua.s] \in Position
    BY <1>5 DEF LuaCallback
  <2>2. PositionSync(lua.s, pos[lua.s])
    BY <1>5 DEF LuaCallback
  <2>3. /\ lastSent' \in [Sessions -> Position]
        /\ sentAt' \in [Sessions -> {"never", "recent", "due"}]
        /\ sendFailed' \in [Sessions -> BOOLEAN]
    BY <2>1, <2>2, PositionSyncTypes
  <2>4. QED BY <1>0, <1>a, <1>5, <2>3 DEF LuaCallback
<1>6. CASE LuaSetAlive
  <2>1. lua' \in LuaCall
    BY <1>6 DEF LuaSetAlive, LuaCall, LuaPC
  <2>2. alive' \in [Sessions -> BOOLEAN]
    <3>1. (alive[lua.s] /\ ~lua.kill) \in BOOLEAN
      OBVIOUS
    <3>2. QED BY <1>6, <3>1 DEF LuaSetAlive
  <2>3. QED BY <1>6, <2>1, <2>2 DEF LuaSetAlive
<1>7. CASE LuaReturn
  <2>1. LuaIdle \in LuaCall
    BY DEF LuaIdle, LuaCall, LuaPC, NoUpdate, Update
  <2>2. QED BY <1>7, <2>1 DEF LuaReturn
<1>8. QED BY <1>1, <1>2, <1>3, <1>4, <1>5, <1>6, <1>7 DEF LuaStep

\* The steps of the stream thread keep the types.
LEMMA StreamTypes ==
  ASSUME TypeOK, NEW s \in Sessions, StreamStep(s)
  PROVE  TypeOK'
<1> USE DEF TypeOK, sessionVars, threadVars, streamVars, positionVars,
        callbackVars, StreamAt
<1>0. \A to \in StreamPC : [stream EXCEPT ![s] = to] \in [Sessions -> StreamPC]
  OBVIOUS
<1>a. {"handshake", "resolve", "buffer", "register", "startTimer", "check",
       "heartbeat", "loadLon", "send", "stopTimer", "clearCb", "disconnect",
       "cleanupSync", "cleanupAlive", "cleanupBackend", "cleanupRemove",
       "destroy", "end"}
         \subseteq StreamPC
  BY DEF StreamPC
<1>1. CASE Connect(s)
  BY <1>0, <1>a, <1>1 DEF Connect
<1>2. CASE Handshake(s)
  BY <1>0, <1>a, <1>2 DEF Handshake
<1>3. CASE ResolveUdp(s)
  BY <1>0, <1>a, <1>3 DEF ResolveUdp
<1>4. CASE StartupBuffer(s)
  BY <1>0, <1>a, <1>4 DEF StartupBuffer
<1>5. CASE RegisterCallback(s)
  BY <1>0, <1>a, <1>5 DEF RegisterCallback
<1>6. CASE StartTimer(s)
  <2>1. timer' \in [Sessions -> {"off", "running", "failed"}]
    <3>1. \A x \in {"running", "failed"} : [timer EXCEPT ![s] = x] \in [Sessions -> {"off", "running", "failed"}]
      OBVIOUS
    <3>2. QED BY <1>6, <3>1 DEF StartTimer
  <2>2. QED BY <1>0, <1>a, <1>6, <2>1 DEF StartTimer
<1>7. CASE LoopCheck(s)
  <2>1. stream' \in [Sessions -> StreamPC]
    BY <1>0, <1>a, <1>7 DEF LoopCheck
  <2>2. finished' = finished \/ finished' = [finished EXCEPT ![s] = TRUE]
    BY <1>7 DEF LoopCheck
  <2>3. finished' \in [Sessions -> BOOLEAN]
    BY <2>2
  <2>4. QED BY <1>7, <2>1, <2>3 DEF LoopCheck
<1>8. CASE LoopHeartbeat(s)
  <2>1. loaded' \in [Sessions -> Position]
    <3>1. loaded[s] \in Position /\ pos[s] \in Position
      OBVIOUS
    <3>2. [loaded[s] EXCEPT !.lat = pos[s].lat] \in Position
      BY <3>1 DEF Position
    <3>3. QED BY <1>8, <3>2 DEF LoopHeartbeat
  <2>2. sync' \in [Sessions -> {"free", "lua", "stream"}]
    BY <1>8 DEF LoopHeartbeat
  <2>3. stream' \in [Sessions -> StreamPC]
    BY <1>0, <1>a, <1>8 DEF LoopHeartbeat
  <2>4. QED BY <1>8, <2>1, <2>2, <2>3 DEF LoopHeartbeat
<1>9. CASE LoadLon(s)
  <2>1. loaded' \in [Sessions -> Position]
    <3>1. loaded[s] \in Position /\ pos[s] \in Position
      OBVIOUS
    <3>2. [loaded[s] EXCEPT !.lon = pos[s].lon] \in Position
      BY <3>1 DEF Position
    <3>3. QED BY <1>9, <3>2 DEF LoadLon
  <2>2. QED BY <1>0, <1>a, <1>9, <2>1 DEF LoadLon
<1>10. CASE HeartbeatSend(s)
  <2>1. /\ lastSent' \in [Sessions -> Position]
        /\ sentAt' \in [Sessions -> {"never", "recent", "due"}]
        /\ sendFailed' \in [Sessions -> BOOLEAN]
    BY <1>10, PositionSyncTypes DEF HeartbeatSend
  <2>2. QED BY <1>0, <1>a, <1>10, <2>1 DEF HeartbeatSend
<1>11. CASE StopTimer(s)
  BY <1>0, <1>a, <1>11 DEF StopTimer
<1>12. CASE ClearCallback(s)
  BY <1>0, <1>a, <1>12 DEF ClearCallback
<1>13. CASE Disconnect(s)
  BY <1>0, <1>a, <1>13 DEF Disconnect
<1>14. CASE CleanupSync(s)
  BY <1>0, <1>a, <1>14 DEF CleanupSync
<1>15. CASE CleanupAlive(s)
  BY <1>0, <1>a, <1>15 DEF CleanupAlive
<1>16. CASE CleanupBackend(s)
  BY <1>0, <1>a, <1>16 DEF CleanupBackend
<1>17. CASE CleanupRemove(s)
  BY <1>0, <1>a, <1>17 DEF CleanupRemove
<1>18. CASE Destroy(s)
  BY <1>0, <1>a, <1>18 DEF Destroy
<1>19. QED
  BY <1>1, <1>2, <1>3, <1>4, <1>5, <1>6, <1>7, <1>8, <1>9, <1>10, <1>11,
     <1>12, <1>13, <1>14, <1>15, <1>16, <1>17, <1>18 DEF StreamStep

\* Every step keeps the types.
LEMMA NextTypes ==
  ASSUME TypeOK, LuaBusy, [Next]_vars
  PROVE  TypeOK'
<1> USE DEF sessionVars, threadVars, streamVars, positionVars, callbackVars
<1>1. ASSUME NEW s \in Sessions, NEW k \in {"speech", "generator"},
             NEW p \in Position, StartSession(s, k, p)
      PROVE  TypeOK'
  BY <1>1 DEF StartSession, TypeOK
<1>2. ASSUME NEW s \in Sessions, NEW upd \in Update, NEW kill \in BOOLEAN,
             LuaGet(s, upd, kill)
      PROVE  TypeOK'
  <2>1. lua' \in LuaCall
    BY <1>2 DEF LuaGet, LuaCall, LuaIdle, LuaPC, NoUpdate, Update
  <2>2. QED BY <1>2, <2>1 DEF LuaGet, TypeOK
<1>3. CASE LuaStep
  BY <1>3, LuaTypes
<1>4. CASE KillAll
  BY <1>4 DEF KillAll, TypeOK
<1>5. ASSUME NEW s \in Sessions, Reap(s)
      PROVE  TypeOK'
  BY <1>5 DEF Reap, TypeOK
<1>6. ASSUME NEW s \in Sessions, ProduceReturns(s)
      PROVE  TypeOK'
  BY <1>6 DEF ProduceReturns, TypeOK
<1>7. ASSUME NEW s \in Sessions, Transmit(s)
      PROVE  TypeOK'
  BY <1>7 DEF Transmit, TypeOK, StreamPC
<1>8. ASSUME NEW s \in Sessions, SpeechEnds(s) \/ GeneratorEnds(s) \/ GeneratorStops(s)
      PROVE  TypeOK'
  BY <1>8 DEF SpeechEnds, GeneratorEnds, GeneratorStops, TypeOK
<1>9. ASSUME NEW s \in Sessions, TimerDrained(s)
      PROVE  TypeOK'
  BY <1>9 DEF TimerDrained, TypeOK
<1>10. ASSUME NEW s \in Sessions, HeartbeatAges(s)
       PROVE  TypeOK'
  BY <1>10 DEF HeartbeatAges, TypeOK
<1>11. ASSUME NEW s \in Sessions, StreamStep(s)
       PROVE  TypeOK'
  BY <1>11, StreamTypes
<1>12. CASE UNCHANGED vars
  BY <1>12 DEF vars, TypeOK
<1>13. QED
  BY <1>1, <1>2, <1>3, <1>4, <1>5, <1>6, <1>7, <1>8, <1>9, <1>10, <1>11, <1>12
  DEF Next, StartSpeech, StartGenerator

-----------------------------------------------------------------------------

\* The Lua thread's steps keep LockInv: the lock is taken only when free, to
\* run a callback that is registered, and released when it returns.
LEMMA LuaLocks ==
  ASSUME TypeOK, LockInv, LuaStep
  PROVE  LockInv'
<1> USE DEF LockInv, LuaBusy, sessionVars, threadVars, streamVars,
        positionVars, callbackVars
<1> lua \in LuaCall
  BY DEF TypeOK
<1>1. CASE LuaReadBackend
  BY <1>1 DEF LuaReadBackend, LuaCall
<1>2. CASE LuaStoreLat
  BY <1>2 DEF LuaStoreLat, LuaCall
<1>3. CASE LuaStoreLon
  BY <1>3 DEF LuaStoreLon, LuaCall
<1>4. CASE LuaLockSync
  BY <1>4 DEF LuaLockSync, LuaCall, TypeOK
<1>5. CASE LuaCallback
  BY <1>5 DEF LuaCallback, LuaCall, TypeOK
<1>6. CASE LuaSetAlive
  BY <1>6 DEF LuaSetAlive, LuaCall
<1>7. CASE LuaReturn
  BY <1>7 DEF LuaReturn, LuaCall, LuaIdle
<1>8. QED BY <1>1, <1>2, <1>3, <1>4, <1>5, <1>6, <1>7 DEF LuaStep

\* The steps of the stream thread keep LockInv.
LEMMA StreamLocks ==
  ASSUME TypeOK, LockInv, NEW s \in Sessions, StreamStep(s)
  PROVE  LockInv'
<1> USE DEF LockInv, LuaBusy, sessionVars, threadVars, streamVars,
        positionVars, callbackVars, StreamAt, WithCallback, Connected
<1> /\ stream \in [Sessions -> StreamPC]
    /\ client \in [Sessions -> {"none", "half", "open", "closed"}]
    /\ sync \in [Sessions -> {"free", "lua", "stream"}]
    /\ cb \in [Sessions -> BOOLEAN]
  BY DEF TypeOK
<1>1. CASE Connect(s)
  BY <1>1 DEF Connect
<1>2. CASE Handshake(s)
  BY <1>2 DEF Handshake
<1>3. CASE ResolveUdp(s)
  BY <1>3 DEF ResolveUdp
<1>4. CASE StartupBuffer(s)
  BY <1>4 DEF StartupBuffer
<1>5. CASE RegisterCallback(s)
  BY <1>5 DEF RegisterCallback
<1>6. CASE StartTimer(s)
  BY <1>6 DEF StartTimer
<1>7. CASE LoopCheck(s)
  BY <1>7 DEF LoopCheck
<1>8. CASE LoopHeartbeat(s)
  BY <1>8 DEF LoopHeartbeat
<1>9. CASE LoadLon(s)
  BY <1>9 DEF LoadLon
<1>10. CASE HeartbeatSend(s)
  BY <1>10 DEF HeartbeatSend
<1>11. CASE StopTimer(s)
  BY <1>11 DEF StopTimer
<1>12. CASE ClearCallback(s)
  BY <1>12 DEF ClearCallback
<1>13. CASE Disconnect(s)
  BY <1>13 DEF Disconnect
<1>14. CASE CleanupSync(s)
  BY <1>14 DEF CleanupSync
<1>15. CASE CleanupAlive(s)
  BY <1>15 DEF CleanupAlive
<1>16. CASE CleanupBackend(s)
  BY <1>16 DEF CleanupBackend
<1>17. CASE CleanupRemove(s)
  BY <1>17 DEF CleanupRemove
<1>18. CASE Destroy(s)
  BY <1>18 DEF Destroy
<1>19. QED
  BY <1>1, <1>2, <1>3, <1>4, <1>5, <1>6, <1>7, <1>8, <1>9, <1>10, <1>11,
     <1>12, <1>13, <1>14, <1>15, <1>16, <1>17, <1>18 DEF StreamStep

\* Every step keeps LockInv.
LEMMA NextLocks ==
  ASSUME TypeOK, LockInv, [Next]_vars
  PROVE  LockInv'
<1> USE DEF LockInv, LuaBusy, sessionVars, threadVars, streamVars,
        positionVars, callbackVars
<1>1. ASSUME NEW s \in Sessions, NEW k \in {"speech", "generator"},
             NEW p \in Position, StartSession(s, k, p)
      PROVE  LockInv'
  BY <1>1 DEF StartSession, TypeOK
<1>2. ASSUME NEW s \in Sessions, NEW upd \in Update, NEW kill \in BOOLEAN,
             LuaGet(s, upd, kill)
      PROVE  LockInv'
  BY <1>2 DEF LuaGet, LuaIdle
<1>3. CASE LuaStep
  BY <1>3, LuaLocks
<1>4. CASE KillAll
  BY <1>4 DEF KillAll
<1>5. ASSUME NEW s \in Sessions, Reap(s)
      PROVE  LockInv'
  BY <1>5 DEF Reap
<1>6. ASSUME NEW s \in Sessions, ProduceReturns(s)
      PROVE  LockInv'
  BY <1>6 DEF ProduceReturns, TypeOK
<1>7. ASSUME NEW s \in Sessions, Transmit(s)
      PROVE  LockInv'
  BY <1>7 DEF Transmit, TypeOK, WithCallback, Connected
<1>8. ASSUME NEW s \in Sessions, SpeechEnds(s) \/ GeneratorEnds(s) \/ GeneratorStops(s)
      PROVE  LockInv'
  BY <1>8 DEF SpeechEnds, GeneratorEnds, GeneratorStops
<1>9. ASSUME NEW s \in Sessions, TimerDrained(s)
      PROVE  LockInv'
  BY <1>9 DEF TimerDrained
<1>10. ASSUME NEW s \in Sessions, HeartbeatAges(s)
       PROVE  LockInv'
  BY <1>10 DEF HeartbeatAges
<1>11. ASSUME NEW s \in Sessions, StreamStep(s)
       PROVE  LockInv'
  BY <1>11, StreamLocks
<1>12. CASE UNCHANGED vars
  BY <1>12 DEF vars
<1>13. QED
  BY <1>1, <1>2, <1>3, <1>4, <1>5, <1>6, <1>7, <1>8, <1>9, <1>10, <1>11, <1>12
  DEF Next, StartSpeech, StartGenerator

\* syncMutex, the callback and the connection go together.
THEOREM LocksHold == Spec => [](TypeOK /\ LockInv)
<1>1. Init => TypeOK /\ LockInv
  BY LifecycleAssumption
  DEF Init, TypeOK, LockInv, LuaBusy, LuaIdle, LuaCall, LuaPC, NoUpdate, Update,
      StreamPC, NoPosition, Position, WithCallback, Connected
<1>2. TypeOK /\ LockInv /\ [Next]_vars => TypeOK' /\ LockInv'
  BY NextTypes, NextLocks DEF LockInv
<1>3. QED BY <1>1, <1>2, PTL DEF Spec

\* The variables keep their types, whatever the sessions and coordinates.
THEOREM TypeCorrect == Spec => []TypeOK
BY LocksHold, PTL

\* A callback that holds an SRSClient by raw pointer is never reachable, nor
\* running, once the client's connection is closed.
THEOREM CallbackSafety == Spec => []CallbackSafe
<1>1. TypeOK /\ LockInv => CallbackSafe
  BY DEF TypeOK, LockInv, LuaBusy, CallbackSafe, WithCallback, Connected
<1>2. QED BY <1>1, LocksHold, PTL

-----------------------------------------------------------------------------

\* The steps of the stream thread keep OverInv: each part of the clean-up
\* takes one piece of the session away, and the map entry goes last.
LEMMA StreamOver ==
  ASSUME TypeOK, LockInv, OverInv, NEW s \in Sessions, StreamStep(s)
  PROVE  OverInv'
<1> USE DEF OverInv, sessionVars, threadVars, streamVars,
        positionVars, callbackVars, StreamAt, ConnectPC, OverPC
<1> /\ \A t \in Sessions : worker[t] = "done" <=> stream[t] # "none"
    /\ \A t \in Sessions : cb[t] => stream[t] \in WithCallback
  BY DEF LockInv
<1> /\ stream \in [Sessions -> StreamPC]
    /\ client \in [Sessions -> {"none", "half", "open", "closed"}]
    /\ timer \in [Sessions -> {"off", "running", "failed"}]
    /\ alive \in [Sessions -> BOOLEAN]
    /\ backend \in [Sessions -> BOOLEAN]
  BY DEF TypeOK
<1>1. CASE Connect(s)
  BY <1>1 DEF Connect
<1>2. CASE Handshake(s)
  BY <1>2 DEF Handshake
<1>3. CASE ResolveUdp(s)
  BY <1>3 DEF ResolveUdp
<1>4. CASE StartupBuffer(s)
  BY <1>4 DEF StartupBuffer
<1>5. CASE RegisterCallback(s)
  BY <1>5 DEF RegisterCallback
<1>6. CASE StartTimer(s)
  BY <1>6 DEF StartTimer
<1>7. CASE LoopCheck(s)
  BY <1>7 DEF LoopCheck
<1>8. CASE LoopHeartbeat(s)
  BY <1>8 DEF LoopHeartbeat
<1>9. CASE LoadLon(s)
  BY <1>9 DEF LoadLon
<1>10. CASE HeartbeatSend(s)
  BY <1>10 DEF HeartbeatSend
<1>11. CASE StopTimer(s)
  BY <1>11 DEF StopTimer
<1>12. CASE ClearCallback(s)
  BY <1>12 DEF ClearCallback
<1>13. CASE Disconnect(s)
  BY <1>13 DEF Disconnect
<1>14. CASE CleanupSync(s)
  BY <1>14 DEF CleanupSync
<1>15. CASE CleanupAlive(s)
  BY <1>15 DEF CleanupAlive
<1>16. CASE CleanupBackend(s)
  BY <1>16 DEF CleanupBackend
<1>17. CASE CleanupRemove(s)
  BY <1>17 DEF CleanupRemove
<1>18. CASE Destroy(s)
  BY <1>18 DEF Destroy
<1>19. QED
  BY <1>1, <1>2, <1>3, <1>4, <1>5, <1>6, <1>7, <1>8, <1>9, <1>10, <1>11,
     <1>12, <1>13, <1>14, <1>15, <1>16, <1>17, <1>18 DEF StreamStep

\* The Lua thread's steps keep OverInv: they can only clear the kill flag.
LEMMA LuaOver ==
  ASSUME TypeOK, LockInv, OverInv, LuaStep
  PROVE  OverInv'
<1> USE DEF OverInv, sessionVars, threadVars, streamVars, positionVars,
        callbackVars
<1>1. CASE LuaSetAlive
  <2>1. lua.s \in Sessions /\ alive \in [Sessions -> BOOLEAN] /\ lua.kill \in BOOLEAN
    BY <1>1 DEF LuaSetAlive, LockInv, LuaBusy, TypeOK, LuaCall
  <2>2. \A s \in Sessions : ~alive[s] => ~alive'[s]
    BY <1>1, <2>1 DEF LuaSetAlive
  <2>3. QED BY <1>1, <2>2 DEF LuaSetAlive
<1>2. CASE LuaReadBackend \/ LuaReturn
  BY <1>2 DEF LuaReadBackend, LuaReturn
<1>3. CASE LuaStoreLat \/ LuaStoreLon
  BY <1>3 DEF LuaStoreLat, LuaStoreLon
<1>4. CASE LuaLockSync \/ LuaCallback
  BY <1>4 DEF LuaLockSync, LuaCallback
<1>5. QED BY <1>1, <1>2, <1>3, <1>4 DEF LuaStep

\* Every step keeps OverInv, when nobody calls Reap.
LEMMA NextOver ==
  ASSUME TypeOK, LockInv, OverInv, ~ReapCalled, [Next]_vars
  PROVE  OverInv'
<1> USE DEF sessionVars, threadVars, streamVars, positionVars, callbackVars,
        ConnectPC, OverPC
<1> \A t \in Sessions : worker[t] = "done" <=> stream[t] # "none"
  BY DEF LockInv
<1>1. ASSUME NEW s \in Sessions, NEW k \in {"speech", "generator"},
             NEW p \in Position, StartSession(s, k, p)
      PROVE  OverInv'
  BY <1>1 DEF StartSession, TypeOK, OverInv
<1>2. ASSUME NEW s \in Sessions, NEW upd \in Update, NEW kill \in BOOLEAN,
             LuaGet(s, upd, kill)
      PROVE  OverInv'
  BY <1>2 DEF LuaGet, OverInv
<1>3. CASE LuaStep
  BY <1>3, LuaOver
<1>4. CASE KillAll
  BY <1>4 DEF KillAll, OverInv, TypeOK
<1>5. ASSUME NEW s \in Sessions, Reap(s)
      PROVE  OverInv'
  BY <1>5 DEF Reap
<1>6. ASSUME NEW s \in Sessions, ProduceReturns(s)
      PROVE  OverInv'
  BY <1>6 DEF ProduceReturns, TypeOK, OverInv
<1>7. ASSUME NEW s \in Sessions, Transmit(s)
      PROVE  OverInv'
  BY <1>7 DEF Transmit, TypeOK, OverInv
<1>8. ASSUME NEW s \in Sessions, SpeechEnds(s) \/ GeneratorEnds(s) \/ GeneratorStops(s)
      PROVE  OverInv'
  BY <1>8 DEF SpeechEnds, GeneratorEnds, GeneratorStops, OverInv
<1>9. ASSUME NEW s \in Sessions, TimerDrained(s)
      PROVE  OverInv'
  BY <1>9 DEF TimerDrained, OverInv
<1>10. ASSUME NEW s \in Sessions, HeartbeatAges(s)
       PROVE  OverInv'
  BY <1>10 DEF HeartbeatAges, OverInv
<1>11. ASSUME NEW s \in Sessions, StreamStep(s)
       PROVE  OverInv'
  BY <1>11, StreamOver
<1>12. CASE UNCHANGED vars
  BY <1>12 DEF vars, OverInv
<1>13. QED
  BY <1>1, <1>2, <1>3, <1>4, <1>5, <1>6, <1>7, <1>8, <1>9, <1>10, <1>11, <1>12
  DEF Next, StartSpeech, StartGenerator

\* When nobody calls Reap, a session that the map no longer has is over:
\* nothing of it can be reached, nothing of it will start.
THEOREM NotFoundIsOver ==
  ASSUME ~ReapCalled
  PROVE  Spec => []NotFoundMeansOver
<1>1. Init => OverInv
  BY DEF Init, OverInv, ConnectPC, OverPC
<1>2. TypeOK /\ LockInv /\ OverInv /\ [Next]_vars => OverInv'
  BY NextOver
<1>3. TypeOK /\ LockInv /\ OverInv => NotFoundMeansOver
  BY DEF TypeOK, LockInv, OverInv, NotFoundMeansOver, WithCallback, OverPC, ConnectPC
<1>4. QED BY <1>1, <1>2, <1>3, LocksHold, PTL DEF Spec

-----------------------------------------------------------------------------

\* After the callback has run for position p, what was sent last is p,
\* unless the last send failed; other sessions are untouched.
LEMMA PositionSyncSends ==
  ASSUME TypeOK, NEW s \in Sessions, NEW p \in Position, PositionSync(s, p)
  PROVE  /\ \A t \in Sessions \ {s} : /\ lastSent'[t] = lastSent[t]
                                      /\ sentAt'[t] = sentAt[t]
                                      /\ sendFailed'[t] = sendFailed[t]
         /\ ~sendFailed'[s] => lastSent'[s] = p
<1>1. /\ lastSent \in [Sessions -> Position]
      /\ sentAt \in [Sessions -> {"never", "recent", "due"}]
      /\ sendFailed \in [Sessions -> BOOLEAN]
  BY DEF TypeOK
<1>2. CASE SendPosition(s, p)
  BY <1>1, <1>2 DEF SendPosition
<1>3. CASE p = lastSent[s] /\ UNCHANGED <<lastSent, sentAt, sendFailed>>
  BY <1>1, <1>3
<1>4. QED BY <1>2, <1>3 DEF PositionSync

\* The Lua thread's steps keep SentInv: between its stores LuaMovesPosition
\* holds, and it ends only with a callback that compares the whole position.
LEMMA LuaSends ==
  ASSUME TypeOK, LockInv, SentInv, LuaStep
  PROVE  SentInv'
<1> USE DEF SentInv, LuaMovesPosition, sessionVars, threadVars, streamVars,
        positionVars, callbackVars
<1> /\ lua \in LuaCall
    /\ lua.pc \notin {"idle", "return"} => lua.s \in Sessions
    /\ pos \in [Sessions -> Position]
  BY DEF TypeOK, LockInv, LuaBusy
<1>1. CASE LuaReadBackend
  BY <1>1 DEF LuaReadBackend, LuaCall
<1>2. CASE LuaStoreLat
  <2>1. \A t \in Sessions : t # lua.s \/ lua.upd.lat = NoValue => pos'[t] = pos[t]
    BY <1>2 DEF LuaStoreLat
  <2>2. lua.upd = NoUpdate => lua.upd.lat = NoValue
    BY DEF NoUpdate
  <2>3. QED BY <1>2, <2>1, <2>2 DEF LuaStoreLat, LuaCall
<1>3. CASE LuaStoreLon
  <2>1. \A t \in Sessions : t # lua.s \/ lua.upd.lon = NoValue => pos'[t] = pos[t]
    BY <1>3 DEF LuaStoreLon
  <2>2. lua.upd = NoUpdate => lua.upd.lon = NoValue
    BY DEF NoUpdate
  <2>3. QED BY <1>3, <2>1, <2>2 DEF LuaStoreLon, LuaCall
<1>4. CASE LuaLockSync
  BY <1>4 DEF LuaLockSync, LuaCall, LockInv
<1>5. CASE LuaCallback
  <2>1. lua.s \in Sessions /\ pos[lua.s] \in Position /\ PositionSync(lua.s, pos[lua.s])
    BY <1>5 DEF LuaCallback
  <2>2. stream[lua.s] \in WithCallback /\ stream[lua.s] \notin {"loadLon", "send"}
    BY <1>5, <2>1 DEF LuaCallback, LockInv
  <2>3. QED BY <1>5, <2>1, <2>2, PositionSyncSends
            DEF LuaCallback, LuaCall, WithCallback, BeforeCallback
<1>6. CASE LuaSetAlive
  BY <1>6 DEF LuaSetAlive, LuaCall
<1>7. CASE LuaReturn
  BY <1>7 DEF LuaReturn, LuaCall, LuaIdle
<1>8. QED BY <1>1, <1>2, <1>3, <1>4, <1>5, <1>6, <1>7 DEF LuaStep

\* The steps of the stream thread keep SentInv.
LEMMA StreamSends ==
  ASSUME TypeOK, LockInv, SentInv, NEW s \in Sessions, StreamStep(s)
  PROVE  SentInv'
<1> USE DEF SentInv, LuaMovesPosition, sessionVars, threadVars, streamVars,
        positionVars, callbackVars, StreamAt, BeforeCallback
<1> /\ stream \in [Sessions -> StreamPC]
    /\ cb \in [Sessions -> BOOLEAN]
    /\ loaded \in [Sessions -> Position]
    /\ pos \in [Sessions -> Position]
  BY DEF TypeOK
<1> \A t \in Sessions : cb[t] => stream[t] \in WithCallback
  BY DEF LockInv
<1>1. CASE Connect(s)
  BY <1>1 DEF Connect
<1>2. CASE Handshake(s)
  BY <1>2 DEF Handshake
<1>3. CASE ResolveUdp(s)
  BY <1>3 DEF ResolveUdp
<1>4. CASE StartupBuffer(s)
  BY <1>4 DEF StartupBuffer
<1>5. CASE RegisterCallback(s)
  BY <1>5 DEF RegisterCallback
<1>6. CASE StartTimer(s)
  BY <1>6 DEF StartTimer
<1>7. CASE LoopCheck(s)
  BY <1>7 DEF LoopCheck
<1>8. CASE LoopHeartbeat(s)
  <2>1. \A t \in Sessions \ {s} : loaded'[t] = loaded[t] /\ stream'[t] = stream[t]
    BY <1>8 DEF LoopHeartbeat
  <2>2. stream'[s] = "check" \/ (stream'[s] = "loadLon" /\ loaded'[s].lat = pos[s].lat)
    BY <1>8 DEF LoopHeartbeat, Position
  <2>3. QED BY <1>8, <2>1, <2>2 DEF LoopHeartbeat
<1>9. CASE LoadLon(s)
  <2>1. \A t \in Sessions \ {s} : loaded'[t] = loaded[t] /\ stream'[t] = stream[t]
    BY <1>9 DEF LoadLon
  <2>2. stream'[s] = "send"
    BY <1>9 DEF LoadLon
  <2>3. loaded'[s] = [loaded[s] EXCEPT !.lon = pos[s].lon]
    BY <1>9 DEF LoadLon
  <2>4. loaded[s].lat = pos[s].lat => loaded'[s] = pos[s]
    BY <2>3 DEF Position
  <2>5. QED BY <1>9, <2>1, <2>2, <2>4 DEF LoadLon
<1>10. CASE HeartbeatSend(s)
  <2>1. PositionSync(s, loaded[s]) /\ loaded[s] \in Position
    BY <1>10 DEF HeartbeatSend
  <2>2. stream' = [stream EXCEPT ![s] = "check"] /\ stream[s] = "send"
    BY <1>10 DEF HeartbeatSend
  <2>3. QED BY <1>10, <2>1, <2>2, PositionSyncSends DEF HeartbeatSend
<1>11. CASE StopTimer(s)
  BY <1>11 DEF StopTimer
<1>12. CASE ClearCallback(s)
  BY <1>12 DEF ClearCallback
<1>13. CASE Disconnect(s)
  BY <1>13 DEF Disconnect
<1>14. CASE CleanupSync(s)
  BY <1>14 DEF CleanupSync
<1>15. CASE CleanupAlive(s)
  BY <1>15 DEF CleanupAlive
<1>16. CASE CleanupBackend(s)
  BY <1>16 DEF CleanupBackend
<1>17. CASE CleanupRemove(s)
  BY <1>17 DEF CleanupRemove
<1>18. CASE Destroy(s)
  BY <1>18 DEF Destroy
<1>19. QED
  BY <1>1, <1>2, <1>3, <1>4, <1>5, <1>6, <1>7, <1>8, <1>9, <1>10, <1>11,
     <1>12, <1>13, <1>14, <1>15, <1>16, <1>17, <1>18 DEF StreamStep

\* Every step keeps SentInv.
LEMMA NextSends ==
  ASSUME TypeOK, LockInv, SentInv, [Next]_vars
  PROVE  SentInv'
<1> USE DEF sessionVars, threadVars, streamVars, positionVars, callbackVars,
        SentInv, LuaMovesPosition
<1>1. ASSUME NEW s \in Sessions, NEW k \in {"speech", "generator"},
             NEW p \in Position, StartSession(s, k, p)
      PROVE  SentInv'
  <2>1. stream[s] = "none"
    BY <1>1 DEF StartSession, LockInv
  <2>2. ~cb[s]
    BY <2>1 DEF LockInv, WithCallback
  <2>3. \A t \in Sessions \ {s} : pos'[t] = pos[t]
    BY <1>1 DEF StartSession, TypeOK
  <2>4. QED BY <1>1, <2>1, <2>2, <2>3 DEF StartSession
<1>2. ASSUME NEW s \in Sessions, NEW upd \in Update, NEW kill \in BOOLEAN,
             LuaGet(s, upd, kill)
      PROVE  SentInv'
  BY <1>2 DEF LuaGet, LuaIdle
<1>3. CASE LuaStep
  BY <1>3, LuaSends
<1>4. CASE KillAll
  BY <1>4 DEF KillAll
<1>5. ASSUME NEW s \in Sessions, Reap(s)
      PROVE  SentInv'
  BY <1>5 DEF Reap
<1>6. ASSUME NEW s \in Sessions, ProduceReturns(s)
      PROVE  SentInv'
  BY <1>6 DEF ProduceReturns
<1>7. ASSUME NEW s \in Sessions, Transmit(s)
      PROVE  SentInv'
  <2>1. stream[s] = "none"
    BY <1>7 DEF Transmit, LockInv
  <2>2. QED BY <1>7, <2>1 DEF Transmit, TypeOK, BeforeCallback
<1>8. ASSUME NEW s \in Sessions, SpeechEnds(s) \/ GeneratorEnds(s) \/ GeneratorStops(s)
      PROVE  SentInv'
  BY <1>8 DEF SpeechEnds, GeneratorEnds, GeneratorStops
<1>9. ASSUME NEW s \in Sessions, TimerDrained(s)
      PROVE  SentInv'
  BY <1>9 DEF TimerDrained
<1>10. ASSUME NEW s \in Sessions, HeartbeatAges(s)
       PROVE  SentInv'
  BY <1>10 DEF HeartbeatAges, TypeOK
<1>11. ASSUME NEW s \in Sessions, StreamStep(s)
       PROVE  SentInv'
  BY <1>11, StreamSends
<1>12. CASE UNCHANGED vars
  BY <1>12 DEF vars
<1>13. QED
  BY <1>1, <1>2, <1>3, <1>4, <1>5, <1>6, <1>7, <1>8, <1>9, <1>10, <1>11, <1>12
  DEF Next, StartSpeech, StartGenerator

\* The server is never left with a stale position by a finished update, even
\* when the stream thread's heartbeat read one new and one old coordinate.
THEOREM PositionIsNotStale == Spec => []NoStalePosition
<1>1. Init => SentInv
  BY DEF Init, SentInv
<1>2. TypeOK /\ LockInv /\ SentInv /\ [Next]_vars => SentInv'
  BY NextSends
<1>3. SentInv => NoStalePosition
  BY DEF SentInv, NoStalePosition
<1>4. QED BY <1>1, <1>2, <1>3, LocksHold, PTL DEF Spec

===============================================================================
