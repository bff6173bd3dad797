-------------------------- MODULE SessionLifecycle --------------------------
(***************************************************************************)
(* The life of a transmission, from the Lua call that registers its        *)
(* session to the clean-up that removes it (session.h, lua_tts.cpp,        *)
(* backends/srs/srs_backend.cpp, backends/srs/srs_client.cpp).             *)
(*                                                                         *)
(* Threads: the one Lua thread of DCS, and for every session a worker      *)
(* (Produce, then Transmit), a producer of PCM (a speech provider or a     *)
(* noise/tone generator), the SRS stream thread, and the multimedia timer. *)
(* They share the session registry, the kill flag `alive', the backend     *)
(* data and, inside it, the position and the position-sync callback, which *)
(* captures the SRSClient by raw pointer and is guarded by syncMutex.      *)
(*                                                                         *)
(* Audio is abstracted to "the producer has ended"; a position has two     *)
(* independently stored coordinates (the code has three).                  *)
(***************************************************************************)

CONSTANTS
  Sessions,    \* session ids: GUIDs, so an id is registered at most once
  Coord,       \* the values of one coordinate
  Unset,       \* the out-of-range sentinel (91 / 181 / -500)
  NoValue,     \* a field that is absent from the updateSession table
  NoSession,   \* no session: the Lua thread is idle
  ReapCalled   \* whether anybody calls SessionManager::Reap()

ASSUME LifecycleAssumption ==
  /\ Unset \in Coord
  /\ NoValue \notin Coord
  /\ NoSession \notin Sessions
  /\ ReapCalled \in BOOLEAN

VARIABLES
  registry,    \* SessionManager::m_sessions: the ids in the map
  alive,       \* Session::alive
  backend,     \* Session::backendData is attached
  kind,        \* what fills the PCM queue: "speech" or "generator"
  worker,      \* the detached thread that runs Produce and then Transmit
  producer,    \* the thread that pushes PCM
  encoder,     \* whether OpusFrameEncoder::Init() worked
  stream,      \* program counter of the SRS stream thread
  client,      \* the SRSClient of the stream thread: its sockets
  timer,       \* the multimedia timer
  finished,    \* TimerState::finished
  pos,         \* SRSPositionData lat/lon (before Transmit: the request's)
  loaded,      \* coordinates the stream thread has loaded in the callback
  lastSent,    \* lastSentLat / lastSentLon
  sentAt,      \* age of lastSentAt against the 175 s heartbeat
  sendFailed,  \* history: the last position message was not sent
  sync,        \* who holds syncMutex
  cb,          \* sendPositionSync is not null
  lua          \* the Lua thread: its call in progress

sessionVars  == <<registry, alive, backend>>
threadVars   == <<kind, worker, producer, encoder>>
streamVars   == <<client, timer, finished>>
positionVars == <<pos, loaded, lastSent, sentAt, sendFailed>>
callbackVars == <<sync, cb>>
vars == <<sessionVars, threadVars, stream, streamVars, positionVars,
          callbackVars, lua>>

Position == [lat : Coord, lon : Coord]
Update   == [lat : Coord \cup {NoValue}, lon : Coord \cup {NoValue}]

NoPosition == [lat |-> Unset, lon |-> Unset]
NoUpdate   == [lat |-> NoValue, lon |-> NoValue]

LuaIdle == [pc |-> "idle", s |-> NoSession, upd |-> NoUpdate,
            kill |-> FALSE, result |-> "none"]

StreamPC == {"none", "connect", "handshake", "resolve", "buffer", "register",
             "startTimer", "check", "heartbeat", "loadLon", "send",
             "stopTimer", "clearCb", "disconnect", "cleanupSync",
             "cleanupAlive", "cleanupBackend", "cleanupRemove", "destroy", "end"}

LuaPC == {"idle", "readBackend", "storeLat", "storeLon", "lockSync",
          "callback", "setAlive", "return"}

LuaCall == [pc : LuaPC, s : Sessions \cup {NoSession}, upd : Update,
            kill : BOOLEAN, result : {"none", "nil", "true", "false"}]

TypeOK ==
  /\ registry \subseteq Sessions
  /\ alive \in [Sessions -> BOOLEAN]
  /\ backend \in [Sessions -> BOOLEAN]
  /\ kind \in [Sessions -> {"speech", "generator"}]
  /\ worker \in [Sessions -> {"absent", "produce", "transmit", "done"}]
  /\ producer \in [Sessions -> {"none", "running", "done"}]
  /\ encoder \in [Sessions -> {"ok", "failed"}]
  /\ stream \in [Sessions -> StreamPC]
  /\ client \in [Sessions -> {"none", "half", "open", "closed"}]
  /\ timer \in [Sessions -> {"off", "running", "failed"}]
  /\ finished \in [Sessions -> BOOLEAN]
  /\ pos \in [Sessions -> Position]
  /\ loaded \in [Sessions -> Position]
  /\ lastSent \in [Sessions -> Position]
  /\ sentAt \in [Sessions -> {"never", "recent", "due"}]
  /\ sendFailed \in [Sessions -> BOOLEAN]
  /\ sync \in [Sessions -> {"free", "lua", "stream"}]
  /\ cb \in [Sessions -> BOOLEAN]
  /\ lua \in LuaCall

Init ==
  /\ registry = {}
  /\ alive = [s \in Sessions |-> FALSE]
  /\ backend = [s \in Sessions |-> FALSE]
  /\ kind = [s \in Sessions |-> "speech"]
  /\ worker = [s \in Sessions |-> "absent"]
  /\ producer = [s \in Sessions |-> "none"]
  /\ encoder = [s \in Sessions |-> "ok"]
  /\ stream = [s \in Sessions |-> "none"]
  /\ client = [s \in Sessions |-> "none"]
  /\ timer = [s \in Sessions |-> "off"]
  /\ finished = [s \in Sessions |-> FALSE]
  /\ pos = [s \in Sessions |-> NoPosition]
  /\ loaded = [s \in Sessions |-> NoPosition]
  /\ lastSent = [s \in Sessions |-> NoPosition]
  /\ sentAt = [s \in Sessions |-> "never"]
  /\ sendFailed = [s \in Sessions |-> FALSE]
  /\ sync = [s \in Sessions |-> "free"]
  /\ cb = [s \in Sessions |-> FALSE]
  /\ lua = LuaIdle

-----------------------------------------------------------------------------
(***************************************************************************)
(* The Lua thread: starting, updating and killing sessions.                *)
(***************************************************************************)

\* Register the session under a fresh GUID and detach its worker.
StartSession(s, k, p) ==
  /\ lua.pc = "idle"
  /\ worker[s] = "absent"
  /\ registry' = registry \cup {s}
  /\ alive' = [alive EXCEPT ![s] = TRUE]
  /\ kind' = [kind EXCEPT ![s] = k]
  /\ worker' = [worker EXCEPT ![s] = IF k = "speech" THEN "produce" ELSE "transmit"]
  /\ producer' = [producer EXCEPT ![s] = "running"]
  /\ pos' = [pos EXCEPT ![s] = p]
  /\ UNCHANGED <<backend, encoder, stream, streamVars, loaded, lastSent,
                 sentAt, sendFailed, callbackVars, lua>>

\* l_textToSpeech: the worker runs Produce, then Transmit.
StartSpeech(s, p) == StartSession(s, "speech", p)

\* l_startNoise, l_startTone: the generator gets a thread of its own and the
\* worker goes straight to Transmit.
StartGenerator(s, p) == StartSession(s, "generator", p)

\* l_updateSession: look the session up; nil if it is not in the map.
LuaGet(s, upd, kill) ==
  /\ lua.pc = "idle"
  /\ worker[s] # "absent"
  /\ lua' = IF s \in registry
            THEN [pc |-> "readBackend", s |-> s, upd |-> upd,
                  kill |-> kill, result |-> "none"]
            ELSE [LuaIdle EXCEPT !.pc = "return", !.result = "nil"]
  /\ UNCHANGED <<sessionVars, threadVars, stream, streamVars, positionVars,
                 callbackVars>>

\* Copy session->backendData under backendMutex; without it the position
\* part of the update is skipped.
LuaReadBackend ==
  /\ lua.pc = "readBackend"
  /\ lua' = [lua EXCEPT !.pc = IF backend[lua.s] THEN "storeLat" ELSE "setAlive"]
  /\ UNCHANGED <<sessionVars, threadVars, stream, streamVars, positionVars,
                 callbackVars>>

\* Mutant: lua_tonumber is stored without asking lua_isnumber.
LuaStoreLatUnchecked ==
  /\ lua.pc = "storeLat"
  /\ pos' = [pos EXCEPT ![lua.s].lat = lua.upd.lat]
  /\ lua' = [lua EXCEPT !.pc = "storeLon"]
  /\ UNCHANGED <<sessionVars, threadVars, stream, streamVars, loaded,
                 lastSent, sentAt, sendFailed, callbackVars>>

\* Store lat, then lon: two atomics, so a reader can see one new and one old.
LuaStoreLat ==
  /\ lua.pc = "storeLat"
  /\ pos' = IF lua.upd.lat = NoValue THEN pos
            ELSE [pos EXCEPT ![lua.s].lat = lua.upd.lat]
  /\ lua' = [lua EXCEPT !.pc = "storeLon"]
  /\ UNCHANGED <<sessionVars, threadVars, stream, streamVars, loaded,
                 lastSent, sentAt, sendFailed, callbackVars>>

LuaStoreLon ==
  /\ lua.pc = "storeLon"
  /\ pos' = IF lua.upd.lon = NoValue THEN pos
            ELSE [pos EXCEPT ![lua.s].lon = lua.upd.lon]
  /\ lua' = [lua EXCEPT !.pc = IF lua.upd = NoUpdate THEN "setAlive" ELSE "lockSync"]
  /\ UNCHANGED <<sessionVars, threadVars, stream, streamVars, loaded,
                 lastSent, sentAt, sendFailed, callbackVars>>

\* Lock syncMutex and enter the callback if there is one.
LuaLockSync ==
  /\ lua.pc = "lockSync"
  /\ sync[lua.s] = "free"
  /\ IF cb[lua.s]
     THEN /\ sync' = [sync EXCEPT ![lua.s] = "lua"]
          /\ lua' = [lua EXCEPT !.pc = "callback"]
     ELSE /\ sync' = sync
          /\ lua' = [lua EXCEPT !.pc = "setAlive"]
  /\ UNCHANGED <<sessionVars, threadVars, stream, streamVars, positionVars, cb>>

HeartbeatDue(s) == sentAt[s] \in {"never", "due"}

\* Mutant: lastSentAt moves although SendTCP failed.
SendPositionAnyway(s, p) ==
  \/ /\ lastSent' = [lastSent EXCEPT ![s] = p]
     /\ sentAt' = [sentAt EXCEPT ![s] = "recent"]
     /\ sendFailed' = [sendFailed EXCEPT ![s] = FALSE]
  \/ /\ sentAt' = [sentAt EXCEPT ![s] = "recent"]
     /\ sendFailed' = [sendFailed EXCEPT ![s] = TRUE]
     /\ UNCHANGED lastSent

\* Sending position p: lastSent* and lastSentAt move only if SendTCP succeeds.
SendPosition(s, p) ==
  \/ /\ lastSent' = [lastSent EXCEPT ![s] = p]
     /\ sentAt' = [sentAt EXCEPT ![s] = "recent"]
     /\ sendFailed' = [sendFailed EXCEPT ![s] = FALSE]
  \/ /\ sendFailed' = [sendFailed EXCEPT ![s] = TRUE]
     /\ UNCHANGED <<lastSent, sentAt>>

\* The body of sendPositionSync for the coordinates p it has loaded.
PositionSync(s, p) ==
  IF p # lastSent[s] \/ HeartbeatDue(s)
  THEN SendPosition(s, p)
  ELSE UNCHANGED <<lastSent, sentAt, sendFailed>>

\* Mutant: the gate looks at the heartbeat only, never at the coordinates.
LuaCallbackHeartbeatOnly ==
  /\ lua.pc = "callback"
  /\ IF HeartbeatDue(lua.s) THEN SendPosition(lua.s, pos[lua.s])
     ELSE UNCHANGED <<lastSent, sentAt, sendFailed>>
  /\ sync' = [sync EXCEPT ![lua.s] = "free"]
  /\ lua' = [lua EXCEPT !.pc = "setAlive"]
  /\ UNCHANGED <<sessionVars, threadVars, stream, streamVars, pos, loaded, cb>>

\* The callback on the Lua thread, the only writer of pos, so its loads see
\* one position; then the lock is released.
LuaCallback ==
  /\ lua.pc = "callback"
  /\ PositionSync(lua.s, pos[lua.s])
  /\ sync' = [sync EXCEPT ![lua.s] = "free"]
  /\ lua' = [lua EXCEPT !.pc = "setAlive"]
  /\ UNCHANGED <<sessionVars, threadVars, stream, streamVars, pos, loaded, cb>>

\* The kill flag of the update table, and the value the call returns.
LuaSetAlive ==
  /\ lua.pc = "setAlive"
  /\ alive' = [alive EXCEPT ![lua.s] = @ /\ ~lua.kill]
  /\ lua' = [lua EXCEPT !.pc = "return",
                        !.result = IF alive'[lua.s] THEN "true" ELSE "false"]
  /\ UNCHANGED <<registry, backend, threadVars, stream, streamVars,
                 positionVars, callbackVars>>

LuaReturn ==
  /\ lua.pc = "return"
  /\ lua' = LuaIdle
  /\ UNCHANGED <<sessionVars, threadVars, stream, streamVars, positionVars,
                 callbackVars>>

\* Mutant: the killed sessions are erased at once.
KillAllErases ==
  /\ lua.pc = "idle"
  /\ \E s \in registry : alive[s]
  /\ alive' = [s \in Sessions |-> alive[s] /\ s \notin registry]
  /\ registry' = {}
  /\ UNCHANGED <<backend, threadVars, stream, streamVars, positionVars,
                 callbackVars, lua>>

\* l_killAllSessions -> SessionManager::KillAll: flags only, the map keeps
\* the sessions for their backends.
KillAll ==
  /\ lua.pc = "idle"
  /\ \E s \in registry : alive[s]
  /\ alive' = [s \in Sessions |-> alive[s] /\ s \notin registry]
  /\ UNCHANGED <<registry, backend, threadVars, stream, streamVars,
                 positionVars, callbackVars, lua>>

\* One candidate of SessionManager::Reap, re-checked under both mutexes.
\* Nothing in the program calls Reap.
Reap(s) ==
  /\ ReapCalled
  /\ lua.pc = "idle"
  /\ s \in registry
  /\ ~alive[s]
  /\ ~backend[s]
  /\ registry' = registry \ {s}
  /\ UNCHANGED <<alive, backend, threadVars, stream, streamVars, positionVars,
                 callbackVars, lua>>

LuaStep ==
  \/ LuaReadBackend
  \/ LuaStoreLat
  \/ LuaStoreLon
  \/ LuaLockSync
  \/ LuaCallback
  \/ LuaSetAlive
  \/ LuaReturn

-----------------------------------------------------------------------------
(***************************************************************************)
(* The worker and the producer of a session.                               *)
(***************************************************************************)

\* Produce returns: after the synthesis when the provider runs inline,
\* before it when the provider (or a cache replay) runs on its own thread.
ProduceReturns(s) ==
  /\ worker[s] = "produce"
  /\ worker' = [worker EXCEPT ![s] = "transmit"]
  /\ UNCHANGED <<sessionVars, kind, producer, encoder, stream, streamVars,
                 positionVars, callbackVars, lua>>

\* SRSBackend::Transmit: attach the position data, which starts from the
\* request's coordinates, and start the encoder and stream threads.
Transmit(s) ==
  /\ worker[s] = "transmit"
  /\ backend' = [backend EXCEPT ![s] = TRUE]
  /\ worker' = [worker EXCEPT ![s] = "done"]
  /\ encoder' \in {[encoder EXCEPT ![s] = "ok"], [encoder EXCEPT ![s] = "failed"]}
  /\ stream' = [stream EXCEPT ![s] = "connect"]
  /\ UNCHANGED <<registry, alive, kind, producer, streamVars, positionVars,
                 callbackVars, lua>>

\* A provider ends its synthesis, with or without success; it never looks
\* at the kill flag.
SpeechEnds(s) ==
  /\ kind[s] = "speech"
  /\ producer[s] = "running"
  /\ producer' = [producer EXCEPT ![s] = "done"]
  /\ UNCHANGED <<sessionVars, kind, worker, encoder, stream, streamVars,
                 positionVars, callbackVars, lua>>

\* GenerateNoise / GenerateTone reach their duration (at most two hours).
GeneratorEnds(s) ==
  /\ kind[s] = "generator"
  /\ producer[s] = "running"
  /\ producer' = [producer EXCEPT ![s] = "done"]
  /\ UNCHANGED <<sessionVars, kind, worker, encoder, stream, streamVars,
                 positionVars, callbackVars, lua>>

\* GenerateNoise / GenerateTone see isAlive() false.
GeneratorStops(s) ==
  /\ ~alive[s]
  /\ GeneratorEnds(s)

-----------------------------------------------------------------------------
(***************************************************************************)
(* The SRS stream thread of a session.                                     *)
(***************************************************************************)

StreamAt(s, from, to) ==
  /\ stream[s] = from
  /\ stream' = [stream EXCEPT ![s] = to]

\* If connect() or the UDP socket() fails, the TCP socket stays: the stream
\* thread cleans up without Disconnect and leaves it to the client's destructor.
Connect(s) ==
  /\ \/ /\ StreamAt(s, "connect", "handshake")
        /\ client' = [client EXCEPT ![s] = "open"]
     \/ /\ StreamAt(s, "connect", "cleanupSync")
        /\ client' \in {client, [client EXCEPT ![s] = "half"]}
  /\ UNCHANGED <<sessionVars, threadVars, timer, finished, positionVars,
                 callbackVars, lua>>

Handshake(s) ==
  /\ \/ StreamAt(s, "handshake", "resolve")
     \/ StreamAt(s, "handshake", "disconnect")
  /\ UNCHANGED <<sessionVars, threadVars, streamVars, positionVars,
                 callbackVars, lua>>

\* StreamFromQueue gives up at once when the host no longer resolves.
ResolveUdp(s) ==
  /\ \/ StreamAt(s, "resolve", "buffer")
     \/ StreamAt(s, "resolve", "disconnect")
  /\ UNCHANGED <<sessionVars, threadVars, streamVars, positionVars,
                 callbackVars, lua>>

\* Five frames, the end of the queue or five seconds; the wait does not
\* look at the kill flag.
StartupBuffer(s) ==
  /\ StreamAt(s, "buffer", "register")
  /\ UNCHANGED <<sessionVars, threadVars, streamVars, positionVars,
                 callbackVars, lua>>

RegisterCallback(s) ==
  /\ StreamAt(s, "register", "startTimer")
  /\ sync[s] = "free"
  /\ cb' = [cb EXCEPT ![s] = TRUE]
  /\ UNCHANGED <<sessionVars, threadVars, streamVars, positionVars, sync, lua>>

\* timeSetEvent; its failure is not looked at until the timer is killed.
StartTimer(s) ==
  /\ StreamAt(s, "startTimer", "check")
  /\ timer' \in {[timer EXCEPT ![s] = "running"], [timer EXCEPT ![s] = "failed"]}
  /\ finished' = [finished EXCEPT ![s] = FALSE]
  /\ UNCHANGED <<sessionVars, threadVars, client, positionVars, callbackVars,
                 lua>>

\* Mutant: the encoder thread marks its queue done only when Init fails.
TimerDrainedNoDone(s) ==
  /\ timer[s] = "running"
  /\ encoder[s] = "failed"
  /\ ~finished[s]
  /\ finished' = [finished EXCEPT ![s] = TRUE]
  /\ UNCHANGED <<sessionVars, threadVars, stream, client, timer,
                 positionVars, callbackVars, lua>>

\* TimerProc finds the Opus queue done and empty: the encoder has ended,
\* after the producer or because it could not be initialised.
TimerDrained(s) ==
  /\ timer[s] = "running"
  /\ producer[s] = "done" \/ encoder[s] = "failed"
  /\ ~finished[s]
  /\ finished' = [finished EXCEPT ![s] = TRUE]
  /\ UNCHANGED <<sessionVars, threadVars, stream, client, timer,
                 positionVars, callbackVars, lua>>

\* Mutant: the stream loop waits for the timer only.
LoopCheckIgnoresKill(s) ==
  /\ \/ finished[s] /\ StreamAt(s, "check", "stopTimer")
     \/ ~finished[s] /\ StreamAt(s, "check", "heartbeat")
  /\ UNCHANGED <<sessionVars, threadVars, streamVars, positionVars,
                 callbackVars, lua>>

\* One turn of the stream loop: leave it when the timer has finished or the
\* session was killed, else go on to the heartbeat.
LoopCheck(s) ==
  /\ \/ /\ finished[s] \/ ~alive[s]
        /\ StreamAt(s, "check", "stopTimer")
        /\ finished' = [finished EXCEPT ![s] = TRUE]
     \/ /\ ~finished[s] /\ alive[s]
        /\ StreamAt(s, "check", "heartbeat")
        /\ finished' = finished
  /\ UNCHANGED <<sessionVars, threadVars, client, timer, positionVars,
                 callbackVars, lua>>

\* Mutant: the loop sends a heartbeat only after a first message.
LoopHeartbeatNoFirst(s) ==
  /\ sync[s] = "free"
  /\ IF sentAt[s] = "due" /\ cb[s]
     THEN /\ StreamAt(s, "heartbeat", "loadLon")
          /\ sync' = [sync EXCEPT ![s] = "stream"]
          /\ loaded' = [loaded EXCEPT ![s].lat = pos[s].lat]
     ELSE /\ StreamAt(s, "heartbeat", "check")
          /\ UNCHANGED <<sync, loaded>>
  /\ UNCHANGED <<sessionVars, threadVars, streamVars, pos, lastSent, sentAt,
                 sendFailed, cb, lua>>

\* Lock syncMutex; when the heartbeat is due, enter the callback, which
\* loads one coordinate at a time while the Lua thread may store new ones.
LoopHeartbeat(s) ==
  /\ sync[s] = "free"
  /\ IF HeartbeatDue(s) /\ cb[s]
     THEN /\ StreamAt(s, "heartbeat", "loadLon")
          /\ sync' = [sync EXCEPT ![s] = "stream"]
          /\ loaded' = [loaded EXCEPT ![s].lat = pos[s].lat]
     ELSE /\ StreamAt(s, "heartbeat", "check")
          /\ UNCHANGED <<sync, loaded>>
  /\ UNCHANGED <<sessionVars, threadVars, streamVars, pos, lastSent, sentAt,
                 sendFailed, cb, lua>>

LoadLon(s) ==
  /\ StreamAt(s, "loadLon", "send")
  /\ loaded' = [loaded EXCEPT ![s].lon = pos[s].lon]
  /\ UNCHANGED <<sessionVars, threadVars, streamVars, pos, lastSent, sentAt,
                 sendFailed, callbackVars, lua>>

\* Mutant: a failed send is retried with syncMutex held.
HeartbeatSendRetries(s) ==
  /\ \/ /\ StreamAt(s, "send", "check")
        /\ lastSent' = [lastSent EXCEPT ![s] = loaded[s]]
        /\ sentAt' = [sentAt EXCEPT ![s] = "recent"]
        /\ sendFailed' = [sendFailed EXCEPT ![s] = FALSE]
        /\ sync' = [sync EXCEPT ![s] = "free"]
     \/ /\ StreamAt(s, "send", "loadLon")
        /\ sendFailed' = [sendFailed EXCEPT ![s] = TRUE]
        /\ UNCHANGED <<lastSent, sentAt, sync>>
  /\ UNCHANGED <<sessionVars, threadVars, streamVars, pos, loaded, cb, lua>>

\* The rest of the callback on the stream thread; then the lock is released.
HeartbeatSend(s) ==
  /\ StreamAt(s, "send", "check")
  /\ PositionSync(s, loaded[s])
  /\ sync' = [sync EXCEPT ![s] = "free"]
  /\ UNCHANGED <<sessionVars, threadVars, streamVars, pos, loaded, cb, lua>>

\* 175 seconds pass since the last position message.
HeartbeatAges(s) ==
  /\ sentAt[s] = "recent"
  /\ sentAt' = [sentAt EXCEPT ![s] = "due"]
  /\ UNCHANGED <<sessionVars, threadVars, stream, streamVars, pos, loaded,
                 lastSent, sendFailed, callbackVars, lua>>

StopTimer(s) ==
  /\ StreamAt(s, "stopTimer", "clearCb")
  /\ timer' = [timer EXCEPT ![s] = "off"]
  /\ UNCHANGED <<sessionVars, threadVars, client, finished, positionVars,
                 callbackVars, lua>>

\* Mutant: StreamFromQueue clears the callback without locking syncMutex.
ClearCallbackUnlocked(s) ==
  /\ StreamAt(s, "clearCb", "disconnect")
  /\ cb' = [cb EXCEPT ![s] = FALSE]
  /\ UNCHANGED <<sessionVars, threadVars, streamVars, positionVars, sync, lua>>

ClearCallback(s) ==
  /\ StreamAt(s, "clearCb", "disconnect")
  /\ sync[s] = "free"
  /\ cb' = [cb EXCEPT ![s] = FALSE]
  /\ UNCHANGED <<sessionVars, threadVars, streamVars, positionVars, sync, lua>>

Disconnect(s) ==
  /\ StreamAt(s, "disconnect", "cleanupSync")
  /\ client' = [client EXCEPT ![s] = "closed"]
  /\ UNCHANGED <<sessionVars, threadVars, timer, finished, positionVars,
                 callbackVars, lua>>

\* The cleanup lambda, the same on every path out of the stream thread.
CleanupSync(s) ==
  /\ StreamAt(s, "cleanupSync", "cleanupAlive")
  /\ sync[s] = "free"
  /\ cb' = [cb EXCEPT ![s] = FALSE]
  /\ UNCHANGED <<sessionVars, threadVars, streamVars, positionVars, sync, lua>>

\* Mutant: the clean-up leaves the session alive.
CleanupLeavesAlive(s) ==
  /\ StreamAt(s, "cleanupAlive", "cleanupBackend")
  /\ UNCHANGED <<sessionVars, threadVars, streamVars, positionVars,
                 callbackVars, lua>>

CleanupAlive(s) ==
  /\ StreamAt(s, "cleanupAlive", "cleanupBackend")
  /\ alive' = [alive EXCEPT ![s] = FALSE]
  /\ UNCHANGED <<registry, backend, threadVars, streamVars, positionVars,
                 callbackVars, lua>>

CleanupBackend(s) ==
  /\ StreamAt(s, "cleanupBackend", "cleanupRemove")
  /\ backend' = [backend EXCEPT ![s] = FALSE]
  /\ UNCHANGED <<registry, alive, threadVars, streamVars, positionVars,
                 callbackVars, lua>>

CleanupRemove(s) ==
  /\ StreamAt(s, "cleanupRemove", "destroy")
  /\ registry' = registry \ {s}
  /\ UNCHANGED <<alive, backend, threadVars, streamVars, positionVars,
                 callbackVars, lua>>

\* The thread function returns and destroys its SRSClient, which disconnects.
Destroy(s) ==
  /\ StreamAt(s, "destroy", "end")
  /\ client' = [client EXCEPT ![s] = "closed"]
  /\ UNCHANGED <<sessionVars, threadVars, timer, finished, positionVars,
                 callbackVars, lua>>

StreamStep(s) ==
  \/ Connect(s)
  \/ Handshake(s)
  \/ ResolveUdp(s)
  \/ StartupBuffer(s)
  \/ RegisterCallback(s)
  \/ StartTimer(s)
  \/ LoopCheck(s)
  \/ LoopHeartbeat(s)
  \/ LoadLon(s)
  \/ HeartbeatSend(s)
  \/ StopTimer(s)
  \/ ClearCallback(s)
  \/ Disconnect(s)
  \/ CleanupSync(s)
  \/ CleanupAlive(s)
  \/ CleanupBackend(s)
  \/ CleanupRemove(s)
  \/ Destroy(s)

Next ==
  \/ \E s \in Sessions, p \in Position : StartSpeech(s, p) \/ StartGenerator(s, p)
  \/ \E s \in Sessions, upd \in Update, kill \in BOOLEAN : LuaGet(s, upd, kill)
  \/ LuaStep
  \/ KillAll
  \/ \E s \in Sessions :
        \/ Reap(s)
        \/ ProduceReturns(s)
        \/ Transmit(s)
        \/ SpeechEnds(s)
        \/ GeneratorEnds(s)
        \/ GeneratorStops(s)
        \/ TimerDrained(s)
        \/ HeartbeatAges(s)
        \/ StreamStep(s)

Spec == Init /\ [][Next]_vars

(***************************************************************************)
(* Fairness.  Threads are scheduled and mutexes are not held forever, so a *)
(* thread that can step again and again does step (strong fairness covers  *)
(* the waits for syncMutex).  A provider, connect() and send() return, and *)
(* so does the handshake: on a server that does not drip bytes of a line   *)
(* for ever (HandshakeEnds of SrsLink).  A generator is only required to   *)
(* stop once it is killed; nothing forces Lua to start, update or kill     *)
(* anything, time to pass, or a connection to work.                        *)
(***************************************************************************)
Fairness ==
  /\ SF_vars(LuaStep)
  /\ \A s \in Sessions :
        /\ SF_vars(StreamStep(s))
        /\ WF_vars(ProduceReturns(s))
        /\ WF_vars(Transmit(s))
        /\ WF_vars(SpeechEnds(s))
        /\ WF_vars(GeneratorStops(s))
        /\ WF_vars(TimerDrained(s))

FairSpec == Spec /\ Fairness

-----------------------------------------------------------------------------
(***************************************************************************)
(* Safety.                                                                 *)
(***************************************************************************)

\* The callback holds the SRSClient by raw pointer: whenever it can be called
\* or is running, on either thread, the client's connection is still open,
\* and it runs on one thread at a time (lua_tts.cpp:531, srs_client.cpp:401).
CallbackSafe ==
  \A s \in Sessions :
     /\ cb[s] => client[s] = "open"
     /\ lua.pc = "callback" /\ lua.s = s => cb[s] /\ sync[s] = "lua"
     /\ stream[s] \in {"loadLon", "send"} => cb[s] /\ sync[s] = "stream"

\* "Session not found" means the transmission is over: a registered session
\* leaves the map only when its stream thread has torn everything down, and
\* nothing of it can be reached or started any more; at most the socket of a
\* connection that failed is still there for the thread to close.
NotFoundMeansOver ==
  \A s \in Sessions :
     worker[s] # "absent" /\ s \notin registry =>
        /\ stream[s] \in {"destroy", "end"}
        /\ ~alive[s] /\ ~backend[s] /\ ~cb[s]
        /\ client[s] # "open" /\ timer[s] # "running"

\* The Lua thread is between storing a coordinate of s and its own sync.
LuaMovesPosition(s) ==
  /\ lua.s = s
  /\ lua.upd # NoUpdate
  /\ lua.pc \in {"storeLon", "lockSync", "callback"}

\* The server knows the current position: once a first position message was
\* sent, and unless the last send failed, what was sent last is the position
\* stored now, whatever the heartbeat of the stream thread read in between,
\* except while an update is under way.
NoStalePosition ==
  \A s \in Sessions :
     /\ cb[s]
     /\ sentAt[s] # "never"
     /\ ~sendFailed[s]
     /\ ~LuaMovesPosition(s)
     => lastSent[s] = pos[s]

(***************************************************************************)
(* Liveness, under Fairness.                                               *)
(***************************************************************************)

\* A killed session ends, whatever its threads were doing and whether or not
\* the timer was ever created, and it leaves no producer and no socket behind.
KillEndsSession ==
  \A s \in Sessions :
     (s \in registry /\ ~alive[s]) ~>
        (/\ stream[s] = "end" /\ client[s] = "closed"
         /\ s \notin registry /\ producer[s] = "done")

\* A transmission that is over, because the server was never reached too,
\* stops its generator: a jammer does not fill a queue nobody reads.
OverStopsProducer ==
  \A s \in Sessions : stream[s] = "cleanupSync" ~> producer[s] = "done"

\* When all audio was produced and the timer exists, the session ends by
\* itself.
PlayedOutIsRemoved ==
  \A s \in Sessions :
     (producer[s] = "done" /\ timer[s] = "running") ~> s \notin registry

\* A call of updateSession always returns: DCS' main thread is never stuck
\* behind syncMutex.
UpdateReturns == (lua.pc # "idle") ~> (lua.pc = "idle")

\* The stream thread's position message gets through.
HeartbeatArrives(s) == HeartbeatSend(s) /\ ~sendFailed'[s]

\* With no update from Lua at all, a connected transmission gets its position
\* through to the server or is over, even if sends fail for a while: one that
\* failed before any succeeded is repeated without waiting for the heartbeat's
\* 175 seconds (srs_client.cpp:416-428), unless they fail for ever.
PositionAnnounced ==
  \A s \in Sessions :
     SF_vars(HeartbeatArrives(s)) =>
        (cb[s] /\ sentAt[s] = "never"
           ~> (sentAt[s] # "never" /\ ~sendFailed[s]) \/ ~cb[s])

=============================================================================
