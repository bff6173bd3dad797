# HoundTTS in TLA+

HoundTTS is a DLL inside the DCS server: Lua scripts ask it to speak, it
synthesises speech (a local model, a cloud service or Windows' SAPI), encodes it
with Opus and transmits it, frame by frame, to an SRS voice server. Nearly
everything runs on detached threads, so the interesting questions are about
lifetimes, orders and shared state. These modules model that core, TLC checks it
on small instances and TLAPS proves its safety for every instance.

Paths below are relative to the repository (`src/...` is its C++ code,
`dcs/...` its Lua code).

## 1. Inventory

### Components, state, operations

| Component | Code | State | Operations |
|---|---|---|---|
| Sessions | `src/session.h`, `src/lua_tts.cpp` | map id -> Session {alive, backendData} | register, get, remove, kill all, reap; updateSession |
| SRS stream thread | `src/backends/srs/srs_backend.cpp`, `srs_client.cpp` | sockets, position data, position callback under `syncMutex`, multimedia timer | connect, handshake, start-up buffer, stream loop with heartbeat, cleanup |
| TTS pipeline | `src/tts_pipeline.cpp`, `src/providers/**` | the PCM queue of a request and its wrappers (caching, padding) | Produce: cache lookup, replay, translation, provider, finalize |
| PCM cache | `src/backends/pcm_cache.*` | LRU list, map, byte counter, configuration | Get, Put, Clear, GetStats, setters; TTL sweep, LRU eviction |
| Audio path | `src/backends/pcm_queue.h`, `src/codecs/opus_encoder.*`, `src/audio_queue.h`, `TimerProc` | two queues, the encoder's remainder, the timer's state | push, encode, flush, tick, finish |
| Piper pool | `src/providers/tts/piper/piper_model_pool.*` | idle synthesizers by model, active count, two mutexes, a condition variable | Acquire, StartSynthesize, Release, Clear |
| Supertonic pool | `src/providers/tts/supertonic/supertonic_tts.cpp` | one context (style, result buffer), a slot counter | EnsureContext, AcquireSlot, SynthesizeCopy, ReleaseSlot |
| Asynchronous translation | `src/lua_translate.cpp`, `HoundTTS-mission.lua` | result slots by id, scheduled polls | translateAsync, getTranslationResult, the script's polling |
| SRS protocol | `srs_client.cpp` | TCP and UDP sockets | SYNC, RADIO_UPDATE, EAM password, voice packets |
| Lua layer | `src/lua_*.cpp`, `dcs/**/HoundTTS-mission.lua` | for each load of the script: session table, timer, end handler | Transmit, Translate, updateTrackedSessions, kill |
| Configuration, registry, logger, HTTP clients, process launcher | the rest of `src/` | mostly read once | parsing, I/O |

### How they interact

A Lua call registers a session and detaches a worker. The worker runs
`TtsPipeline::Produce`, which fills a `PCMQueue` through two wrappers (one that
records for the cache, one that pads) or hands the queue to a further thread,
and then `SRSBackend::Transmit`, which attaches the position data and starts the
encoder thread (PCM chunks in, Opus frames out) and the stream thread (TCP
handshake, then a multimedia timer that sends a frame every 40 ms). The Lua
thread reaches into a running transmission in two ways: it clears the `alive`
flag, and it stores a position and calls a callback that the stream thread
registered, which sends it over that thread's connection. The Lua state, with the
script's tables and timers, is replaced at every mission; the DLL, its sessions
and its translation slots are not.

### What is hard

* **Lifetimes.** The position callback captures the `SRSClient` by raw pointer;
  the stream thread destroys the client while Lua may be about to call it.
* **Torn reads.** A position is several atomics; a heartbeat can read half of an
  update and record it as what was sent.
* **Ends.** Every queue must be marked done exactly after the last push, through
  two wrappers, on every error path and on threads that outlive the call; if the
  mark is missing a thread waits for ever, if it comes early audio is lost.
* **Partial failure.** A connection that fails, a timer that is not created, an
  encoder that cannot be initialised, a stream cut off in the middle, a packet
  that does not decode, a translation that fails: the rest must still be torn
  down, and the cache must not keep the result.
* **Books kept by hand.** The cache's list, map, counter and access order.
* **Waiting.** Slots of the synthesizer pools, `syncMutex` held during a send.
* **Two lives.** Missions end and restart, and the script may be loaded twice,
  while sessions, threads and slots of the DLL go on.
* **A server that need not answer.** Replies may be late, missing, someone
  else's or byte by byte, and `send` may take half a line and fail, which its
  callers do not take as the end of the connection.

`PROJECT.json` lists every hazard at its line with the property that covers it.

### What makes each component correct

* Sessions and stream: the callback never runs on a closed client; a session
  that is not in the map is over; every kill leads to a complete teardown; the
  server knows the current position.
* Pipeline: what is heard is the speech that was asked for, padded once; what is
  cached is what a listener heard, and complete if the provider reports its
  errors; nothing is pushed after the end; every queue ends.
* Cache: a lookup answers what was last stored under its key or nothing, never
  an expired entry; the counter is the sum of the sizes, and within the cap but
  for a buffer that was replaced by a larger one; nothing is evicted without need.
* Audio path: every sample is sent once and in order, but for the silence that
  fills up the last frame; the transmission ends.
* Piper pool: no slot is lost, no instance is shared, no wake-up is lost.
* Supertonic: a request gets its own text in its own style; no slot is lost.
* Translation: a callback is called once, with what the provider returned; a
  slot of a running mission is polled until it is freed.
* Mission script: the session of a dead object ends, a tracked position follows
  its unit, nothing that was started before a mission's end survives it.
* SRS link: no password is sent unasked, and none that was sent is passed over;
  lines never mix, and packets below 64 KB have the right lengths.

## 2. Modules

| Module | Models | Kind |
|---|---|---|
| `SessionLifecycle` | sessions, workers, stream threads, position callback | detailed specification |
| `SessionLifecycleProofs` | | theorems |
| `AudioCache` | what a cache of audio promises | abstract specification |
| `PCMCache` | `PCMCache`, implements `AudioCache` | detailed specification |
| `PCMCacheProofs` | | theorems |
| `TtsPipeline` | `Produce`, its wrappers and threads; extends `AudioCache` | composition |
| `TtsPipelineProofs` | | theorems |
| `AudioStream` | what the audio path promises | abstract specification |
| `AudioPath` | queues, encoder thread, timer; implements `AudioStream` | detailed specification |
| `AudioPathProofs` | | theorems |
| `Semaphore` | what a pool of slots promises | abstract specification |
| `PiperPool` | the pool of Piper synthesizers; implements `Semaphore` | detailed specification |
| `PiperPoolProofs` | | theorems |
| `SupertonicPool` | the Supertonic context and its slots; implements `Semaphore` | detailed specification |
| `SupertonicPoolProofs` | | theorems |
| `Mission` | missions and the loads of the mission script | shared environment |
| `TrackedSessions` | the script's session tables; extends `Mission` | detailed specification |
| `TranslateSlots` | translations, threads, slots and polls; extends `Mission` | detailed specification |
| `MissionScript` | both over the same missions | composition |
| `MissionScriptProofs` | | theorems |
| `SrsLink` | handshake, TCP lines and voice packets of an `SRSClient` | detailed specification |
| `SrsLinkProofs` | | theorems |
| `MC...` | constants, symmetry and bounds of the runs | |

`AudioPath`, `SessionLifecycle`, `PCMCache` and `TtsPipeline` check their types as
part of a safety property (`SamplesConserved`, `TypeOK`, `BooksBalance`,
`HeardIsSpeech`). The type invariants of all detailed specifications are proved.

Definitions named after a mutation (their comment begins with "Mutant:") are
variants of the definition that follows them. They occur in no specification; a
run in which they replace that definition violates the property listed with them
in `PROJECT.json`, which shows that the property depends on the code being as it
is.

### SessionLifecycle

One Lua thread (`lua`, a record with a program counter), and for every session
a worker, a producer, an encoder outcome, a stream thread with a program counter
(`StreamPC` names the steps of `srs_backend.cpp:56-95` and
`srs_client.cpp:StreamFromQueue`), a timer and a client. `registry`, `alive` and
`backend` are the session map, `Session::alive` and `Session::backendData`.

* `StartSpeech`, `StartGenerator`: `l_textToSpeech`, `l_startNoise`,
  `l_startTone`. `LuaGet` ... `LuaReturn`: `l_updateSession`, one action per
  lock or atomic access. `KillAll`, `Reap`: `SessionManager`.
* `Connect` ... `Destroy`: the stream thread in program order; every early
  return leads to the same cleanup, as the lambda in the code does. A `connect`
  that fails, or a UDP socket that cannot be made, leaves the TCP socket (`"half"`)
  to the destructor of the client (`Destroy`), after the session has left the map.
* The callback is one step on the Lua thread, which is the only writer of the
  position, and three on the stream thread (`LoopHeartbeat`, `LoadLon`,
  `HeartbeatSend`), between which Lua may store.

A position has two coordinates; the third of the code adds nothing to the torn
reads. `sentAt` is the age of the last message against the 175 s heartbeat.
`PositionAnnounced` is about a first message that fails: it is tried again in
every turn of the loop, so it gets through unless sends fail for ever (its premise
is strong fairness of successful heartbeats). The mutant that records a message as
sent whatever `SendTCP` returned violates it.

### AudioCache, PCMCache

`AudioCache` keeps a partial function from keys to audio that may forget at any
time and whose lookups answer what is there. `PCMCache` has the LRU list as a
sequence of entries, the map, the byte counter, the clock of the TTL, the lazily
loaded configuration and the setters; `Get`, `Put`, `Clear`, `GetStats` and the
setters are one action each, since each holds the one mutex throughout, and they
include the sweep and the eviction that they call. Audio is its size in bytes,
the only thing the cache looks at. `EvictsExactlyEnough` says of every step what
eviction does to the cap: a new entry brings the cache within it, evicting nothing
that would have fitted; and nothing makes the cache grow beyond it but a buffer
replaced by a larger one that alone fits (`PutReplace`, which does not look at the
total).

### TtsPipeline

A request is a thread with a program counter (`produce`) and its queue. The
audio of a request is the sequence of pieces its provider pushes between
padding. Providers are classes of what they push and report:

* `piper`: pieces from a detached thread, and an error is reported as failure;
* `socket` (Edge, ElevenLabs): pieces from a detached thread, and a stream cut off
  after some audio is reported as success;
* `openai`: a WAV reply at once or not at all; an Ogg reply packet by packet,
  without those that do not decode, up to the first malformed page, and success if
  anything was decoded (`openai_tts.cpp:178-253`);
* `rest` (Azure, Google, AWS, Supertonic, SAPI): everything with one push, or
  nothing. The HTTP clients return framed replies, which the code decodes as a
  whole; SAPI speaks synchronously into a stream in memory; Supertonic has its
  result in one buffer;
* `tone`: the test tone, which is not cached.

`ReportsErrors` names those that do not report success for a part. `CachedIsComplete`
is about them; `NeverTruncated`, what the comments promise of all, is violated.
The cache is `AudioCache`, so what holds here holds for `PCMCache`, which implements
it.

### AudioStream, AudioPath

`AudioStream` promises that audio is played in order and not ahead of what was
made, that a transmission that completes has played everything, and that it may
break off. `AudioPath` has the two queues, the encoder's remainder and program
counter, the timer and the stream thread as far as they touch audio. A sample is
its number, so that loss, doubling and reordering are all visible.

### Semaphore, PiperPool

A request is a thread that runs `Acquire`, `StartSynthesize`, the loop over
`piper_synthesize_next`, and `Release`. `Enter` is the critical section of
`Acquire`, on entry and after each wake-up; `Load` is `piper_create` under
`espeakMutex_`; `GiveBack` is the error path that returns the slot; `Notify` is
the `notify_one` after the mutex has been released, a step of its own. Wake-ups
may be spurious. Instances are addresses, and an address is free again once its
instance is destroyed. The slots, `Holders`, implement `Semaphore`.

### SupertonicPool

A request is a thread that runs `SynthesizeToQueue`: `LoadNative`,
`EnsureContext`, `Enter` (the critical section of `AcquireSlot`), `SynthesizeCopy`
and `Release`. `SynthesizeCopy` is three actions, because other threads move while
`styleMutex_` is held: `ChooseStyle` with the load of the style (`LoadStyle`,
which follows `tools/supertonic_api.cpp`: a failed load clears `has_style`),
`Synthesize` into the result buffer of the context, and `Copy` out of it. `cached`
is `cachedStylePath_`, kept apart from `ctxStyle` and `hasStyle` as in the code. An
audio is the request whose text it speaks and the style it is in, so a mix-up of
either is visible. Model path and threads are read once from the configuration,
so `EnsureContext` never replaces a context.

### Mission, TrackedSessions, TranslateSlots, MissionScript

`Mission` has the number of the mission, whether its end was announced, and how
often `HoundTTS-mission.lua` was loaded into its Lua state: `MissionScripting.lua`
and the hook may both load it. Each load has its own table and timer and the
functions of `HoundTTS` are those of the last one, hence `tracked[k]`.

* `Transmit`, `TransmitFails`, `KillSession`, `KillAllSessions`, `UpdateTracked(k)`:
  the functions of the script; `UpdateTracked(k)` is one whole walk of the k-th
  timer. `DerivePoint` has both ways a script may call `Transmit`: with a new
  parameter table, or with one that kept the point of an earlier call.
* A session of the DLL is reduced to what Lua can tell: started, attached (from
  here on an update reaches the position), over.
* `TranslateAsync`, `Refuse`: the two outcomes of `l_translateAsync`; `Fetch` and
  `Store` are its thread, whose three stores into the slot are separate steps,
  and `Result` says what `l_getTranslationResult` returns for a slot half written.
* `MissionEnd` raises the event and runs the handler; `Restart` drops tables and
  timers, and leaves the DLL's slots, threads and sessions alone.

### SrsLink

The stream thread's `Handshake` and the lines that it and the Lua thread send.
`LockTcp`, `SendPart`, `SendRest` and `SendFails` are `SendTCP`, whose loop may
have to call `send` twice. A `send` that fails ends that call of `SendTCP` and
nothing else: the connection stays open, callers go on, and the next line follows the
fragment (`cut`, a history variable, remembers where). `ReadReply` and `ReadVerdict`
read one line, or none: the receive timeout of two seconds is that of one byte, so
a server that sends the bytes of a line slowly (`ServerDrips`, `ReadBytes`) is waited
for; `ReadFails` is an error of `recv`. The server answers when it likes, with other
lines in between. `BuildVoicePacket` has the 16-bit lengths that `TimerProc` declares
and the bytes that it writes, for any number of frequencies; `Word` is the cast to
`uint16_t`.

## 3. Runs

| Run | What it asks | Instance |
|---|---|---|
| `session_safety` | callback and registry safety; the server is not left with a stale position | 1 session, 2 values per coordinate |
| `session_liveness` | kills, ends and calls complete | 1 session, `Reap` may be called |
| `cache` | books, order, freshness and eviction; `PCMCache` implements `AudioCache`, also while it is being reconfigured | 3 keys, sizes 0, 1, 2 and 4, cap 3, 3 insertions |
| `pipeline` | what is heard, what is cached, and that every queue ends | 3 requests, 2 of them for one key, 2 pieces; Piper and OpenAI |
| `audio` | samples are conserved, `AudioPath` implements `AudioStream`, finished audio ends the transmission | frames of 2 samples, chunks of 1 to 3, up to 7 samples |
| `piper` | slots, instances, wake-ups, voices; the pool implements `Semaphore`; every request ends | 4 requests, 2 models, 3 addresses, 2 slots, 1 idle instance per model |
| `supertonic` | own text and style; the slots implement `Semaphore`; every request ends | 4 requests, 2 readable styles and 1 unreadable, 2 slots |
| `mission` | translations, tracked sessions and what outlives a mission | 2 missions, 2 loads each, 1 message, 1 session, a unit and a static object, 2 places |
| `srs` | a sound handshake that ends, lines that do not mix, lengths of packets | a good and an outdated password, 1, 6147 and 6148 frequencies, frames of 3 and 4000 bytes, 3 lines while streaming |
| `pipeline_truncated`, `pipeline_translation`, `supertonic_style` | the findings of section 6 | as the runs above |

Why the bounds are enough:

* *Sessions.* Sessions share only the registry, the Lua thread and `KillAll`. The
  run has one; that the four properties hold for any number of sessions that
  disturb one another is proved (section 5). Two values per coordinate tell an
  old one from a new one. The liveness properties are about one session each.
* *Cache.* Three keys give a list with a middle; sizes go from empty over "fits
  with another" to "above the cap alone"; the TTL and three insertions let an
  entry be fresh, refreshed, on the edge and expired, and be replaced.
* *Pipeline.* Two requests for one key give a miss with a miss, a hit after a
  commit and two commits in a row; two pieces make a "middle" for a failure and a gap
  at either end. The key is translated speech by Piper, the other one is spoken by
  OpenAI, the class with the most behaviours; sockets and REST providers are in
  `pipeline_truncated`, and the theorems are about any. The test tone needs
  a fourth request, too many for liveness in reasonable time: it is modelled, and
  in none of these instances.
* *Audio.* Chunks are smaller than, equal to and larger than a frame and seven
  samples leave a remainder; a start-up buffer of two frames has audio below, at
  and above it; one silence frame shows the queue running dry.
* *Piper.* Two slots and four requests leave two asleep at once, so a newcomer
  can overtake a woken thread; two models make one wait for the slot that
  the other uses; with one idle instance per model, `Release` both keeps and
  destroys.
* *Supertonic.* Two requests for one style find it remembered, one for another
  style replaces it and one for a missing file makes the load fail, in any order;
  two of the four are asleep at once.
* *Mission.* Two missions are an ended one and the one that meets what it left.
  Two loads are all there can be. `TransmitFails` supplies the old point in a
  parameter table, so one session shows a stale start; sessions are independent but
  for the kill, and the safety properties are proved for any number.
* *SRS.* With a frame of 4000 bytes 6147 frequencies make a packet of 65,533 bytes,
  6148 one of 65,543, which 16 bits do not hold; with a frame of 3 bytes both fit. Three
  lines while streaming let two threads overlap before, in and after a line, and
  one follow a line that was cut off. Two unrelated lines can stand in for both
  answers.

## 4. Fairness

* Threads of the operating system run on and mutexes are released: weak fairness
  for steps that stay enabled, strong fairness for those that wait for
  `syncMutex`, whose holder always releases it after one send.
* Providers return: every HTTP and WebSocket call has a timeout.
* In `PiperPool` each thread's steps are strongly fair: a mutex that is released
  again and again is obtained. Which sleeper `notify_one` picks is left open; the
  requests are finitely many, so newcomers cannot overtake one for ever.
  Spurious wake-ups and `Clear` are not fair.
* The threads of `SupertonicPool` are strongly fair likewise, without spurious
  wake-ups.
* In `MissionScript` the DLL's threads run and providers return; DCS calls the
  scheduled functions while the mission runs, and need not afterwards.
* In `SrsLink` the stream thread runs, `send` returns and `recv` of a byte has its
  timeout of two seconds. The server need not answer, nor read. But it may hold
  the handshake for as long as it sends bytes of lines within two seconds of each
  other; that it does not do so for ever is the premise of `HandshakeEnds`, and
  not a fairness assumption. `SessionLifecycle` and `AudioPath`, where connecting and the
  handshake are single steps that return, rest on that premise: on a server that
  drips bytes for ever, a killed session does not end.
* The multimedia timer ticks once it exists; `timeSetEvent` may fail.
* A generator stops only when killed or at its duration, and the duration (up to
  two hours) is not counted on.
* Lua may never call again, no connection need ever work, and the clock need
  never move (`HeartbeatAges` is not fair).

## 5. Proofs

Every safety property and every refinement that a passing run checks is also a
theorem, for all values of the constants that the assumptions allow.

`SessionLifecycleProofs` proves, for any set of sessions and any coordinates:

* `TypeCorrect`: `Spec => []TypeOK`.
* `LocksHold`: `Spec => []LockInv`, the invariant that carries the rest.
  `syncMutex` is held by Lua exactly in the callback and by the stream thread
  exactly between entering and leaving it; the callback is registered only
  between registration and clearing; during those steps the client is connected.
  Without the equivalence for the lock, the step that clears the callback could
  not be shown to exclude a Lua thread inside it.
* `CallbackSafety`: `LockInv => CallbackSafe`.
* `NotFoundIsOver`: `~ReapCalled /\ Spec => []NotFoundMeansOver`, by `OverInv`,
  which says for every program counter what is already torn down; when the
  session has left the map, only the socket of a connection that failed can be left. The
  assumption is needed: `Reap` removes a session that has not started to stream,
  and nothing in the program calls it.
* `PositionIsNotStale`: by `SentInv`. A heartbeat that read half of an update
  does record it, but then the Lua thread is still between its store and its own
  callback, which will see the difference and send again.

Assumptions on the constants: `LifecycleAssumption`, that the sentinels are what
they are called.

`PiperPoolProofs` proves, for any finite set of requests and any models,
addresses and limits, every safety property that the run `piper` checks, and the
refinement:

* `TypeCorrect`, `UseIsExclusive`: together with the finiteness of the idle sets
  they are the first inductive invariant, `HandleInv`. That a thread in
  `Release` has an instance, needed for the type of the pool, is part of
  exclusive use, so neither can be proved alone.
* `VoiceIsOwn`: on top of the types, since `espeakMutex_` excludes every other
  step that sets the voice.
* `SlotsAreCounted`, `LoadedIsBounded`, `NoWakeupIsLost`: the second inductive
  invariant, `CountInv`. `SlotSteps` sorts the steps into those that take a slot,
  free one, or leave the slots alone; then each property is arithmetic about the
  sizes of the sets of threads. The bound on loaded instances needs the exact
  counter: a thread that loads saw `activeCount < Limit`, so the others of its
  model hold fewer slots than there are.
* `PoolIsSemaphore`: `Spec => KeepsLimit`, from the same classification.

Assumptions on the constants: `LifecycleAssumption`, that the sentinels are what
they are called, and `PoolAssumption`, that the requests are a finite set, the
configured limit is an integer (zero and less mean the default) and the sentinels
are none of the values.

`SupertonicPoolProofs`, for any finite set of requests and any styles:

* `TypeCorrect`.
* `AudioIsOwn`: by `StyleHolds`. Its invariant relates the style remembered outside
  the context to the one inside: the path is always that of the style data that the
  context keeps, whether or not it counts as loaded; the thread with `styleMutex_` has
  chosen that style; a thread that is about to copy finds its own result in the
  buffer. The first part is why a failed load makes later requests fail, but none
  speak in another's style.
* `SlotsAreSemaphore`: by `CountsHold`, that `activeCount` is the number of holders.

`SrsLinkProofs`, for any passwords and any behaviour of the server:

* `TypeCorrect`.
* `LinesStayWhole`: lines never mix. While a thread is inside `SendTCP` it is alone
  there and the end of the wire is what it has sent; between calls the wire ends with
  the end of a line or with one that was given up (`LinesInv`). What follows a
  fragment is another line from its beginning, never the end of one.
* `HandshakeIsSound`: any part of a password on the wire means that the thread is past
  the question for it, and the only way from there to streaming is a line "accepted",
  which is in the inbox only if the server has accepted. An unrelated line may
  displace an answer; it cannot forge one. It says nothing of a client that sent no
  password: if the reply to the SYNC is late, lost or displaced, the client streams
  without one, in the code and in the model.
* `WireStaysWhole`: lines as above, and a voice packet's lengths are right exactly as long
  as it is smaller than 64 KB, without an assumption on the number of frequencies.

`MissionScriptProofs`, for any number of missions, sessions, objects and messages:

* `TypeCorrect`, `SlotsArePolled`.
* `ResultsAreWhole`, assuming `StoresInOrder`: what a slot's fields say is tied to
  what the provider returned, and the script polls a slot no more once it has
  answered. The flag `done` is a plain `bool` that another thread reads, a data race in
  C++; the assumption is that the compiler keeps the order of the stores, as it
  does in the Windows x86-64 builds the project makes. Without it TLC finds a
  callback called with an empty text.
* `SurvivorsAreLate`: strengthened by what precedes the first load, when the end
  handler is not there: nothing of this mission can have been started.

Assumptions on the constants: `SupertonicAssumption`, `LinkAssumption`,
`MissionAssumption`, `TrackedAssumption`, `TranslateAssumption`: sets of numbers are
what they are called and sentinels are none of the values.

`PCMCacheProofs`, for any keys, sizes of buffers, limits and configurations:

* `BooksBalanceAlways`, `NewestFirstAlways`: from the inductive invariant `BookInv`,
  whose core, `Sound`, says that the list has no key twice, its keys are those of the map, the ages never
  decrease towards its end and `totalBytes` is the sum of its sizes. None of these
  parts is inductive alone: an entry that is replaced changes the counter by the
  difference of two sizes, which is right only if the map points to the one entry
  with that key.
* `HitsAreFreshAlways`: the sweep stops at the first young entry it meets from the
  end; only the order of the list says that what is in front of it is young as well.
* `EvictsExactlyEnoughAlways`: the sweep and the eviction each keep a beginning of the
  list (`KeepFirst`), whose sum and length split (`ListSplit`); what lies behind is too old or would not have fitted, and the
  counter of evictions grows by its length. Every other operation adds no bytes
  (`GetShrinks`, `OthersShrink`: what is left of a list has no more than the whole), but for
  the replacement (`PutReplaceGrows`).
* `PromiseKept`: `Spec => KeepsPromise`, with the audio under a key as the refinement
  mapping: each operation is a lookup, a store or a forgetting of `AudioCache`.

`TtsPipelineProofs`, for any requests, keys, kinds of providers and number of pieces:

* The inductive invariant `PipeInv` says of each request, by the stage its thread is
  at, what was heard (`Lead`: silence and the pieces spoken; `Whole`: with the silence
  at the end), that the copy is what was heard until it is committed, that the lead-in
  is latched with the first piece, and that the queue is done in the last two stages
  only; and of the cache, that what it holds was played by somebody whose queue is done.
* `HeardIsSpeechAlways`, `CachedAsHeardAlways` and `NothingAfterDoneAlways` follow from it.
  A replay is right because the cache is, and the cache is right because what was
  committed was heard: neither could be proved without the other.
* `CachedIsCompleteAlways`: what the cache has of a provider that reports its errors is
  complete. For the others it is false (run `pipeline_truncated`).

`AudioPathProofs`, for any sizes of frames and chunks:

* `SamplesConservedAlways`: by `PathInv`, whose `Content` says that the samples under way,
  in the order of their queues, are numbered, and that silence follows them only once the
  encoder has flushed; and whose `Control` ties the encoder's steps to what is left
  in its buffer and queue. Every step then moves a piece over a border
  between two parts (`PopKeepsContent`, `FrameKeepsContent`, `SendKeepsContent`) or
  appends to the whole (`PushKeepsContent`, `FlushKeepsContent`).
* `PromiseKept`: `Spec => KeepsPromise`. A frame that is sent is full, or the last and
  filled up (`SendPlays`); the timer's end is complete because it is behind the
  encoder's (`FinishCompletes`), which `Control` says; everything else may at most break off.

Assumptions on the constants: `PCMCacheAssumption` and `CacheAssumption` (sizes and limits
are numbers, the sentinel is no audio), `PipelineAssumption` (the test tone, and only it,
has no key; there is at least one piece), `AudioAssumption` (the cache takes any utterance,
complete or not), `AudioPathAssumption` (a frame and a chunk have at least one sample).

*Induction.* What `BytesOf` and `FlattenSeq`, two recursive functions, compute is needed for
lists of any length. The theorems of the library that are about an operator cannot be
used here, but well-foundedness of the natural numbers can: a set of numbers with 0 and
the successor of each of its members is all of them (`NatSetInduction`), and the set of
the lengths for which a statement holds takes the place of the statement.

Only model-checked: the properties under fairness (`KillEndsSession`,
`OverStopsProducer`, `PlayedOutIsRemoved`, `UpdateReturns`, `PositionAnnounced`,
`EveryQueueEnds`, `DoneEnds`, `EveryRequestEnds`, `EveryTranslateAnswered`,
`DeadObjectEndsSession`, `TrackedPositionFollows`, `HandshakeEnds`): liveness and ENABLED
are out of the prover's reach. For the safety properties the runs remain the quick check of
a changed model, and the place where each is seen to fail for a mutant.

## 6. Findings

Where the code does something else than a comment or a document says
(`PROJECT.json` has the quotations):

* `pipeline_truncated`: Edge and ElevenLabs report a broken stream as success, so
  the fragment is cached. OpenAI does the same with an Ogg reply of which a packet does
  not decode or a page is malformed (`openai_tts.cpp:190`, `241`, `253`).
* `pipeline_translation`: if the translation fails, the original is spoken and
  cached under the key of the translation.
* `supertonic_style`: after a style failed to load, a request for the style loaded
  before it skips the load and is refused for want of a style; this goes on until
  a third style is asked for.

Seen while modelling, in the models as the code has them, without a run of their
own:

* `lua_tts.cpp:507`: an update before `Transmit` has attached the position data
  returns true and is dropped. `TrackedPositionFollows` shows that the script's
  timer makes up for it.
* `pcm_cache.cpp:147`: replacing an entry by a larger one skips the eviction, so the
  cache may be over its budget until the next new entry (`EvictsExactlyEnough`).
* `srs_client.cpp:378`: complete audio shorter than the start-up buffer waits for
  the five-second deadline.
* `srs_client.cpp:508`: from 6148 frequencies on, depending on the frame, the buffer of
  a voice packet is shorter than what is written into it; nothing bounds their number.
* `srs_client.cpp:287` says that a line is read "with 2s timeout". The timeout is that of
  each byte; a server that sends them one by one without a newline is never given up.
* `srs_client.cpp:565-581`: when `send` fails after a part of a line, only that call gives
  up. The callers at 424 and 460 go on sending, and the next line reaches the server glued to the
  fragment.
* `srs_client.cpp:230-232`: a reply to the SYNC that is late, fails or comes after another
  line counts as "no external AWACS mode", and the client streams without a password
  to a server that asked for one.
* `srs_client.cpp:256`: any line that arrives in place of the verdict on a good
  password ends the session.
* `HoundTTS-hook.lua:39` calls loading the mission script twice a safe no-op; a second
  load makes a second table, timer and end handler. Within a mission the properties
  of `mission` hold all the same, since the first load's timer keeps walking its table.
* `HoundTTS-mission.lua:250`: a parameter table that is used again keeps the point of
  its first use. A unit's next update corrects it; a static object's never comes.
* `srs_types.h:31` says that the modulation is inferred where a token is missing or
  empty. A blank token is skipped instead, and those after it apply to the frequency
  before theirs.

## 7. Not modelled

* Wording, logging, formatting, HTTP requests, JSON, Base64 and the content of
  audio. The samples of `AudioPath` are numbers, the audio of the cache is a size.
* `opus_encode` failing (it does not with constant, valid arguments), and the
  multimedia timer's thread overlapping itself or the return of `timeKillEvent`:
  whether a `TimerProc` may still run is a matter of Windows' timer.
* The hit and miss counters of the cache.
* Decoding in the cloud providers, except for whether it yields audio.
* Configuration, voice registry and speech-time tables: read-only data.
* Process launcher, logger, utilities: the operating system.
* Vendored code: `tools/httplib.h`, `minimp3.h` and the headers of Opus, Lua, Piper
  and Supertonic. These make up nearly three quarters of the repository's C and C++;
  where the project's code calls them, the models have what the call does.
* Of the project's own code, the largest parts left out build HTTP requests and pick
  results apart (providers, JSON, Base64, WAV, Ogg and MP3), read Lua arguments and
  their defaults, and scan directories for voices: none keeps state that another
  thread or a later call depends on.

## 8. Plan

Done: sessions and the stream thread, the cache, the pipeline, the audio path, both
synthesizer pools, translations, the mission script and the SRS link, each with its
safety properties and refinements proved.

What could follow:

1. Composition: a pipeline feeding an audio path inside a session, with `AudioCache`,
   `AudioStream` and `Semaphore` in place of the detailed modules, and what follows for a
   whole transmission.
2. The pure parts, as functions against reference definitions: frequency and
   modulation lists, the voice registry's choice, speech-time estimates.
3. Proofs: what the liveness properties rest on, as far as it is safety (which thread
   holds what while another waits), and that no more than one waits for the other.
