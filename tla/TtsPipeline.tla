----------------------------- MODULE TtsPipeline ----------------------------
(***************************************************************************)
(* TTSPipeline::Produce: look a request up in the cache, or translate it   *)
(* and have a provider speak it into a chain of queues                     *)
(*                                                                         *)
(*    provider -> PaddedPCMQueue -> CachingPCMQueue -> PCMQueue            *)
(*                                                                         *)
(* that adds silence at both ends, keeps a copy, and commits the copy to   *)
(* the cache when the provider reports success.  Some providers run on the *)
(* caller's thread, most on a detached one, as does the replay of a hit.   *)
(*                                                                         *)
(* The cache is any implementation of AudioCache.  Audio is a sequence of  *)
(* segments: silence, or one piece of what a request says.  Requests with  *)
(* the same key say the same (the key hashes everything that matters).     *)
(* External parts: a provider's service decides how many pieces come, the  *)
(* translation service whether there is a translation.                     *)
(***************************************************************************)
EXTENDS AudioCache, Naturals, Sequences

CONSTANTS
  Requests,    \* requests for speech
  NoKey,       \* the key of a test tone, which is not cached
  KeyOf,       \* the key of every request
  ProviderOf,  \* for every key the kind of provider that speaks it
  Translated,  \* the keys of requests that ask for a translation
  Pieces       \* the number of pieces of a complete utterance

\* How providers run, what they push and what they report:
\*   "piper"   streams on a detached thread and reports an error as failure;
\*   "socket"  Edge and ElevenLabs stream from a WebSocket on a detached thread
\*             and report success if any audio came;
\*   "openai"  OpenAI, on a detached thread, pushes a WAV reply at once or not at
\*             all, but an Ogg reply packet by packet: it leaves out what does
\*             not decode, ends where a page is malformed, and reports success
\*             if any packet was decoded;
\*   "rest"    Azure and Supertonic on a detached thread, and Google, AWS and
\*             SAPI on the caller's, push everything at once or nothing;
\*   "tone"    the test tone is generated on the caller's thread.
ProviderKinds == {"piper", "socket", "openai", "rest", "tone"}

ASSUME PipelineAssumption ==
  /\ NoKey \notin Keys
  /\ KeyOf \in [Requests -> Keys \cup {NoKey}]
  /\ ProviderOf \in [Keys \cup {NoKey} -> ProviderKinds]
  /\ \A k \in Keys \cup {NoKey} : ProviderOf[k] = "tone" <=> k = NoKey
  /\ Translated \subseteq Keys
  /\ Pieces \in Nat \ {0}

VARIABLES
  produce,     \* what is executed for each request, in Produce and its threads
  queue        \* the chain of queues of each request

vars == <<stored, answer, produce, queue>>

Stages == {"idle", "lookup", "translate", "dispatch", "speak", "pad", "markDone",
           "abort", "finalize", "replay", "replayed", "ended"}
Texts  == {"original", "translated"}

Silence     == [of |-> NoKey, text |-> "original", piece |-> 0]
Segments    == [of : Keys \cup {NoKey}, text : Texts, piece : 0..Pieces]
Padded(audio) == <<Silence>> \o audio \o <<Silence>>
Cacheable(r)  == KeyOf[r] # NoKey
Provider(r)   == ProviderOf[KeyOf[r]]

\* The first n pieces of an utterance, and any pieces in the order of the
\* utterance, some of which may be missing.
UpTo(n)    == [i \in 1..n |-> i]
Increasing == {ps \in UNION {[1..n -> 1..Pieces] : n \in 0..Pieces} :
                  \A i, j \in 1..Len(ps) : i < j => ps[i] < ps[j]}

\* The audio of the pieces ps of what a request with key k says.
Speech(k, t, ps) == [i \in 1..Len(ps) |-> [of |-> k, text |-> t, piece |-> ps[i]]]

\* What providers may have pushed when they stop, and in which chunks.
Portions(provider) ==
  IF provider = "openai" THEN Increasing ELSE {UpTo(n) : n \in 0..Pieces}
Chunks(provider) ==
  (IF provider = "rest" THEN {} ELSE {<<p>> : p \in 1..Pieces})
    \cup (IF provider \in {"rest", "openai"} THEN {UpTo(Pieces)} ELSE {})

\* The cache takes any utterance, complete or not.
ASSUME AudioAssumption ==
  \A k \in Keys, t \in Texts, ps \in Increasing \ {<<>>} :
     Padded(Speech(k, t, ps)) \in Audio

\* stage: where the request is, on its worker or on the thread that Produce has
\* detached; text: what is spoken; spoken: the pieces the provider has pushed;
\* ok: what it returned; hit: what is replayed.
ProduceState ==
  [stage : Stages, text : Texts, spoken : Increasing, ok : BOOLEAN,
   hit : Audio \cup {NoAudio}]

Fresh == [stage |-> "idle", text |-> "original", spoken |-> <<>>, ok |-> FALSE,
          hit |-> NoAudio]

\* leadIn is PaddedPCMQueue::leadInSent_; acc and failed are CachingPCMQueue's
\* accumulator_ and failed_; heard is all that was ever pushed into the
\* PCMQueue, whether popped already or not, and done its m_done.
QueueState ==
  [leadIn : BOOLEAN, acc : Seq(Segments), failed : BOOLEAN,
   heard : Seq(Segments), done : BOOLEAN]

TypeOK ==
  /\ CacheTypeOK
  /\ produce \in [Requests -> ProduceState]
  /\ queue \in [Requests -> QueueState]

Init ==
  /\ CacheInit
  /\ produce = [r \in Requests |-> Fresh]
  /\ queue = [r \in Requests |->
        [leadIn |-> FALSE, acc |-> <<>>, failed |-> FALSE,
         heard |-> <<>>, done |-> FALSE]]

-----------------------------------------------------------------------------

At(r, s) == produce[r].stage = s
Goes(r, s) == produce' = [produce EXCEPT ![r].stage = s]

\* The last thread of the request ends, and what it had captured is gone.
Ends(r) == produce' = [produce EXCEPT ![r] = [Fresh EXCEPT !.stage = "ended"]]

\* l_textToSpeech detaches the worker that calls Produce.
Start(r) ==
  /\ At(r, "idle")
  /\ Goes(r, IF Cacheable(r) THEN "lookup" ELSE "translate")
  /\ UNCHANGED <<cacheVars, queue>>

\* Produce asks the cache.  A hit is replayed by a thread of its own, which
\* holds the audio whatever becomes of the entry.
LookupHits(r) ==
  /\ At(r, "lookup")
  /\ Lookup(KeyOf[r])
  /\ answer'[2] # NoAudio
  /\ produce' = [produce EXCEPT ![r].stage = "replay", ![r].hit = answer'[2]]
  /\ UNCHANGED queue

LookupMisses(r) ==
  /\ At(r, "lookup")
  /\ Lookup(KeyOf[r])
  /\ answer'[2] = NoAudio
  /\ Goes(r, "translate")
  /\ UNCHANGED queue

\* The optional translation; if it fails, the original message is spoken.
Translate(r) ==
  /\ At(r, "translate")
  /\ \E t \in IF KeyOf[r] \in Translated THEN Texts ELSE {"original"} :
        produce' = [produce EXCEPT ![r].stage = "dispatch", ![r].text = t]
  /\ UNCHANGED <<cacheVars, queue>>

\* Piper has neither the voice asked for nor its default voice.
AbortPiper(r) ==
  /\ At(r, "dispatch")
  /\ Provider(r) = "piper"
  /\ Goes(r, "abort")
  /\ queue' = [queue EXCEPT ![r].failed = TRUE]
  /\ UNCHANGED cacheVars

\* The provider starts, on a detached thread or right here.
Dispatch(r) ==
  /\ At(r, "dispatch")
  /\ Goes(r, "speak")
  /\ UNCHANGED <<cacheVars, queue>>

\* What arrives in the PCMQueue and, on the way, in the copy of a cacheable
\* request.
Push(r, segments) ==
  [queue[r] EXCEPT !.heard = @ \o segments,
                   !.acc   = IF Cacheable(r) THEN @ \o segments ELSE @]

\* Mutant: leadInSent_ is not latched.
PaddedPushAgain(r, segments) ==
  IF Cacheable(r) /\ ~queue[r].leadIn THEN Push(r, <<Silence>> \o segments)
  ELSE Push(r, segments)

\* PaddedPCMQueue::Push: the first chunk is preceded by silence.
PaddedPush(r, segments) ==
  IF Cacheable(r) /\ ~queue[r].leadIn
  THEN [Push(r, <<Silence>> \o segments) EXCEPT !.leadIn = TRUE]
  ELSE Push(r, segments)

\* The provider pushes a chunk behind what it has pushed.
ProviderPushes(r) ==
  /\ At(r, "speak")
  /\ \E ps \in Chunks(Provider(r)) :
        /\ produce[r].spoken \o ps \in Portions(Provider(r))
        /\ produce' = [produce EXCEPT ![r].spoken = @ \o ps]
        /\ queue' = [queue EXCEPT ![r] =
              PaddedPush(r, Speech(KeyOf[r], produce[r].text, ps))]
  /\ UNCHANGED cacheVars

\* What the provider may return after the pieces it has pushed: Piper knows of
\* its errors; a WebSocket that closes in the middle of an utterance looks
\* like one that closes at the end, and OpenAI counts what was decoded, not what
\* was not; Azure and AWS report success for a response without samples, too.
Reports(r) ==
  LET spoken   == produce[r].spoken
      complete == spoken = UpTo(Pieces)
  IN CASE Provider(r) = "piper"               -> {FALSE, complete}
       [] Provider(r) \in {"socket", "openai"} -> {spoken # <<>>}
       [] OTHER                               -> {TRUE, complete}

\* The provider stops pushing and is about to mark the queue done.
ProviderStops(r) ==
  /\ At(r, "speak")
  /\ Provider(r) = "tone" => produce[r].spoken = UpTo(Pieces)
  /\ \E o \in Reports(r) :
        produce' = [produce EXCEPT ![r].stage = "pad", ![r].ok = o]
  /\ UNCHANGED <<cacheVars, queue>>

\* Mutant: the queue is done before the trailing silence arrives.
TrailingPadAfterDone(r) ==
  /\ At(r, "pad")
  /\ UNCHANGED cacheVars
  /\ IF queue[r].leadIn /\ ~queue[r].done
     THEN queue' = [queue EXCEPT ![r].done = TRUE] /\ UNCHANGED produce
     ELSE /\ Goes(r, "markDone")
          /\ queue' = IF queue[r].leadIn
                      THEN [queue EXCEPT ![r] = Push(r, <<Silence>>)] ELSE queue

\* Mutant: the trailing silence goes straight to the PCMQueue.
TrailingPadUncopied(r) ==
  /\ At(r, "pad")
  /\ Goes(r, "markDone")
  /\ queue' = IF queue[r].leadIn THEN [queue EXCEPT ![r].heard = @ \o <<Silence>>] ELSE queue
  /\ UNCHANGED cacheVars

\* PaddedPCMQueue::MarkDone: silence after the last chunk, if there was any.
TrailingPad(r) ==
  /\ At(r, "pad")
  /\ Goes(r, "markDone")
  /\ queue' = IF queue[r].leadIn THEN [queue EXCEPT ![r] = Push(r, <<Silence>>)] ELSE queue
  /\ UNCHANGED cacheVars

\* CachingPCMQueue::MarkDone passes the end on to the PCMQueue, as it does for
\* the abort, which bypasses the padding.
ForwardDone(r) ==
  /\ At(r, "markDone") \/ At(r, "abort")
  /\ (IF Cacheable(r) THEN Goes(r, "finalize") ELSE Ends(r))
  /\ queue' = [queue EXCEPT ![r].done = TRUE]
  /\ UNCHANGED cacheVars

\* Mutant: what was heard is committed however the provider ended.
CommitAlways(r) ==
  /\ At(r, "finalize")
  /\ Ends(r)
  /\ IF queue[r].acc = <<>> THEN UNCHANGED cacheVars ELSE Store(KeyOf[r], queue[r].acc)
  /\ queue' = [queue EXCEPT ![r].acc = <<>>, ![r].done = TRUE]

\* CachingPCMQueue::Finalize with success: commit the copy.
Commit(r) ==
  /\ At(r, "finalize")
  /\ produce[r].ok /\ ~queue[r].failed
  /\ Ends(r)
  /\ IF queue[r].acc = <<>> THEN UNCHANGED cacheVars ELSE Store(KeyOf[r], queue[r].acc)
  /\ queue' = [queue EXCEPT ![r].acc = <<>>, ![r].done = TRUE]

\* CachingPCMQueue::Finalize after a failure.
Discard(r) ==
  /\ At(r, "finalize")
  /\ ~produce[r].ok \/ queue[r].failed
  /\ Ends(r)
  /\ queue' = [queue EXCEPT ![r].failed = @ \/ ~produce[r].ok, ![r].done = TRUE]
  /\ UNCHANGED cacheVars

\* Mutant: the replay goes through the padding queue.
ReplayPadded(r) ==
  /\ At(r, "replay")
  /\ Goes(r, "replayed")
  /\ queue' = [queue EXCEPT ![r].heard = @ \o Padded(produce[r].hit)]
  /\ UNCHANGED cacheVars

\* The replay of a hit: all of it, into the bare queue.
Replay(r) ==
  /\ At(r, "replay")
  /\ Goes(r, "replayed")
  /\ queue' = [queue EXCEPT ![r].heard = @ \o produce[r].hit]
  /\ UNCHANGED cacheVars

\* Mutant: the replay does not mark the queue done.
ReplayForgetsDone(r) ==
  /\ At(r, "replayed")
  /\ Ends(r)
  /\ UNCHANGED <<cacheVars, queue>>

ReplayDone(r) ==
  /\ At(r, "replayed")
  /\ Ends(r)
  /\ queue' = [queue EXCEPT ![r].done = TRUE]
  /\ UNCHANGED cacheVars

\* The mission ends, a script clears the cache, or it is read by the duration
\* estimate, which may expire entries.
CacheForgets == Forget /\ UNCHANGED <<produce, queue>>

Work(r) ==
  \/ LookupHits(r)
  \/ LookupMisses(r)
  \/ Translate(r)
  \/ AbortPiper(r)
  \/ Dispatch(r)
  \/ ProviderPushes(r)
  \/ ProviderStops(r)
  \/ TrailingPad(r)
  \/ ForwardDone(r)
  \/ Commit(r)
  \/ Discard(r)
  \/ Replay(r)
  \/ ReplayDone(r)

Next ==
  \/ \E r \in Requests : Start(r) \/ Work(r)
  \/ CacheForgets

Spec == Init /\ [][Next]_vars

\* A started thread runs on: providers and the services behind them return
\* (their HTTP clients have timeouts).
FairSpec ==
  /\ Spec
  /\ \A r \in Requests : WF_vars(Work(r))

-----------------------------------------------------------------------------

Complete(k) == {Padded(Speech(k, t, UpTo(Pieces))) : t \in Texts}

\* Providers that report failure when something of the utterance is missing.
ReportsErrors(provider) == provider \notin {"socket", "openai"}

\* Every started request's PCMQueue is eventually done, whatever failed and on
\* whatever path: the encoder waits for it, and until then the transmission
\* cannot end (tts_pipeline.h:21, pcm_queue.h:24).
EveryQueueEnds == \A r \in Requests : ~At(r, "idle") ~> queue[r].done

\* Nothing is pushed once the queue is done: the encoder may have flushed its
\* last frame (srs_backend.cpp:60), and what came later would not be played.
NothingAfterDone ==
  [][\A r \in Requests : queue[r].done => queue'[r].heard = queue[r].heard]_vars

\* What a request plays, from a provider or from the cache, is nothing or its
\* own speech, in one language, each piece at most once and in order, with silence
\* once before and once after it (tts_pipeline.cpp:63-67); it starts at the
\* beginning and has no gaps, unless OpenAI speaks it, whose decoder leaves out
\* what does not decode (openai_tts.cpp:241); and all variables have their types.
HeardIsSpeech ==
  /\ TypeOK
  /\ \A r \in Requests : Cacheable(r) /\ queue[r].done =>
       \/ queue[r].heard = <<>>
       \/ \E t \in Texts, ps \in Portions(Provider(r)) \ {<<>>} :
             queue[r].heard = Padded(Speech(KeyOf[r], t, ps))

\* What the cache holds is what some request with that key has played in full:
\* no other request's audio, and no less than was heard (pcm_cache.h:168).
CachedAsHeard ==
  \A k \in Keys : stored[k] # NoAudio =>
     \E r \in Requests :
        KeyOf[r] = k /\ queue[r].done /\ queue[r].heard = stored[k]

\* What a provider that reports its errors has spoken is in the cache as a
\* complete utterance or not at all: one that stopped half way is not committed,
\* although it was heard (tts_pipeline.cpp:77-80).  Nothing is said of WebSockets
\* and of OpenAI, which report success for part of an utterance.
CachedIsComplete ==
  \A k \in Keys : stored[k] # NoAudio /\ ReportsErrors(ProviderOf[k])
                    => stored[k] \in Complete(k)

\* Doc claim (tts_pipeline.cpp:77-80, pcm_cache.h:118): going by the provider's
\* return value keeps truncated audio out of the cache, whatever the provider.
NeverTruncated ==
  \A k \in Keys : stored[k] # NoAudio => stored[k] \in Complete(k)

\* Doc claim (pcm_cache.cpp:44, README.md:461): the key covers everything that
\* affects the audio, so a request for a translation is not answered with the
\* original, which is only spoken when its own translation fails.
CachedIsTranslated ==
  \A k \in Translated : stored[k] # NoAudio =>
     \A i \in DOMAIN stored[k] : stored[k][i].of = k => stored[k][i].text = "translated"

=============================================================================
