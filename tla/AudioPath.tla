------------------------------ MODULE AudioPath -----------------------------
(***************************************************************************)
(* The way of the audio from a producer to the server, through two queues: *)
(*                                                                         *)
(*   producer -> PCMQueue -> encoder thread -> AudioQueue -> timer -> UDP  *)
(*                                                                         *)
(* The encoder thread (srs_backend.cpp) cuts chunks of any size into Opus  *)
(* frames; the multimedia timer that StreamFromQueue starts takes a frame  *)
(* every 40 ms; the stream thread waits for the timer to be finished.      *)
(*                                                                         *)
(* A sample is identified by its number, the silence that fills up the     *)
(* last frame is 0, and an Opus packet is the frame it encodes.  Silence   *)
(* frames, which the timer sends while the queue is empty, are counted.    *)
(***************************************************************************)
EXTENDS Naturals, SequencesExt

CONSTANTS
  FrameSamples,   \* kFrameSamples
  ChunkSizes,     \* sizes of the chunks that producers push
  StartupFrames,  \* frames that StreamFromQueue waits for
  MaxSamples,     \* bound: samples produced
  MaxSilences     \* bound: silence frames sent

ASSUME AudioPathAssumption ==
  /\ FrameSamples \in Nat \ {0}
  /\ ChunkSizes \subseteq Nat \ {0}
  /\ StartupFrames \in Nat
  /\ MaxSamples \in Nat
  /\ MaxSilences \in Nat

VARIABLES
  produced,   \* samples pushed so far
  pcm,        \* PCMQueue::m_queue
  pcmDone,    \* PCMQueue::m_done
  encoder,    \* what the encoder thread does next
  buf,        \* OpusFrameEncoder::m_buf
  opus,       \* AudioQueue::m_queue
  opusDone,   \* AudioQueue::m_done
  stream,     \* what the stream thread does next
  alive,      \* session->alive
  finished,   \* TimerState::finished, and who set it
  sent,       \* the frames sent
  silences    \* silence frames sent

producerVars == <<produced, pcm, pcmDone>>
encoderVars  == <<encoder, buf>>
opusVars     == <<opus, opusDone>>
streamVars   == <<stream, alive, finished>>
timerVars    == <<sent, silences>>
vars == <<producerVars, encoderVars, opusVars, streamVars, timerVars>>

Samples == 1..MaxSamples
OpusFrames == [1..FrameSamples -> {0} \cup Samples]

TypeOK ==
  /\ produced \in 0..MaxSamples
  /\ pcm \in Seq(Seq(Samples))
  /\ pcmDone \in BOOLEAN
  /\ encoder \in {"init", "pop", "encode", "flush", "markDone", "ended", "failed"}
  /\ buf \in Seq(Samples)
  /\ opus \in Seq(OpusFrames)
  /\ opusDone \in BOOLEAN
  /\ stream \in {"connecting", "startup", "playing", "timerless", "stopped", "ended"}
  /\ alive \in BOOLEAN
  /\ finished \in {"no", "drained", "killed"}
  /\ sent \in Seq(OpusFrames)
  /\ silences \in 0..MaxSilences

Init ==
  /\ produced = 0
  /\ pcm = <<>>
  /\ pcmDone = FALSE
  /\ encoder = "init"
  /\ buf = <<>>
  /\ opus = <<>>
  /\ opusDone = FALSE
  /\ stream = "connecting"
  /\ alive = TRUE
  /\ finished = "no"
  /\ sent = <<>>
  /\ silences = 0

-----------------------------------------------------------------------------
(* The producer (TtsPipeline): chunks, then the end.                       *)

Push(n) ==
  /\ ~pcmDone
  /\ produced + n <= MaxSamples
  /\ produced' = produced + n
  /\ pcm' = Append(pcm, [i \in 1..n |-> produced + i])
  /\ UNCHANGED <<pcmDone, encoderVars, opusVars, streamVars, timerVars>>

MarkDone ==
  /\ ~pcmDone
  /\ pcmDone' = TRUE
  /\ UNCHANGED <<produced, pcm, encoderVars, opusVars, streamVars, timerVars>>

-----------------------------------------------------------------------------
(* The encoder thread.                                                     *)

EncoderAt(from, to) ==
  /\ encoder = from
  /\ encoder' = to
  /\ UNCHANGED <<streamVars, timerVars>>

\* OpusFrameEncoder::Init.
EncoderInit ==
  /\ EncoderAt("init", "pop")
  /\ UNCHANGED <<producerVars, buf, opusVars>>

\* Mutant: the thread returns without a word.
EncoderInitFailsSilently ==
  /\ EncoderAt("init", "failed")
  /\ UNCHANGED <<producerVars, buf, opusVars>>

\* Init failed: nothing will be encoded.
EncoderInitFails ==
  /\ EncoderAt("init", "failed")
  /\ opusDone' = TRUE
  /\ UNCHANGED <<producerVars, buf, opus>>

\* PCMQueue::Pop returns a chunk; EncodeChunk appends it to the buffer.  A Pop
\* that times out changes nothing, and the thread tries again.
EncoderPops ==
  /\ EncoderAt("pop", "encode")
  /\ pcm # <<>>
  /\ pcm' = Tail(pcm)
  /\ buf' = buf \o Head(pcm)
  /\ UNCHANGED <<produced, pcmDone, opusVars>>

\* Mutant: the buffer is cleared although it may hold more than the frame.
EncodeFrameClears ==
  /\ EncoderAt("encode", "encode")
  /\ Len(buf) >= FrameSamples
  /\ opus' = Append(opus, SubSeq(buf, 1, FrameSamples))
  /\ buf' = <<>>
  /\ UNCHANGED <<producerVars, opusDone>>

\* EncodeChunk: push a frame while the buffer holds one.
EncodeFrame ==
  /\ EncoderAt("encode", "encode")
  /\ Len(buf) >= FrameSamples
  /\ opus' = Append(opus, SubSeq(buf, 1, FrameSamples))
  /\ buf' = SubSeq(buf, FrameSamples + 1, Len(buf))
  /\ UNCHANGED <<producerVars, opusDone>>

ChunkEncoded ==
  /\ EncoderAt("encode", "pop")
  /\ Len(buf) < FrameSamples
  /\ UNCHANGED <<producerVars, buf, opusVars>>

\* Mutant: the frames are done before the buffer is flushed.
EncoderDrainedEarly ==
  /\ EncoderAt("pop", "flush")
  /\ pcm = <<>> /\ pcmDone
  /\ opusDone' = TRUE
  /\ UNCHANGED <<producerVars, buf, opus>>

\* PCMQueue::Pop reports the end: all chunks are popped and no more will come.
EncoderDrained ==
  /\ EncoderAt("pop", "flush")
  /\ pcm = <<>> /\ pcmDone
  /\ UNCHANGED <<producerVars, buf, opusVars>>

\* Mutant: the last frame is not filled up.
FlushUnpadded ==
  /\ EncoderAt("flush", "markDone")
  /\ opus' = IF buf = <<>> THEN opus ELSE Append(opus, buf)
  /\ buf' = <<>>
  /\ UNCHANGED <<producerVars, opusDone>>

\* OpusFrameEncoder::Flush: fill up the last frame and push it.
Flush ==
  /\ EncoderAt("flush", "markDone")
  /\ opus' = IF buf = <<>> THEN opus
             ELSE Append(opus, [i \in 1..FrameSamples |->
                                  IF i <= Len(buf) THEN buf[i] ELSE 0])
  /\ buf' = <<>>
  /\ UNCHANGED <<producerVars, opusDone>>

EncoderMarksDone ==
  /\ EncoderAt("markDone", "ended")
  /\ opusDone' = TRUE
  /\ UNCHANGED <<producerVars, buf, opus>>

Encode ==
  \/ EncoderInit \/ EncoderInitFails
  \/ EncoderPops \/ EncodeFrame \/ ChunkEncoded
  \/ EncoderDrained \/ Flush \/ EncoderMarksDone

-----------------------------------------------------------------------------
(* The stream thread, reduced to what touches the audio.                   *)

StreamAt(from, to) ==
  /\ stream \in from
  /\ stream' = to
  /\ UNCHANGED <<producerVars, encoderVars, alive, timerVars>>

\* Connect, Handshake and the resolution of the UDP address.
Connected ==
  /\ StreamAt({"connecting"}, "startup")
  /\ UNCHANGED <<opusVars, finished>>

\* One of them failed: cleanup marks the frames done under the encoder's hands.
ConnectFails ==
  /\ StreamAt({"connecting"}, "ended")
  /\ opusDone' = TRUE
  /\ UNCHANGED <<opus, finished>>

\* timeSetEvent succeeds or not.
Play(buffered) ==
  /\ buffered
  /\ \E next \in {"playing", "timerless"} : StreamAt({"startup"}, next)
  /\ UNCHANGED <<opusVars, finished>>

\* The start-up buffer: enough frames, or AudioQueue::IsDone, which also asks
\* that the queue be empty.
Buffered == Play(Len(opus) >= StartupFrames \/ (opusDone /\ opus = <<>>))

\* Five seconds have passed.
BufferDeadline == Play(TRUE)

\* TimerProc sends the next frame.
TimerSends ==
  /\ stream = "playing" /\ finished = "no"
  /\ opus # <<>>
  /\ sent' = Append(sent, Head(opus))
  /\ opus' = Tail(opus)
  /\ UNCHANGED <<producerVars, encoderVars, opusDone, streamVars, silences>>

\* TimerProc finds nothing but the producer still running.
TimerSendsSilence ==
  /\ stream = "playing" /\ finished = "no"
  /\ opus = <<>> /\ ~opusDone
  /\ silences < MaxSilences
  /\ silences' = silences + 1
  /\ UNCHANGED <<producerVars, encoderVars, opusVars, streamVars, sent>>

\* TimerProc finds the end.
TimerFinishes ==
  /\ stream = "playing" /\ finished = "no"
  /\ opus = <<>> /\ opusDone
  /\ finished' = "drained"
  /\ UNCHANGED <<producerVars, encoderVars, opusVars, stream, alive, timerVars>>

Tick == TimerSends \/ TimerSendsSilence \/ TimerFinishes

\* SessionManager::KillAll.
Kill ==
  /\ alive
  /\ alive' = FALSE
  /\ UNCHANGED <<producerVars, encoderVars, opusVars, stream, finished, timerVars>>

\* The loop of StreamFromQueue sees the end.
LoopFinished ==
  /\ finished # "no"
  /\ StreamAt({"playing"}, "stopped")
  /\ UNCHANGED <<opusVars, finished>>

\* The loop sees the kill first.
LoopKilled ==
  /\ finished = "no" /\ ~alive
  /\ StreamAt({"playing", "timerless"}, "stopped")
  /\ finished' = "killed"
  /\ UNCHANGED opusVars

\* cleanup, with the timer gone.
Cleanup ==
  /\ stream = "stopped"
  /\ stream' = "ended"
  /\ alive' = FALSE
  /\ opusDone' = TRUE
  /\ UNCHANGED <<producerVars, encoderVars, opus, finished, timerVars>>

Stream ==
  \/ Connected \/ ConnectFails
  \/ Buffered
  \/ LoopFinished \/ LoopKilled \/ Cleanup

Next ==
  \/ \E n \in ChunkSizes : Push(n)
  \/ MarkDone
  \/ Encode
  \/ Stream \/ BufferDeadline
  \/ Tick
  \/ Kill

Spec == Init /\ [][Next]_vars

\* The threads run on and the timer ticks.  The producer may go on for ever.
FairSpec == Spec /\ WF_vars(Encode) /\ WF_vars(Stream \/ BufferDeadline) /\ WF_vars(Tick)

-----------------------------------------------------------------------------

Played == FlattenSeq(sent)
SamplesPlayed == Cardinality({i \in DOMAIN Played : Played[i] # 0})

\* No sample is lost, doubled or out of order, wherever it is under way: what
\* was sent, what waits as frames, in the encoder and as chunks is, in this
\* order, what was produced, but for the silence that fills up the last frame
\* (opus_encoder.cpp:33-47); and all variables have their types.
SamplesConserved ==
  LET all == Played \o FlattenSeq(opus) \o buf \o FlattenSeq(pcm)
      n   == Len(all) - produced
  IN /\ TypeOK
     /\ n \in 0..(FrameSamples - 1)
     /\ all = [i \in 1..Len(all) |-> IF i <= produced THEN i ELSE 0]

\* Audio that is done is played out, or the transmission breaks off: it never
\* hangs waiting for frames that will not come (srs_client.cpp:378,116); only
\* without a timer it waits for a kill.
DoneEnds == pcmDone ~> stream \in {"ended", "timerless"}

\* The audio path keeps the promise of AudioStream.
Outcome ==
  IF finished = "drained" /\ encoder # "failed" THEN "complete"
  ELSE IF encoder = "failed" \/ stream \in {"stopped", "ended"} THEN "broken"
  ELSE "no"

Promise == INSTANCE AudioStream WITH
  Frame <- FrameSamples, made <- produced, closed <- pcmDone,
  played <- SamplesPlayed, over <- Outcome
KeepsPromise == Promise!StreamSpec

=============================================================================
