---------------------------- MODULE SupertonicPool --------------------------
(***************************************************************************)
(* Supertonic speech (providers/tts/supertonic/supertonic_tts.cpp) on the  *)
(* C library it loads (tools/supertonic_api.cpp): every request is a       *)
(* thread; all of them share one context, which holds one voice style and  *)
(* one result buffer.                                                      *)
(*                                                                         *)
(* slotMutex_ and slotCv_ limit how many requests are under way, ctxMutex_ *)
(* guards the creation of the context and styleMutex_ everything between   *)
(* choosing the style and copying the result.  Model path and threads come *)
(* from the configuration, which is read once, so a request never asks for *)
(* another context than the one there is.                                  *)
(***************************************************************************)
EXTENDS Integers, FiniteSets

CONSTANTS
  Requests,       \* requests, one thread each
  Styles,         \* paths of voice styles
  StyleOf,        \* the style of a request
  Readable,       \* the styles whose file can be loaded
  NoStyle,        \* no style
  NoAudio,        \* no audio
  MaxConcurrent   \* supertonic.max_concurrent of the configuration

ASSUME SupertonicAssumption ==
  /\ IsFiniteSet(Requests)
  /\ StyleOf \in [Requests -> Styles]
  /\ Readable \subseteq Styles
  /\ NoStyle \notin Styles
  /\ NoAudio \notin [of : Requests, style : Styles \cup {NoStyle}]
  /\ MaxConcurrent \in Int

VARIABLES
  available,     \* supertonic.dll is loaded
  created,       \* ctx_ is not null
  ctxStyle,      \* ctx->style
  hasStyle,      \* ctx->has_style
  cached,        \* cachedStylePath_
  resultBuf,     \* ctx->result_buf
  activeCount,   \* slots taken
  pc,            \* what a thread does next
  audio          \* what a thread has copied out, then pushed

contextVars == <<available, created, ctxStyle, hasStyle, cached, resultBuf>>
vars == <<contextVars, activeCount, pc, audio>>

Limit == IF MaxConcurrent > 1 THEN MaxConcurrent ELSE 1

\* Whose text an audio speaks, and in which style.
Audio == [of : Requests, style : Styles \cup {NoStyle}]
OwnSpeech(r) == [of |-> r, style |-> StyleOf[r]]

\* The steps during which a thread has a slot, and those with styleMutex_.
SlotPC  == {"style", "synthesize", "copy", "release"}
StylePC == {"synthesize", "copy"}

ThreadPC == {"new", "context", "enter", "asleep", "woken", "notify", "finish",
             "done"} \cup SlotPC

TypeOK ==
  /\ available \in BOOLEAN
  /\ created \in BOOLEAN
  /\ ctxStyle \in Styles \cup {NoStyle}
  /\ hasStyle \in BOOLEAN
  /\ cached \in Styles \cup {NoStyle}
  /\ resultBuf \in Audio \cup {NoAudio}
  /\ activeCount \in Int
  /\ pc \in [Requests -> ThreadPC]
  /\ audio \in [Requests -> Audio \cup {NoAudio}]

Init ==
  /\ available = FALSE
  /\ created = FALSE
  /\ ctxStyle = NoStyle
  /\ hasStyle = FALSE
  /\ cached = NoStyle
  /\ resultBuf = NoAudio
  /\ activeCount = 0
  /\ pc = [r \in Requests |-> "new"]
  /\ audio = [r \in Requests |-> NoAudio]

At(r, from, to) ==
  /\ pc[r] = from
  /\ pc' = [pc EXCEPT ![r] = to]

-----------------------------------------------------------------------------
(* The library, the context and the slots.                                 *)

\* SupertonicNative::Load: a library that could not be loaded is tried again.
LoadNative(r) ==
  /\ At(r, "new", "context")
  /\ available' \in {available, TRUE}
  /\ UNCHANGED <<created, ctxStyle, hasStyle, cached, resultBuf, activeCount, audio>>

\* Available, then EnsureContext; a failure of either ends the request.
EnsureContext(r) ==
  /\ \/ /\ available
        /\ At(r, "context", "enter")
        /\ created' = TRUE
     \/ /\ ~available \/ ~created
        /\ At(r, "context", "finish")
        /\ created' = created
  /\ UNCHANGED <<available, ctxStyle, hasStyle, cached, resultBuf, activeCount, audio>>

\* Mutant: the limit is off by one.
EnterOneMore(r) ==
  /\ pc[r] \in {"enter", "woken"}
  /\ \/ /\ activeCount <= Limit
        /\ pc' = [pc EXCEPT ![r] = "style"]
        /\ activeCount' = activeCount + 1
     \/ /\ activeCount > Limit
        /\ pc' = [pc EXCEPT ![r] = "asleep"]
        /\ activeCount' = activeCount
  /\ UNCHANGED <<contextVars, audio>>

\* The critical section of AcquireSlot: on entry, and after each wake-up.
Enter(r) ==
  /\ pc[r] \in {"enter", "woken"}
  /\ \/ /\ activeCount < Limit
        /\ pc' = [pc EXCEPT ![r] = "style"]
        /\ activeCount' = activeCount + 1
     \/ /\ activeCount >= Limit
        /\ pc' = [pc EXCEPT ![r] = "asleep"]
        /\ activeCount' = activeCount
  /\ UNCHANGED <<contextVars, audio>>

\* A condition variable may wake up without a notification.
SpuriousWakeup(r) ==
  /\ At(r, "asleep", "woken")
  /\ UNCHANGED <<contextVars, activeCount, audio>>

-----------------------------------------------------------------------------
(* SynthesizeCopy.                                                         *)

StyleFree == \A r \in Requests : pc[r] \notin StylePC

\* supertonic_load_style: a failure leaves the context without a style, and
\* SynthesizeCopy with the path of the style it had before.
LoadStyle(r) ==
  IF StyleOf[r] \in Readable
  THEN /\ At(r, "style", "synthesize")
       /\ ctxStyle' = StyleOf[r]
       /\ hasStyle' = TRUE
       /\ cached' = StyleOf[r]
  ELSE /\ At(r, "style", "release")
       /\ hasStyle' = FALSE
       /\ UNCHANGED <<ctxStyle, cached>>

\* Mutant: styleMutex_ is locked for sharing.
ChooseStyleShared(r) ==
  /\ \/ /\ StyleOf[r] = cached
        /\ At(r, "style", "synthesize")
        /\ UNCHANGED <<ctxStyle, hasStyle, cached>>
     \/ /\ StyleOf[r] # cached
        /\ LoadStyle(r)
  /\ UNCHANGED <<available, created, resultBuf, activeCount, audio>>

\* Lock styleMutex_; load the style unless it is the one loaded last.
ChooseStyle(r) ==
  /\ StyleFree
  /\ \/ /\ StyleOf[r] = cached
        /\ At(r, "style", "synthesize")
        /\ UNCHANGED <<ctxStyle, hasStyle, cached>>
     \/ /\ StyleOf[r] # cached
        /\ LoadStyle(r)
  /\ UNCHANGED <<available, created, resultBuf, activeCount, audio>>

\* supertonic_synthesize: refused without a style; otherwise it fills the
\* context's buffer, or fails, or finds nothing to say.
Synthesize(r) ==
  /\ \/ /\ hasStyle
        /\ At(r, "synthesize", "copy")
        /\ resultBuf' = [of |-> r, style |-> ctxStyle]
     \/ /\ At(r, "synthesize", "release")
        /\ resultBuf' = resultBuf
  /\ UNCHANGED <<available, created, ctxStyle, hasStyle, cached, activeCount, audio>>

\* Copy the result out of the context and unlock styleMutex_.
Copy(r) ==
  /\ At(r, "copy", "release")
  /\ audio' = [audio EXCEPT ![r] = resultBuf]
  /\ UNCHANGED <<contextVars, activeCount>>

-----------------------------------------------------------------------------
(* ReleaseSlot, and the end of the request.                                *)

Release(r) ==
  /\ At(r, "release", "notify")
  /\ activeCount' = activeCount - 1
  /\ UNCHANGED <<contextVars, audio>>

\* Mutant: only a request that has audio notifies.
NotifyOnSuccess(r) ==
  /\ \/ \E u \in Requests :
           /\ audio[r] # NoAudio
           /\ pc[r] = "notify" /\ pc[u] = "asleep"
           /\ pc' = [pc EXCEPT ![r] = "finish", ![u] = "woken"]
     \/ /\ audio[r] = NoAudio \/ \A u \in Requests : pc[u] # "asleep"
        /\ At(r, "notify", "finish")
  /\ UNCHANGED <<contextVars, activeCount, audio>>

\* notify_one, outside the mutex: one sleeping thread, if any, looks again.
Notify(r) ==
  /\ \/ \E u \in Requests :
           /\ pc[r] = "notify" /\ pc[u] = "asleep"
           /\ pc' = [pc EXCEPT ![r] = "finish", ![u] = "woken"]
     \/ /\ \A u \in Requests : pc[u] # "asleep"
        /\ At(r, "notify", "finish")
  /\ UNCHANGED <<contextVars, activeCount, audio>>

\* Push what was copied, if anything, and mark the queue done.
Finish(r) ==
  /\ At(r, "finish", "done")
  /\ UNCHANGED <<contextVars, activeCount, audio>>

Step(r) ==
  \/ LoadNative(r) \/ EnsureContext(r) \/ Enter(r)
  \/ ChooseStyle(r) \/ Synthesize(r) \/ Copy(r)
  \/ Release(r) \/ Notify(r) \/ Finish(r)

Next == \E r \in Requests : Step(r) \/ SpuriousWakeup(r)

Spec == Init /\ [][Next]_vars

\* Threads run on, the library's calls return, and a mutex that is released
\* again and again is obtained.  Nobody counts on spurious wake-ups.
FairSpec == Spec /\ \A r \in Requests : SF_vars(Step(r))

-----------------------------------------------------------------------------

\* A request that hears something hears its own text in its own style, although
\* the context has one style and one result buffer for all of them, styles fail
\* to load, and the style loaded last is remembered outside the context
\* (supertonic_tts.cpp:163-188, supertonic_api.cpp:109-121).
OwnAudio == \A r \in Requests : audio[r] \in {NoAudio, OwnSpeech(r)}

\* The slots implement a semaphore (supertonic_tts.cpp:191-204).
Holders == {r \in Requests : pc[r] \in SlotPC}

Slots == INSTANCE Semaphore WITH Users <- Requests, holders <- Holders
KeepsLimit == Slots!SemaphoreSpec

\* A request that waits for a slot gets one and ends, whatever fails.
EveryRequestEnds == \A r \in Requests : pc[r] = "asleep" ~> pc[r] = "done"

\* Doc claim (supertonic.h:76): synthesis is called on a context whose style
\* was loaded, so that a request for a style that was loaded is not refused.
StyleIsLoaded == \A r \in Requests : pc[r] = "synthesize" => hasStyle

=============================================================================
