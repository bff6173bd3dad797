------------------------ MODULE SupertonicPoolProofs ------------------------
(***************************************************************************)
(* Proofs about SupertonicPool, for any finite set of requests, any styles *)
(* and any limit: nobody hears another's speech (by StyleInv, what the     *)
(* thread with styleMutex_ knows of the shared context), and the slots are *)
(* a semaphore (by CountInv, the counter is the number of threads with a   *)
(* slot).                                                                  *)
(***************************************************************************)
EXTENDS SupertonicPool, FiniteSetTheorems, TLAPS

\* At most one thread has styleMutex_.
StyleExclusive ==
  \A r, u \in Requests : pc[r] \in StylePC /\ pc[u] \in StylePC => r = u

\* What is true of the context: cachedStylePath_ is the path of its style, the
\* thread with styleMutex_ has chosen it, and the buffer holds that thread's
\* speech once it was synthesised.
ContextKnown ==
  /\ cached = ctxStyle
  /\ \A r \in Requests : pc[r] \in StylePC => ctxStyle = StyleOf[r]
  /\ \A r \in Requests : pc[r] = "copy" => resultBuf = OwnSpeech(r)

StyleInv == TypeOK /\ StyleExclusive /\ ContextKnown /\ OwnAudio

\* activeCount counts the threads with a slot, up to the limit.
CountInv ==
  /\ activeCount = Cardinality(Holders)
  /\ activeCount <= Limit

-----------------------------------------------------------------------------
(* The context.                                                            *)

LEMMA StyleInit == Init => StyleInv
<1> SUFFICES ASSUME Init PROVE StyleInv
  OBVIOUS
<1> USE DEF Init
<1>1. TypeOK
  <2>1. resultBuf \in Audio \cup {NoAudio} /\ audio \in [Requests -> Audio \cup {NoAudio}]
    OBVIOUS
  <2>2. pc \in [Requests -> ThreadPC]
    BY DEF ThreadPC
  <2>3. activeCount \in Int
    OBVIOUS
  <2> QED
    BY <2>1, <2>2, <2>3 DEF TypeOK
<1>2. StyleExclusive /\ ContextKnown /\ OwnAudio
  BY DEF StyleExclusive, ContextKnown, OwnAudio, StylePC
<1> QED
  BY <1>1, <1>2 DEF StyleInv

\* Every step keeps the types.
LEMMA TypeStep ==
  ASSUME TypeOK, [Next]_vars
  PROVE  TypeOK'
<1> USE DEF TypeOK, At, ThreadPC, SlotPC
<1>1. ASSUME NEW r \in Requests,
             LoadNative(r) \/ EnsureContext(r) \/ Finish(r) \/ SpuriousWakeup(r)
      PROVE  TypeOK'
  BY <1>1 DEF LoadNative, EnsureContext, Finish, SpuriousWakeup, contextVars
<1>2. ASSUME NEW r \in Requests, Enter(r) \/ Release(r)
      PROVE  TypeOK'
  BY <1>2, SupertonicAssumption DEF Enter, Release, contextVars, Limit
<1>3. ASSUME NEW r \in Requests, ChooseStyle(r)
      PROVE  TypeOK'
  BY <1>3, SupertonicAssumption DEF ChooseStyle, LoadStyle
<1>4. ASSUME NEW r \in Requests, Synthesize(r)
      PROVE  TypeOK'
  BY <1>4 DEF Synthesize, Audio
<1>5. ASSUME NEW r \in Requests, Copy(r)
      PROVE  TypeOK'
  BY <1>5 DEF Copy, contextVars
<1>6. ASSUME NEW r \in Requests, Notify(r)
      PROVE  TypeOK'
  BY <1>6 DEF Notify, contextVars
<1>7. CASE UNCHANGED vars
  BY <1>7 DEF vars, contextVars
<1> QED
  BY <1>1, <1>2, <1>3, <1>4, <1>5, <1>6, <1>7 DEF Next, Step

\* A step that leaves the context and the copies alone, and brings no thread
\* into the critical section of styleMutex_, keeps what is known.
LEMMA StyleKept ==
  ASSUME StyleInv, UNCHANGED <<contextVars, audio>>,
         \A r \in Requests : pc'[r] \in StylePC => pc'[r] = pc[r]
  PROVE  StyleExclusive' /\ ContextKnown' /\ OwnAudio'
<1>1. StyleExclusive'
  BY DEF StyleInv, StyleExclusive
<1>2. ContextKnown'
  BY DEF StyleInv, ContextKnown, contextVars, StylePC, OwnSpeech
<1>3. OwnAudio'
  BY DEF StyleInv, OwnAudio, OwnSpeech
<1> QED
  BY <1>1, <1>2, <1>3

\* Every step keeps what is known of the context.
LEMMA StyleStep ==
  ASSUME StyleInv, [Next]_vars
  PROVE  StyleExclusive' /\ ContextKnown' /\ OwnAudio'
<1> USE DEF At, TypeOK
<1>0. TypeOK
  BY DEF StyleInv
<1>1. ASSUME NEW r \in Requests,
             EnsureContext(r) \/ LoadNative(r)
      PROVE  StyleExclusive' /\ ContextKnown' /\ OwnAudio'
  <2>1. /\ UNCHANGED <<ctxStyle, cached, resultBuf, audio>>
        /\ \A u \in Requests : pc'[u] \in StylePC => pc'[u] = pc[u]
    BY <1>0, <1>1 DEF EnsureContext, LoadNative, StylePC
  <2> QED
    BY <2>1 DEF StyleInv, StyleExclusive, ContextKnown, OwnAudio, StylePC, OwnSpeech
<1>2. ASSUME NEW r \in Requests,
             \/ Enter(r) \/ Release(r) \/ Notify(r) \/ Finish(r) \/ SpuriousWakeup(r)
      PROVE  StyleExclusive' /\ ContextKnown' /\ OwnAudio'
  <2>1. /\ UNCHANGED <<contextVars, audio>>
        /\ \A u \in Requests : pc'[u] \in StylePC => pc'[u] = pc[u]
    BY <1>0, <1>2 DEF Enter, Release, Notify, Finish, SpuriousWakeup, StylePC, contextVars
  <2> QED
    BY <2>1, StyleKept
<1>3. ASSUME NEW r \in Requests, ChooseStyle(r)
      PROVE  StyleExclusive' /\ ContextKnown' /\ OwnAudio'
  <2>1. \A u \in Requests : pc[u] \notin StylePC
    BY <1>3 DEF ChooseStyle, StyleFree
  <2>2. /\ UNCHANGED <<resultBuf, audio>>
        /\ \A u \in Requests : u # r => pc'[u] = pc[u]
        /\ pc'[r] \in {"synthesize", "release"}
        /\ cached' = ctxStyle'
        /\ pc'[r] = "synthesize" => ctxStyle' = StyleOf[r]
    BY <1>0, <1>3 DEF ChooseStyle, LoadStyle, StyleInv, ContextKnown
  <2>3. StyleExclusive'
    BY <2>1, <2>2 DEF StyleExclusive
  <2>4. ContextKnown'
    BY <2>1, <2>2 DEF ContextKnown, StylePC
  <2> QED
    BY <2>2, <2>3, <2>4 DEF StyleInv, OwnAudio, OwnSpeech
<1>4. ASSUME NEW r \in Requests, Synthesize(r)
      PROVE  StyleExclusive' /\ ContextKnown' /\ OwnAudio'
  <2>1. \A u \in Requests : u # r => pc[u] \notin StylePC
    BY <1>4 DEF Synthesize, StyleInv, StyleExclusive, StylePC
  <2>2. /\ UNCHANGED <<ctxStyle, cached, audio>>
        /\ \A u \in Requests : u # r => pc'[u] = pc[u]
        /\ pc'[r] \in {"copy", "release"}
        /\ pc'[r] = "copy" => resultBuf' = OwnSpeech(r)
        /\ ctxStyle = StyleOf[r]
    BY <1>0, <1>4 DEF Synthesize, OwnSpeech, StyleInv, ContextKnown, StylePC
  <2>3. StyleExclusive'
    BY <2>1, <2>2 DEF StyleExclusive
  <2>4. ContextKnown'
    <3>1. \A u \in Requests : pc'[u] \in StylePC => u = r
      BY <2>1, <2>2
    <3>2. \A u \in Requests : pc'[u] = "copy" => pc'[u] \in StylePC
      BY DEF StylePC
    <3>3. OwnSpeech(r)' = OwnSpeech(r)
      BY DEF OwnSpeech
    <3>4. \A u \in Requests : pc'[u] = "copy" => resultBuf' = OwnSpeech(u)'
      BY <2>2, <3>1, <3>2, <3>3
    <3> QED
      BY <2>2, <3>1, <3>4 DEF ContextKnown, StyleInv
  <2> QED
    BY <2>2, <2>3, <2>4 DEF StyleInv, OwnAudio, OwnSpeech
<1>5. ASSUME NEW r \in Requests, Copy(r)
      PROVE  StyleExclusive' /\ ContextKnown' /\ OwnAudio'
  <2>1. resultBuf = OwnSpeech(r)
    BY <1>5 DEF Copy, StyleInv, ContextKnown
  <2>2. /\ UNCHANGED <<ctxStyle, cached, resultBuf>>
        /\ audio' = [audio EXCEPT ![r] = OwnSpeech(r)]
        /\ \A u \in Requests : pc'[u] \in StylePC => pc'[u] = pc[u]
    BY <1>0, <1>5, <2>1 DEF Copy, contextVars, StylePC
  <2>3. StyleExclusive' /\ ContextKnown'
    BY <2>2 DEF StyleInv, StyleExclusive, ContextKnown, StylePC, OwnSpeech
  <2>4. OwnAudio'
    BY <1>0, <2>2 DEF StyleInv, OwnAudio, OwnSpeech
  <2> QED
    BY <2>3, <2>4
<1>6. CASE UNCHANGED vars
  BY <1>6, StyleKept DEF vars
<1> QED
  BY <1>1, <1>2, <1>3, <1>4, <1>5, <1>6 DEF Next, Step

\* What is known of the context holds always.
THEOREM StyleHolds == Spec => []StyleInv
<1>1. StyleInv /\ [Next]_vars => StyleInv'
  BY TypeStep, StyleStep DEF StyleInv
<1> QED
  BY StyleInit, <1>1, PTL DEF Spec

\* Every variable keeps its type (supertonic_tts.cpp and supertonic_api.cpp).
THEOREM TypeCorrect == Spec => []TypeOK
<1>1. StyleInv => TypeOK
  BY DEF StyleInv
<1> QED
  BY StyleHolds, <1>1, PTL

\* A request hears its own text in its own style or nothing
\* (supertonic_tts.cpp:163-188).
THEOREM AudioIsOwn == Spec => []OwnAudio
<1>1. StyleInv => OwnAudio
  BY DEF StyleInv
<1> QED
  BY StyleHolds, <1>1, PTL

-----------------------------------------------------------------------------
(* The slots.                                                              *)

\* Who has a slot does not change, one thread takes a slot, or gives it back.
SlotsKept == Holders' = Holders /\ activeCount' = activeCount
SlotTaken(r) ==
  /\ r \notin Holders /\ Holders' = Holders \cup {r}
  /\ activeCount < Limit /\ activeCount' = activeCount + 1
SlotFreed(r) ==
  /\ r \in Holders /\ Holders' = Holders \ {r}
  /\ activeCount' = activeCount - 1

LEMMA SlotSteps ==
  ASSUME TypeOK, [Next]_vars
  PROVE  SlotsKept \/ \E r \in Requests : SlotTaken(r) \/ SlotFreed(r)
<1> USE DEF At, TypeOK
<1>1. ASSUME NEW r \in Requests, Enter(r)
      PROVE  SlotsKept \/ SlotTaken(r)
  <2>1. CASE activeCount < Limit
    BY <1>1, <2>1, SupertonicAssumption DEF Enter, SlotTaken, Holders, SlotPC, Limit
  <2>2. CASE activeCount >= Limit
    BY <1>1, <2>2, SupertonicAssumption DEF Enter, SlotsKept, Holders, SlotPC, Limit
  <2> QED
    BY <2>1, <2>2, SupertonicAssumption DEF Limit
<1>2. ASSUME NEW r \in Requests, Release(r)
      PROVE  SlotFreed(r)
  BY <1>2 DEF Release, SlotFreed, Holders, SlotPC
<1>3. ASSUME activeCount' = activeCount,
             \A r \in Requests : pc'[r] \in SlotPC <=> pc[r] \in SlotPC
      PROVE  SlotsKept
  BY <1>3 DEF SlotsKept, Holders
<1>4. ASSUME NEW r \in Requests,
             \/ LoadNative(r) \/ EnsureContext(r) \/ ChooseStyle(r) \/ Synthesize(r)
             \/ Copy(r) \/ Notify(r) \/ Finish(r) \/ SpuriousWakeup(r)
      PROVE  SlotsKept
  <2>1. /\ activeCount' = activeCount
        /\ \A u \in Requests : pc'[u] \in SlotPC <=> pc[u] \in SlotPC
    BY <1>4 DEF LoadNative, EnsureContext, ChooseStyle, LoadStyle, Synthesize, Copy, Notify,
                Finish, SpuriousWakeup, SlotPC
  <2> QED
    BY <1>3, <2>1
<1>5. CASE UNCHANGED vars
  BY <1>3, <1>5 DEF vars
<1> QED
  BY <1>1, <1>2, <1>4, <1>5 DEF Next, Step

LEMMA CountInit == Init => CountInv
<1> SUFFICES ASSUME Init PROVE CountInv
  OBVIOUS
<1>1. Holders = {}
  BY DEF Init, Holders, SlotPC
<1> QED
  BY <1>1, FS_EmptySet, SupertonicAssumption DEF Init, CountInv, Limit

\* The counter follows the set of threads with a slot.
LEMMA CountStep ==
  ASSUME TypeOK, CountInv, [Next]_vars
  PROVE  CountInv'
<1>1. Limit' = Limit /\ Limit \in Int
  BY SupertonicAssumption DEF Limit
<1>2. IsFiniteSet(Holders) /\ activeCount \in Int
  BY SupertonicAssumption, FS_Subset DEF Holders, TypeOK
<1>3. CASE SlotsKept
  BY <1>1, <1>3 DEF SlotsKept, CountInv
<1>4. ASSUME NEW r \in Requests, SlotTaken(r)
      PROVE  CountInv'
  <2>1. Cardinality(Holders \cup {r}) = Cardinality(Holders) + 1
    BY <1>2, <1>4, FS_AddElement DEF SlotTaken
  <2> QED
    BY <1>1, <1>2, <1>4, <2>1 DEF SlotTaken, CountInv
<1>5. ASSUME NEW r \in Requests, SlotFreed(r)
      PROVE  CountInv'
  <2>1. Cardinality(Holders \ {r}) = Cardinality(Holders) - 1
    BY <1>2, <1>5, FS_RemoveElement DEF SlotFreed
  <2> QED
    BY <1>1, <1>2, <1>5, <2>1 DEF SlotFreed, CountInv
<1> QED
  BY <1>3, <1>4, <1>5, SlotSteps

THEOREM CountsHold == Spec => []CountInv
<1>1. TypeOK /\ CountInv /\ [Next]_vars => CountInv'
  BY CountStep
<1> QED
  BY CountInit, TypeCorrect, <1>1, PTL DEF Spec

\* The slots implement a semaphore of Limit slots: a step takes one, frees one
\* or leaves them alone (supertonic_tts.cpp:191-204).
THEOREM SlotsAreSemaphore == Spec => KeepsLimit
<1>1. Init => Holders = {}
  BY DEF Init, Holders, SlotPC
<1>2. ASSUME TypeOK, CountInv, [Next]_vars
      PROVE  [\E t \in Requests : Slots!Take(t) \/ Slots!GiveBack(t)]_Holders
  <2>1. CASE SlotsKept
    BY <2>1 DEF SlotsKept
  <2>2. ASSUME NEW r \in Requests, SlotTaken(r)
        PROVE  Slots!Take(r)
    <3>1. Slots!Cardinality(Holders) = Cardinality(Holders)
      BY DEF Slots!Cardinality, Cardinality
    <3> QED
      BY <1>2, <2>2, <3>1 DEF CountInv, SlotTaken, Slots!Take
  <2>3. ASSUME NEW r \in Requests, SlotFreed(r)
        PROVE  Slots!GiveBack(r)
    BY <2>3 DEF SlotFreed, Slots!GiveBack
  <2> QED
    BY <1>2, <2>1, <2>2, <2>3, SlotSteps
<1>3. Spec => [][\E t \in Requests : Slots!Take(t) \/ Slots!GiveBack(t)]_Holders
  BY <1>2, TypeCorrect, CountsHold, PTL DEF Spec
<1>4. Spec => Holders = {}
  BY <1>1, PTL DEF Spec
<1> QED
  BY <1>3, <1>4, PTL DEF KeepsLimit, Slots!SemaphoreSpec

=============================================================================
