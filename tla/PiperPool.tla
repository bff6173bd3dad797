------------------------------ MODULE PiperPool -----------------------------
(***************************************************************************)
(* The pool of Piper synthesizers (providers/tts/piper/piper_model_pool)   *)
(* as SynthesizeViaNative uses it: every request is a thread that acquires *)
(* a synthesizer for its model, phonemizes, infers and releases it.        *)
(*                                                                         *)
(* poolMutex_ guards the idle instances and the count of active ones; the  *)
(* condition variable activeCv_ is notified outside it.  espeakMutex_      *)
(* guards the global state of espeak-ng, which is its current voice.       *)
(*                                                                         *)
(* An instance is an address: piper_create returns one that is not in use. *)
(* The idle instances of a model are interchangeable, so they are a set.   *)
(***************************************************************************)
EXTENDS Integers, FiniteSets

CONSTANTS
  Threads,         \* requests, one thread each
  Models,          \* model paths
  ModelOf,         \* the model of a request
  Synths,          \* addresses of piper_synthesizer
  NoSynth,         \* nullptr
  NoModel,         \* no voice set in espeak-ng
  MaxConcurrent,   \* piper.max_concurrent of the configuration
  MaxIdlePerModel  \* kMaxIdlePerModel

ASSUME PoolAssumption ==
  /\ IsFiniteSet(Threads)
  /\ ModelOf \in [Threads -> Models]
  /\ NoSynth \notin Synths
  /\ NoModel \notin Models
  /\ MaxConcurrent \in Int
  /\ MaxIdlePerModel \in Nat

VARIABLES
  maxActive,     \* 0 until the first Acquire
  activeCount,   \* slots taken
  idle,          \* pool_: the idle instances of a model
  pc,            \* what a thread does next
  handle,        \* the instance that a thread holds
  voice          \* the voice espeak-ng is set to

vars == <<maxActive, activeCount, idle, pc, handle, voice>>

\* A limit of zero or less means the default.
Limit == IF MaxConcurrent > 0 THEN MaxConcurrent ELSE 4

\* The steps during which a thread has a slot, and an instance.
SlotPC   == {"load", "giveBack", "ready", "phonemize", "infer", "release"}
HandlePC == {"ready", "phonemize", "infer", "release"}

ThreadPC == {"new", "asleep", "woken", "notify", "done"} \cup SlotPC

TypeOK ==
  /\ maxActive \in {0, Limit}
  /\ activeCount \in Int
  /\ idle \in [Models -> SUBSET Synths]
  /\ pc \in [Threads -> ThreadPC]
  /\ handle \in [Threads -> Synths \cup {NoSynth}]
  /\ voice \in Models \cup {NoModel}

Init ==
  /\ maxActive = 0
  /\ activeCount = 0
  /\ idle = [m \in Models |-> {}]
  /\ pc = [t \in Threads |-> "new"]
  /\ handle = [t \in Threads |-> NoSynth]
  /\ voice = NoModel

At(t, from, to) ==
  /\ pc[t] = from
  /\ pc' = [pc EXCEPT ![t] = to]

-----------------------------------------------------------------------------
(* Acquire.                                                                *)

\* Mutant: the instance is not taken out of the pool.
ReserveKeepsIdle(t) ==
  /\ activeCount' = activeCount + 1
  /\ IF idle[ModelOf[t]] # {}
     THEN \E x \in idle[ModelOf[t]] :
             /\ handle' = [handle EXCEPT ![t] = x]
             /\ pc' = [pc EXCEPT ![t] = "ready"]
             /\ idle' = idle
     ELSE /\ pc' = [pc EXCEPT ![t] = "load"]
          /\ UNCHANGED <<idle, handle>>

\* Mutant: idle instances are looked for once a new one could not be loaded.
ReserveLoadsFirst(t) ==
  /\ activeCount' = activeCount + 1
  /\ pc' = [pc EXCEPT ![t] = "load"]
  /\ UNCHANGED <<idle, handle>>

\* A slot is free: take it, and an idle instance if there is one.
Reserve(t) ==
  /\ activeCount' = activeCount + 1
  /\ IF idle[ModelOf[t]] # {}
     THEN \E x \in idle[ModelOf[t]] :
             /\ idle' = [idle EXCEPT ![ModelOf[t]] = @ \ {x}]
             /\ handle' = [handle EXCEPT ![t] = x]
             /\ pc' = [pc EXCEPT ![t] = "ready"]
     ELSE /\ pc' = [pc EXCEPT ![t] = "load"]
          /\ UNCHANGED <<idle, handle>>

\* Mutant: the limit is off by one.
EnterOneMore(t) ==
  /\ pc[t] \in {"new", "woken"}
  /\ maxActive' = Limit
  /\ \/ activeCount <= Limit /\ Reserve(t)
     \/ /\ activeCount > Limit
        /\ pc' = [pc EXCEPT ![t] = "asleep"]
        /\ UNCHANGED <<activeCount, idle, handle>>
  /\ voice' = voice

\* The critical section of Acquire: on entry, and again after each wake-up.
Enter(t) ==
  /\ pc[t] \in {"new", "woken"}
  /\ maxActive' = Limit
  /\ \/ activeCount < Limit /\ Reserve(t)
     \/ /\ activeCount >= Limit
        /\ pc' = [pc EXCEPT ![t] = "asleep"]
        /\ UNCHANGED <<activeCount, idle, handle>>
  /\ voice' = voice

\* A condition variable may wake up without a notification.
SpuriousWakeup(t) ==
  /\ At(t, "asleep", "woken")
  /\ UNCHANGED <<maxActive, activeCount, idle, handle, voice>>

EspeakFree == \A t \in Threads : pc[t] # "phonemize"

InUse == (UNION {idle[m] : m \in Models}) \cup {handle[t] : t \in Threads}

\* piper_create under espeakMutex_: it initialises espeak-ng.
Load(t) ==
  /\ EspeakFree
  /\ \/ /\ At(t, "load", "ready")
        /\ \E x \in Synths \ InUse : handle' = [handle EXCEPT ![t] = x]
     \/ /\ At(t, "load", "giveBack")
        /\ handle' = handle
  /\ voice' = NoModel
  /\ UNCHANGED <<maxActive, activeCount, idle>>

\* Mutant: the slot of a failed load is given back without a notification.
GiveBackSilently(t) ==
  /\ At(t, "giveBack", "done")
  /\ activeCount' = activeCount - 1
  /\ UNCHANGED <<maxActive, idle, handle, voice>>

\* Mutant: a failed load keeps its slot.
GiveBackNothing(t) ==
  /\ At(t, "giveBack", "notify")
  /\ UNCHANGED <<maxActive, activeCount, idle, handle, voice>>

\* The slot of a failed load is given back.
GiveBack(t) ==
  /\ At(t, "giveBack", "notify")
  /\ activeCount' = activeCount - 1
  /\ UNCHANGED <<maxActive, idle, handle, voice>>

-----------------------------------------------------------------------------
(* SynthesizeViaNative.                                                    *)

\* Mutant: StartSynthesize does not lock espeakMutex_.
StartUnlocked(t) ==
  /\ At(t, "ready", "phonemize")
  /\ voice' = ModelOf[t]
  /\ UNCHANGED <<maxActive, activeCount, idle, handle>>

\* StartSynthesize locks espeakMutex_; espeak-ng is set to the model's voice.
Start(t) ==
  /\ EspeakFree
  /\ At(t, "ready", "phonemize")
  /\ voice' = ModelOf[t]
  /\ UNCHANGED <<maxActive, activeCount, idle, handle>>

\* The text is phonemized, or piper_synthesize_start fails.
Phonemized(t) ==
  /\ At(t, "phonemize", "infer") \/ At(t, "phonemize", "release")
  /\ UNCHANGED <<maxActive, activeCount, idle, handle, voice>>

\* The loop over piper_synthesize_next ends, with or without an error.
Infer(t) ==
  /\ At(t, "infer", "release")
  /\ UNCHANGED <<maxActive, activeCount, idle, handle, voice>>

-----------------------------------------------------------------------------
(* Release, and Clear.                                                     *)

\* Mutant: the instance is pooled after the thread has forgotten it.
ReleaseForgets(t) ==
  /\ At(t, "release", "notify")
  /\ handle' = [handle EXCEPT ![t] = NoSynth]
  /\ idle' = [idle EXCEPT ![ModelOf[t]] = @ \cup {handle'[t]}]
  /\ activeCount' = activeCount - 1
  /\ UNCHANGED <<maxActive, voice>>

\* Keep the instance, or destroy it if the model has enough idle ones.
Release(t) ==
  /\ At(t, "release", "notify")
  /\ idle' = IF Cardinality(idle[ModelOf[t]]) < MaxIdlePerModel
             THEN [idle EXCEPT ![ModelOf[t]] = @ \cup {handle[t]}]
             ELSE idle
  /\ handle' = [handle EXCEPT ![t] = NoSynth]
  /\ activeCount' = activeCount - 1
  /\ UNCHANGED <<maxActive, voice>>

\* notify_one: one of the sleeping threads, if any, will look again.
Notify(t) ==
  /\ \/ \E u \in Threads :
           /\ pc[t] = "notify" /\ pc[u] = "asleep"
           /\ pc' = [pc EXCEPT ![t] = "done", ![u] = "woken"]
     \/ /\ \A u \in Threads : pc[u] # "asleep"
        /\ At(t, "notify", "done")
  /\ UNCHANGED <<maxActive, activeCount, idle, handle, voice>>

\* Clear destroys the idle instances.  Nothing in the program calls it yet.
Clear ==
  /\ \E m \in Models : idle[m] # {}
  /\ idle' = [m \in Models |-> {}]
  /\ UNCHANGED <<maxActive, activeCount, pc, handle, voice>>

Step(t) ==
  \/ Enter(t) \/ Load(t) \/ GiveBack(t)
  \/ Start(t) \/ Phonemized(t) \/ Infer(t)
  \/ Release(t) \/ Notify(t)

Next ==
  \/ \E t \in Threads : Step(t) \/ SpuriousWakeup(t)
  \/ Clear

Spec == Init /\ [][Next]_vars

\* Threads run on, piper_create and the inference return, and a mutex that is
\* released again and again is obtained.  Nobody counts on spurious wake-ups.
FairSpec == Spec /\ \A t \in Threads : SF_vars(Step(t))

-----------------------------------------------------------------------------

Holders  == {t \in Threads : pc[t] \in SlotPC}
Asleep   == {t \in Threads : pc[t] = "asleep"}
Stirring == {t \in Threads : pc[t] \in {"woken", "notify"}}

HoldersOf(m) == {t \in Holders : ModelOf[t] = m}

\* No slot is lost and none is taken twice: the counter is the number of
\* threads between the increment in Acquire and the decrement on whichever
\* path they leave, and it never exceeds the limit (piper_model_pool.cpp:33,58,79).
SlotsCounted ==
  /\ activeCount = Cardinality(Holders)
  /\ activeCount <= Limit

\* No wake-up is lost, although notify_one is called outside the mutex and
\* newcomers may overtake: while threads sleep, as many as there are free slots
\* are awake to look again, or about to wake one (piper_model_pool.cpp:32,60,82).
NoLostWakeup == Asleep # {} => activeCount + Cardinality(Stirring) >= Limit

\* A synthesizer is used by one thread at a time: it is held by one thread, or
\* idle under one model, never both, and a thread that synthesizes has one.
ExclusiveUse ==
  /\ \A t \in Threads : handle[t] # NoSynth <=> pc[t] \in HandlePC
  /\ \A t, u \in Threads : t # u /\ handle[t] = handle[u] => handle[t] = NoSynth
  /\ \A t \in Threads, m \in Models : handle[t] \notin idle[m]
  /\ \A m, n \in Models : m # n => idle[m] \cap idle[n] = {}

\* The instances of a model, loaded or being loaded, never exceed the limit on
\* active ones, however releases and loads interleave, so a model that is idle
\* occupies no more memory than one in full use (piper_model_pool.cpp:35-40).
LoadedBounded ==
  \A m \in Models : Cardinality(idle[m]) + Cardinality(HoldersOf(m)) <= Limit

\* While a thread phonemizes, espeak-ng speaks the voice of its model, whatever
\* other models are loaded or started meanwhile (piper_model_pool.cpp:48,88).
OwnVoice == \A t \in Threads : pc[t] = "phonemize" => voice = ModelOf[t]

\* The slots implement a semaphore.
Slots == INSTANCE Semaphore WITH Users <- Threads, holders <- Holders
KeepsLimit == Slots!SemaphoreSpec

\* Every request gets its turn and ends, whatever fails: nobody sleeps for ever.
EveryRequestEnds == \A t \in Threads : pc[t] = "asleep" ~> pc[t] = "done"

=============================================================================
