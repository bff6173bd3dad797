--------------------------- MODULE PiperPoolProofs ---------------------------
(***************************************************************************)
(* Proofs about PiperPool, for any finite set of requests, any models and  *)
(* any limits.  The invariants build on each other:                        *)
(*   HandleInv  types, and that no instance is used twice;                 *)
(*   CountInv   the counter is the number of threads that have a slot,     *)
(*              from which the bound on loaded instances and the absence   *)
(*              of lost wake-ups follow, since each of them compares the   *)
(*              counter with the number of threads in some other state.    *)
(***************************************************************************)
EXTENDS PiperPool, FiniteSetTheorems, TLAPS

\* The idle instances of a model can be counted.
IdleFinite == \A m \in Models : IsFiniteSet(idle[m])

HandleInv == TypeOK /\ ExclusiveUse /\ IdleFinite
CountInv  == SlotsCounted /\ LoadedBounded /\ NoLostWakeup

-----------------------------------------------------------------------------
(* The limit, and counting sets of threads.                                *)

\* The limit is a positive number.
LEMMA LimitPositive == Limit \in Nat /\ Limit > 0
  BY PoolAssumption DEF Limit

\* A set of threads grows by one with a thread that is not in it, and shrinks
\* by one with a thread that is.
LEMMA CountThreads ==
  ASSUME NEW S \in SUBSET Threads, NEW t \in Threads
  PROVE  /\ Cardinality(S) \in Nat
         /\ Cardinality(S \cup {t}) =
              IF t \in S THEN Cardinality(S) ELSE Cardinality(S) + 1
         /\ Cardinality(S \ {t}) =
              IF t \in S THEN Cardinality(S) - 1 ELSE Cardinality(S)
<1>1. IsFiniteSet(S)
  BY PoolAssumption, FS_Subset
<1> QED
  BY <1>1, FS_CardinalityType, FS_AddElement, FS_RemoveElement

\* Fewer threads, smaller number.
LEMMA CountSubset ==
  ASSUME NEW S \in SUBSET Threads, NEW T \in SUBSET S
  PROVE  Cardinality(S) \in Nat /\ Cardinality(T) <= Cardinality(S)
<1>1. IsFiniteSet(S)
  BY PoolAssumption, FS_Subset
<1> QED
  BY <1>1, FS_Subset, FS_CardinalityType

\* What a thread that moves on does to the sets that are counted.
LEMMA ThreadMoves ==
  ASSUME TypeOK, NEW t \in Threads, NEW q \in ThreadPC,
         pc' = [pc EXCEPT ![t] = q]
  PROVE  /\ (pc[t] \in SlotPC <=> q \in SlotPC) => Holders' = Holders
         /\ q \in SlotPC => Holders' = Holders \cup {t}
         /\ q \notin SlotPC => Holders' = Holders \ {t}
         /\ (pc[t] = "asleep" <=> q = "asleep") => Asleep' = Asleep
         /\ (pc[t] \in {"woken", "notify"} <=> q \in {"woken", "notify"})
               => Stirring' = Stirring
         /\ q \in {"woken", "notify"} => Stirring' = Stirring \cup {t}
         /\ q \notin {"woken", "notify"} => Stirring' = Stirring \ {t}
<1>1. \A u \in Threads : pc'[u] = IF u = t THEN q ELSE pc[u]
  BY DEF TypeOK
<1>2. /\ (pc[t] \in SlotPC <=> q \in SlotPC) => Holders' = Holders
      /\ q \in SlotPC => Holders' = Holders \cup {t}
      /\ q \notin SlotPC => Holders' = Holders \ {t}
  BY <1>1 DEF Holders
<1>3. (pc[t] = "asleep" <=> q = "asleep") => Asleep' = Asleep
  BY <1>1 DEF Asleep
<1>4. /\ (pc[t] \in {"woken", "notify"} <=> q \in {"woken", "notify"})
            => Stirring' = Stirring
      /\ q \in {"woken", "notify"} => Stirring' = Stirring \cup {t}
      /\ q \notin {"woken", "notify"} => Stirring' = Stirring \ {t}
  BY <1>1 DEF Stirring
<1> QED
  BY <1>2, <1>3, <1>4

-----------------------------------------------------------------------------
(* The instances.                                                          *)

\* Every step keeps the types; Release puts back the instance that it holds.
LEMMA TypeStep ==
  ASSUME HandleInv, [Next]_vars
  PROVE  TypeOK'
<1> USE DEF HandleInv, TypeOK, At, ThreadPC, SlotPC
<1>1. ASSUME NEW t \in Threads, Enter(t)
      PROVE  TypeOK'
  <2>1. CASE Reserve(t)
    <3>1. ModelOf[t] \in Models
      BY PoolAssumption
    <3>2. CASE idle[ModelOf[t]] # {}
      BY <1>1, <2>1, <3>1, <3>2 DEF Enter, Reserve
    <3>3. CASE idle[ModelOf[t]] = {}
      BY <1>1, <2>1, <3>3 DEF Enter, Reserve
    <3> QED
      BY <3>2, <3>3
  <2>2. CASE ~Reserve(t)
    BY <1>1, <2>2 DEF Enter
  <2> QED
    BY <2>1, <2>2
<1>2. ASSUME NEW t \in Threads, Load(t)
      PROVE  TypeOK'
  BY <1>2 DEF Load
<1>3. ASSUME NEW t \in Threads, Start(t)
      PROVE  TypeOK'
  BY <1>3, PoolAssumption DEF Start
<1>4. ASSUME NEW t \in Threads, GiveBack(t) \/ Phonemized(t) \/ Infer(t)
      PROVE  TypeOK'
  BY <1>4 DEF GiveBack, Phonemized, Infer
<1>5. ASSUME NEW t \in Threads, Release(t)
      PROVE  TypeOK'
  <2>1. handle[t] \in Synths /\ ModelOf[t] \in Models
    BY <1>5, PoolAssumption DEF Release, ExclusiveUse, HandlePC
  <2> QED
    BY <1>5, <2>1 DEF Release
<1>6. ASSUME NEW t \in Threads, Notify(t) \/ SpuriousWakeup(t)
      PROVE  TypeOK'
  BY <1>6 DEF Notify, SpuriousWakeup
<1>7. CASE Clear
  BY <1>7 DEF Clear
<1>8. CASE UNCHANGED vars
  BY <1>8 DEF vars
<1> QED
  BY <1>1, <1>2, <1>3, <1>4, <1>5, <1>6, <1>7, <1>8 DEF Next, Step

\* Steps that touch neither the pool nor a handle, nor who must have one.
LEMMA SameHandles ==
  ASSUME ExclusiveUse, UNCHANGED <<idle, handle>>,
         \A t \in Threads : pc'[t] \in HandlePC <=> pc[t] \in HandlePC
  PROVE  ExclusiveUse'
BY DEF ExclusiveUse

\* No step makes two users of one instance: it is taken out of the pool when it
\* is handed out, and a thread forgets it when it is put back.
LEMMA ExclusiveStep ==
  ASSUME HandleInv, [Next]_vars
  PROVE  ExclusiveUse'
<1> USE DEF HandleInv, TypeOK, At, HandlePC
<1>1. ASSUME NEW t \in Threads, Enter(t)
      PROVE  ExclusiveUse'
  <2>0. ModelOf[t] \in Models
    BY PoolAssumption
  <2>1. CASE Reserve(t) /\ idle[ModelOf[t]] # {}
    <3>1. PICK x \in idle[ModelOf[t]] :
             /\ idle' = [idle EXCEPT ![ModelOf[t]] = @ \ {x}]
             /\ handle' = [handle EXCEPT ![t] = x]
             /\ pc' = [pc EXCEPT ![t] = "ready"]
      BY <2>1 DEF Reserve
    <3>2. x \in Synths /\ x # NoSynth
      BY <2>0, <3>1, PoolAssumption
    <3>3. \A u \in Threads : handle[u] # x
      BY <2>0, <3>1 DEF ExclusiveUse
    <3>4. \A m \in Models : idle'[m] = idle[m] \ {x}
      BY <2>0, <3>1 DEF ExclusiveUse
    <3> QED
      BY <3>1, <3>2, <3>3, <3>4 DEF ExclusiveUse
  <2>2. CASE ~(Reserve(t) /\ idle[ModelOf[t]] # {})
    <3>1. UNCHANGED <<idle, handle>> /\ pc[t] \notin HandlePC
          /\ (pc' = [pc EXCEPT ![t] = "load"] \/ pc' = [pc EXCEPT ![t] = "asleep"])
      BY <1>1, <2>2 DEF Enter, Reserve
    <3> QED
      BY <3>1, SameHandles
  <2> QED
    BY <2>1, <2>2
<1>2. ASSUME NEW t \in Threads, Load(t)
      PROVE  ExclusiveUse'
  <2>1. CASE At(t, "load", "ready")
    <3>1. PICK x \in Synths \ InUse : handle' = [handle EXCEPT ![t] = x]
      BY <1>2, <2>1 DEF Load
    <3>2. /\ x # NoSynth
          /\ \A u \in Threads : handle[u] # x
          /\ \A m \in Models : x \notin idle[m]
      BY <3>1, PoolAssumption DEF InUse
    <3>3. idle' = idle
      BY <1>2 DEF Load
    <3> QED
      BY <2>1, <3>1, <3>2, <3>3 DEF ExclusiveUse
  <2>2. CASE At(t, "load", "giveBack") /\ handle' = handle
    BY <1>2, <2>2, SameHandles DEF Load
  <2> QED
    BY <1>2, <2>1, <2>2 DEF Load
<1>3. ASSUME NEW t \in Threads,
             Start(t) \/ GiveBack(t) \/ Phonemized(t) \/ Infer(t)
      PROVE  ExclusiveUse'
  BY <1>3, SameHandles DEF Start, GiveBack, Phonemized, Infer
<1>4. ASSUME NEW t \in Threads, Release(t)
      PROVE  ExclusiveUse'
  <2>1. /\ ModelOf[t] \in Models
        /\ handle[t] # NoSynth
        /\ \A u \in Threads : u # t => handle[u] # handle[t]
        /\ \A m \in Models : handle[t] \notin idle[m]
    BY <1>4, PoolAssumption DEF Release, ExclusiveUse
  <2>2. /\ \A u \in Threads : handle'[u] = IF u = t THEN NoSynth ELSE handle[u]
        /\ \A u \in Threads : pc'[u] = IF u = t THEN "notify" ELSE pc[u]
    BY <1>4 DEF Release
  <2>3. \A m \in Models :
           \/ idle'[m] = idle[m]
           \/ m = ModelOf[t] /\ idle'[m] = idle[m] \cup {handle[t]}
    BY <1>4, <2>1 DEF Release
  <2>4. \A m \in Models : NoSynth \notin idle[m] /\ NoSynth \notin idle'[m]
    BY <2>1, <2>3, PoolAssumption
  <2>5. \A m, n \in Models : m # n => idle'[m] \cap idle'[n] = {}
    BY <2>1, <2>3 DEF ExclusiveUse
  <2>6. \A u \in Threads, m \in Models : handle'[u] \notin idle'[m]
    BY <2>1, <2>2, <2>3, <2>4 DEF ExclusiveUse
  <2> QED
    BY <2>1, <2>2, <2>5, <2>6 DEF ExclusiveUse
<1>5. ASSUME NEW t \in Threads, Notify(t) \/ SpuriousWakeup(t)
      PROVE  ExclusiveUse'
  BY <1>5, SameHandles DEF Notify, SpuriousWakeup
<1>6. CASE Clear
  BY <1>6 DEF Clear, ExclusiveUse
<1>7. CASE UNCHANGED vars
  BY <1>7, SameHandles DEF vars
<1> QED
  BY <1>1, <1>2, <1>3, <1>4, <1>5, <1>6, <1>7 DEF Next, Step

\* The sets of idle instances stay finite: they grow by one at a time.
LEMMA FiniteStep ==
  ASSUME HandleInv, [Next]_vars
  PROVE  IdleFinite'
<1> USE DEF HandleInv, IdleFinite, TypeOK
<1>1. ASSUME NEW t \in Threads, Enter(t)
      PROVE  IdleFinite'
  <2>1. ModelOf[t] \in Models
    BY PoolAssumption
  <2>2. \A m \in Models : idle'[m] \subseteq idle[m]
    BY <1>1, <2>1 DEF Enter, Reserve
  <2> QED
    BY <2>2, FS_Subset
<1>2. ASSUME NEW t \in Threads, Release(t)
      PROVE  IdleFinite'
  <2>1. ModelOf[t] \in Models
    BY PoolAssumption
  <2>2. \A m \in Models : idle'[m] = idle[m] \/ idle'[m] = idle[m] \cup {handle[t]}
    BY <1>2, <2>1 DEF Release
  <2>3. ASSUME NEW m \in Models
        PROVE  IsFiniteSet(idle'[m])
    <3>1. IsFiniteSet(idle[m]) /\ IsFiniteSet(idle[m] \cup {handle[t]})
      BY FS_AddElement
    <3> QED
      BY <2>2, <3>1
  <2> QED
    BY <2>3
<1>3. CASE Clear
  BY <1>3, FS_EmptySet DEF Clear
<1>4. CASE idle' = idle
  BY <1>4
<1> QED
  BY <1>1, <1>2, <1>3, <1>4
  DEF Next, Step, Load, GiveBack, Start, Phonemized, Infer, Notify,
      SpuriousWakeup, vars

\* What holds of the instances holds at first.
LEMMA HandleInit == Init => HandleInv
<1> SUFFICES ASSUME Init PROVE HandleInv
  OBVIOUS
<1> USE DEF Init
<1>1. TypeOK
  BY DEF TypeOK, ThreadPC
<1>2. ExclusiveUse
  BY DEF ExclusiveUse, HandlePC
<1>3. IdleFinite
  BY FS_EmptySet DEF IdleFinite
<1> QED
  BY <1>1, <1>2, <1>3 DEF HandleInv

\* The instances of the pool are accounted for, always.
THEOREM HandlesHold == Spec => []HandleInv
<1>1. HandleInv /\ [Next]_vars => HandleInv'
  BY TypeStep, ExclusiveStep, FiniteStep DEF HandleInv
<1> QED
  BY HandleInit, <1>1, PTL DEF Spec

\* Every variable keeps its type (piper_model_pool.cpp, the whole of it).
THEOREM TypeCorrect == Spec => []TypeOK
<1>1. HandleInv => TypeOK
  BY DEF HandleInv
<1> QED
  BY HandlesHold, <1>1, PTL

\* No two threads use one synthesizer, and none that is idle is in use.
THEOREM UseIsExclusive == Spec => []ExclusiveUse
<1>1. HandleInv => ExclusiveUse
  BY DEF HandleInv
<1> QED
  BY HandlesHold, <1>1, PTL

\* The voice of espeak-ng is not changed under a thread that phonemizes.
THEOREM VoiceIsOwn == Spec => []OwnVoice
<1>1. Init => OwnVoice
  BY DEF Init, OwnVoice
<1>2. ASSUME TypeOK, OwnVoice, [Next]_vars
      PROVE  OwnVoice'
  <2> USE DEF TypeOK, OwnVoice, At
  <2>1. ASSUME NEW t \in Threads, Start(t) \/ Load(t)
        PROVE  OwnVoice'
    BY <1>2, <2>1, PoolAssumption DEF Start, Load, EspeakFree
  <2>2. ASSUME voice' = voice,
               \A t \in Threads : pc'[t] = "phonemize" => pc[t] = "phonemize"
        PROVE  OwnVoice'
    BY <1>2, <2>2
  <2>3. ASSUME NEW t \in Threads,
               Enter(t) \/ GiveBack(t) \/ Phonemized(t) \/ Infer(t)
                 \/ Release(t) \/ Notify(t) \/ SpuriousWakeup(t)
        PROVE  OwnVoice'
    BY <1>2, <2>2, <2>3 DEF Enter, Reserve, GiveBack, Phonemized, Infer, Release,
                      Notify, SpuriousWakeup
  <2>4. CASE Clear \/ UNCHANGED vars
    BY <2>2, <2>4 DEF Clear, vars
  <2> QED
    BY <1>2, <2>1, <2>3, <2>4 DEF Next, Step
<1> QED
  BY TypeCorrect, <1>1, <1>2, PTL DEF Spec

-----------------------------------------------------------------------------
(* The slots.  As far as counting goes there are three kinds of steps.     *)

\* A thread takes a slot, and an idle instance if its model has one.
SlotTaken(t) ==
  /\ t \notin Holders /\ activeCount < Limit
  /\ activeCount' = activeCount + 1
  /\ Holders' = Holders \cup {t}
  /\ Asleep' = Asleep /\ Stirring' = Stirring \ {t}
  /\ \A m \in Models :
       IF m = ModelOf[t] /\ idle[m] # {}
       THEN \E x \in idle[m] : idle'[m] = idle[m] \ {x}
       ELSE idle'[m] = idle[m]

\* A thread frees its slot, and may leave its instance to the pool.
SlotFreed(t) ==
  /\ t \in Holders /\ t \notin Stirring
  /\ activeCount' = activeCount - 1
  /\ Holders' = Holders \ {t}
  /\ Asleep' = Asleep /\ Stirring' = Stirring \cup {t}
  /\ \A m \in Models :
       \/ idle'[m] = idle[m]
       \/ m = ModelOf[t] /\ \E x \in Synths : idle'[m] = idle[m] \cup {x}

\* No slot changes hands.  If threads sleep, then either because the slots are
\* taken, or no fewer are about to look or to wake one than before.
SlotsKept ==
  /\ activeCount' = activeCount
  /\ Holders' = Holders
  /\ \A m \in Models : idle'[m] \subseteq idle[m]
  /\ \/ Asleep' = {}
     \/ activeCount >= Limit
     \/ Asleep # {} /\ Cardinality(Stirring') >= Cardinality(Stirring)

\* Steps that no set of threads depends on keep the slots.
LEMMA KeptByDefault ==
  ASSUME activeCount' = activeCount, Holders' = Holders, Asleep' = Asleep,
         Stirring' = Stirring, \A m \in Models : idle'[m] \subseteq idle[m]
  PROVE  SlotsKept
<1>1. Cardinality(Stirring) \in Nat
  BY CountSubset DEF Stirring
<1> QED
  BY <1>1 DEF SlotsKept

\* Every step is of one of these kinds.
LEMMA SlotSteps ==
  ASSUME HandleInv, [Next]_vars
  PROVE  SlotsKept \/ \E t \in Threads : SlotTaken(t) \/ SlotFreed(t)
<1> USE DEF HandleInv, ThreadPC, SlotPC, At
<1>0. activeCount \in Int /\ Limit \in Nat
  BY LimitPositive DEF TypeOK
<1>1. ASSUME NEW t \in Threads, Enter(t)
      PROVE  SlotsKept \/ SlotTaken(t)
  <2>1. /\ ModelOf[t] \in Models
        /\ pc[t] \in {"new", "woken"} /\ t \notin Holders
    BY <1>1, PoolAssumption DEF Enter, Holders
  <2>2. CASE activeCount < Limit /\ Reserve(t)
    <3>1. PICK q \in {"ready", "load"} : pc' = [pc EXCEPT ![t] = q]
      BY <2>2 DEF Reserve
    <3>2. /\ Holders' = Holders \cup {t}
          /\ Asleep' = Asleep /\ Stirring' = Stirring \ {t}
      BY <2>1, <3>1, ThreadMoves
    <3>3. \A m \in Models :
             IF m = ModelOf[t] /\ idle[m] # {}
             THEN \E x \in idle[m] : idle'[m] = idle[m] \ {x}
             ELSE idle'[m] = idle[m]
      BY <2>1, <2>2 DEF Reserve, TypeOK
    <3> QED
      BY <2>1, <2>2, <3>2, <3>3 DEF SlotTaken, Reserve
  <2>3. CASE /\ activeCount >= Limit
             /\ pc' = [pc EXCEPT ![t] = "asleep"]
             /\ UNCHANGED <<activeCount, idle, handle>>
    <3>1. Holders' = Holders
      BY <2>1, <2>3, ThreadMoves
    <3> QED
      BY <2>3, <3>1 DEF SlotsKept
  <2> QED
    BY <1>1, <2>2, <2>3 DEF Enter
<1>2. ASSUME NEW t \in Threads, Load(t) \/ Start(t) \/ Phonemized(t) \/ Infer(t)
      PROVE  SlotsKept
  <2>1. PICK q \in SlotPC : pc[t] \in SlotPC /\ pc' = [pc EXCEPT ![t] = q]
    BY <1>2 DEF Load, Start, Phonemized, Infer
  <2>3. Holders' = Holders /\ Asleep' = Asleep /\ Stirring' = Stirring
    BY <2>1, ThreadMoves
  <2>4. UNCHANGED <<activeCount, idle>>
    BY <1>2 DEF Load, Start, Phonemized, Infer
  <2> QED
    BY <2>3, <2>4, KeptByDefault
<1>3. ASSUME NEW t \in Threads, GiveBack(t) \/ Release(t)
      PROVE  SlotFreed(t)
  <2>1. /\ pc[t] \in {"giveBack", "release"}
        /\ t \in Holders /\ t \notin Stirring
        /\ pc' = [pc EXCEPT ![t] = "notify"]
        /\ activeCount' = activeCount - 1
    BY <1>3 DEF GiveBack, Release, Holders, Stirring
  <2>2. Holders' = Holders \ {t} /\ Asleep' = Asleep /\ Stirring' = Stirring \cup {t}
    BY <2>1, ThreadMoves
  <2>3. \A m \in Models :
           \/ idle'[m] = idle[m]
           \/ m = ModelOf[t] /\ \E x \in Synths : idle'[m] = idle[m] \cup {x}
    <3>1. CASE GiveBack(t)
      BY <3>1 DEF GiveBack
    <3>2. CASE Release(t)
      <4>1. handle[t] \in Synths /\ ModelOf[t] \in Models
        BY <3>2, PoolAssumption DEF Release, ExclusiveUse, HandlePC, TypeOK
      <4> QED
        BY <3>2, <4>1 DEF Release, TypeOK
    <3> QED
      BY <1>3, <3>1, <3>2
  <2> QED
    BY <2>1, <2>2, <2>3 DEF SlotFreed
<1>4. ASSUME NEW t \in Threads, SpuriousWakeup(t)
      PROVE  SlotsKept
  <2>1. t \in Asleep /\ t \notin Stirring
    BY <1>4 DEF SpuriousWakeup, Asleep, Stirring
  <2>2. Holders' = Holders /\ Stirring' = Stirring \cup {t}
    BY <1>4, <2>1, ThreadMoves DEF SpuriousWakeup
  <2>3. Cardinality(Stirring') >= Cardinality(Stirring)
    BY <2>1, <2>2, CountThreads DEF Stirring
  <2> QED
    BY <1>4, <2>1, <2>2, <2>3 DEF SpuriousWakeup, SlotsKept
<1>5. ASSUME NEW t \in Threads, Notify(t)
      PROVE  SlotsKept
  <2>1. CASE /\ \A u \in Threads : pc[u] # "asleep"
             /\ At(t, "notify", "done")
    <3>1. \A u \in Threads : pc'[u] = IF u = t THEN "done" ELSE pc[u]
      BY <2>1 DEF TypeOK
    <3>2. Asleep' = {}
      BY <2>1, <3>1 DEF Asleep
    <3>3. Holders' = Holders
      BY <2>1, <3>1 DEF Holders
    <3> QED
      BY <1>5, <3>2, <3>3 DEF Notify, SlotsKept
  <2>2. ASSUME NEW u \in Threads, pc[t] = "notify", pc[u] = "asleep",
               pc' = [pc EXCEPT ![t] = "done", ![u] = "woken"]
        PROVE  SlotsKept
    <3>1. /\ u # t /\ pc'[u] = "woken" /\ pc'[t] = "done"
          /\ \A v \in Threads : v # u /\ v # t => pc'[v] = pc[v]
      BY <2>2 DEF TypeOK
    <3>a. Holders' = Holders
      BY <2>2, <3>1 DEF Holders
    <3>2. Stirring' = (Stirring \ {t}) \cup {u}
      BY <2>2, <3>1 DEF Stirring
    <3>3. /\ Stirring \in SUBSET Threads /\ t \in Stirring
          /\ u \notin Stirring /\ u \in Asleep
      BY <2>2 DEF Stirring, Asleep
    <3>4. Cardinality(Stirring \ {t}) = Cardinality(Stirring) - 1
          /\ Cardinality(Stirring) \in Nat
      BY <3>3, CountThreads
    <3>5. Cardinality((Stirring \ {t}) \cup {u}) = Cardinality(Stirring \ {t}) + 1
      BY <3>3, CountThreads
    <3>6. Cardinality(Stirring') >= Cardinality(Stirring)
      BY <3>2, <3>4, <3>5
    <3> QED
      BY <1>5, <3>a, <3>3, <3>6 DEF Notify, SlotsKept
  <2> QED
    BY <1>5, <2>1, <2>2 DEF Notify
<1>6. CASE Clear
  BY <1>6, KeptByDefault DEF Clear, Holders, Asleep, Stirring
<1>7. CASE UNCHANGED vars
  BY <1>7, KeptByDefault DEF vars, Holders, Asleep, Stirring
<1> QED
  BY <1>1, <1>2, <1>3, <1>4, <1>5, <1>6, <1>7 DEF Next, Step

-----------------------------------------------------------------------------
(* What follows for the counter, the instances and the wake-ups.           *)

\* At first nobody has a slot and nobody sleeps.
LEMMA CountInit == Init => CountInv
<1> SUFFICES ASSUME Init PROVE CountInv
  OBVIOUS
<1>1. Holders = {} /\ Asleep = {} /\ activeCount = 0
  BY DEF Init, Holders, Asleep, SlotPC
<1>2. \A m \in Models : idle[m] = {} /\ HoldersOf(m) = {}
  BY <1>1 DEF Init, HoldersOf
<1> QED
  BY <1>1, <1>2, LimitPositive, FS_EmptySet
  DEF CountInv, SlotsCounted, LoadedBounded, NoLostWakeup

\* The counter stays the number of holders.
LEMMA CountStep ==
  ASSUME HandleInv, SlotsCounted, [Next]_vars
  PROVE  SlotsCounted'
<1> USE DEF SlotsCounted
<1>0. activeCount \in Int /\ Limit \in Nat /\ Holders \in SUBSET Threads
  BY LimitPositive DEF HandleInv, TypeOK, Holders
<1>1. CASE SlotsKept
  BY <1>1 DEF SlotsKept
<1>2. ASSUME NEW t \in Threads, SlotTaken(t)
      PROVE  SlotsCounted'
  <2>1. Cardinality(Holders \cup {t}) = Cardinality(Holders) + 1
    BY <1>0, <1>2, CountThreads DEF SlotTaken
  <2> QED
    BY <1>0, <1>2, <2>1 DEF SlotTaken
<1>3. ASSUME NEW t \in Threads, SlotFreed(t)
      PROVE  SlotsCounted'
  <2>1. Cardinality(Holders \ {t}) = Cardinality(Holders) - 1
    BY <1>0, <1>3, CountThreads DEF SlotFreed
  <2> QED
    BY <1>0, <1>3, <2>1 DEF SlotFreed
<1> QED
  BY <1>1, <1>2, <1>3, SlotSteps

\* A model has no more instances than slots: a thread loads a new one only if
\* none is idle, and then the others of its model hold fewer slots than there
\* are.
LEMMA LoadedStep ==
  ASSUME HandleInv, SlotsCounted, LoadedBounded, [Next]_vars
  PROVE  LoadedBounded'
<1> SUFFICES ASSUME NEW m \in Models
             PROVE  Cardinality(idle'[m]) + Cardinality(HoldersOf(m)') <= Limit
  BY DEF LoadedBounded, Limit
<1>1. /\ Limit \in Nat /\ activeCount \in Int
      /\ Holders \in SUBSET Threads
      /\ HoldersOf(m) \in SUBSET Threads
      /\ HoldersOf(m) \in SUBSET Holders
  BY LimitPositive DEF HandleInv, TypeOK, Holders, HoldersOf
<1>2. /\ IsFiniteSet(idle[m])
      /\ Cardinality(idle[m]) \in Nat
      /\ Cardinality(HoldersOf(m)) \in Nat
      /\ Cardinality(idle[m]) + Cardinality(HoldersOf(m)) <= Limit
      /\ Cardinality(HoldersOf(m)) <= activeCount
  BY <1>1, CountSubset, FS_CardinalityType
  DEF HandleInv, IdleFinite, LoadedBounded, SlotsCounted
<1>3. CASE SlotsKept
  <2>1. idle'[m] \subseteq idle[m] /\ HoldersOf(m)' = HoldersOf(m)
    BY <1>3 DEF SlotsKept, HoldersOf
  <2>2. Cardinality(idle'[m]) \in Nat /\ Cardinality(idle'[m]) <= Cardinality(idle[m])
    BY <1>2, <2>1, FS_Subset, FS_CardinalityType
  <2> QED
    BY <1>1, <1>2, <2>1, <2>2
<1>4. ASSUME NEW t \in Threads, SlotTaken(t)
      PROVE  Cardinality(idle'[m]) + Cardinality(HoldersOf(m)') <= Limit
  <2>1. CASE m # ModelOf[t]
    <3>1. idle'[m] = idle[m] /\ HoldersOf(m)' = HoldersOf(m)
      BY <1>4, <2>1 DEF SlotTaken, HoldersOf
    <3> QED
      BY <1>2, <3>1
  <2>2. CASE m = ModelOf[t]
    <3>1. HoldersOf(m)' = HoldersOf(m) \cup {t} /\ t \notin HoldersOf(m)
      BY <1>4, <2>2 DEF SlotTaken, HoldersOf
    <3>2. Cardinality(HoldersOf(m)') = Cardinality(HoldersOf(m)) + 1
      BY <1>1, <3>1, CountThreads
    <3>3. CASE idle[m] = {}
      <4>1. idle'[m] = {} /\ activeCount < Limit
        BY <1>4, <3>3 DEF SlotTaken
      <4>2. Cardinality(idle'[m]) = 0
        BY <4>1, FS_EmptySet
      <4> QED
        BY <1>1, <1>2, <3>2, <4>1, <4>2
    <3>4. CASE idle[m] # {}
      <4>1. PICK x \in idle[m] : idle'[m] = idle[m] \ {x}
        BY <1>4, <2>2, <3>4 DEF SlotTaken
      <4>2. Cardinality(idle'[m]) = Cardinality(idle[m]) - 1
        BY <1>2, <4>1, FS_RemoveElement
      <4> QED
        BY <1>1, <1>2, <3>2, <4>2
    <3> QED
      BY <3>3, <3>4
  <2> QED
    BY <2>1, <2>2
<1>5. ASSUME NEW t \in Threads, SlotFreed(t)
      PROVE  Cardinality(idle'[m]) + Cardinality(HoldersOf(m)') <= Limit
  <2>1. CASE m # ModelOf[t]
    <3>1. idle'[m] = idle[m] /\ HoldersOf(m)' = HoldersOf(m)
      BY <1>5, <2>1 DEF SlotFreed, HoldersOf
    <3> QED
      BY <1>2, <3>1
  <2>2. CASE m = ModelOf[t]
    <3>1. HoldersOf(m)' = HoldersOf(m) \ {t} /\ t \in HoldersOf(m)
      BY <1>5, <2>2 DEF SlotFreed, HoldersOf
    <3>2. Cardinality(HoldersOf(m)') = Cardinality(HoldersOf(m)) - 1
      BY <1>1, <3>1, CountThreads
    <3>3. /\ Cardinality(idle'[m]) \in Nat
          /\ Cardinality(idle'[m]) <= Cardinality(idle[m]) + 1
      <4>1. CASE idle'[m] = idle[m]
        BY <1>2, <4>1
      <4>2. ASSUME NEW x \in Synths, idle'[m] = idle[m] \cup {x}
            PROVE  /\ Cardinality(idle'[m]) \in Nat
                   /\ Cardinality(idle'[m]) <= Cardinality(idle[m]) + 1
        <5>1. /\ IsFiniteSet(idle[m] \cup {x})
              /\ Cardinality(idle[m] \cup {x}) =
                   IF x \in idle[m] THEN Cardinality(idle[m])
                                    ELSE Cardinality(idle[m]) + 1
          BY <1>2, FS_AddElement
        <5> QED
          BY <1>2, <4>2, <5>1
      <4> QED
        BY <1>5, <4>1, <4>2 DEF SlotFreed
    <3> QED
      BY <1>1, <1>2, <3>2, <3>3
  <2> QED
    BY <2>1, <2>2
<1> QED
  BY <1>3, <1>4, <1>5, SlotSteps

\* Whoever frees a slot is about to wake a sleeper, whoever takes one leaves at
\* most one behind, and nobody falls asleep while a slot is free.
LEMMA WakeupStep ==
  ASSUME HandleInv, NoLostWakeup, [Next]_vars
  PROVE  NoLostWakeup'
<1>1. /\ Limit \in Nat /\ activeCount \in Int /\ Limit' = Limit
      /\ Stirring \in SUBSET Threads /\ Stirring' \in SUBSET Threads
  BY LimitPositive DEF HandleInv, TypeOK, Stirring, Limit
<1>2. Cardinality(Stirring) \in Nat /\ Cardinality(Stirring') \in Nat
  BY <1>1, CountSubset
<1>3. CASE SlotsKept
  BY <1>1, <1>2, <1>3 DEF SlotsKept, NoLostWakeup
<1>4. ASSUME NEW t \in Threads, SlotTaken(t)
      PROVE  NoLostWakeup'
  <2>1. Cardinality(Stirring') >= Cardinality(Stirring) - 1
    BY <1>1, <1>2, <1>4, CountThreads DEF SlotTaken
  <2> QED
    BY <1>1, <1>2, <1>4, <2>1 DEF SlotTaken, NoLostWakeup
<1>5. ASSUME NEW t \in Threads, SlotFreed(t)
      PROVE  NoLostWakeup'
  <2>1. Cardinality(Stirring') = Cardinality(Stirring) + 1
    BY <1>1, <1>5, CountThreads DEF SlotFreed
  <2> QED
    BY <1>1, <1>2, <1>5, <2>1 DEF SlotFreed, NoLostWakeup
<1> QED
  BY <1>3, <1>4, <1>5, SlotSteps

\* The counting invariants hold together, on top of the instances.
THEOREM CountsHold == Spec => []CountInv
<1>1. HandleInv /\ CountInv /\ [Next]_vars => CountInv'
  BY CountStep, LoadedStep, WakeupStep DEF CountInv
<1> QED
  BY CountInit, HandlesHold, <1>1, PTL DEF Spec

\* The counter of slots is exact and never above the limit
\* (piper_model_pool.cpp:33,58,79).
THEOREM SlotsAreCounted == Spec => []SlotsCounted
<1>1. CountInv => SlotsCounted
  BY DEF CountInv
<1> QED
  BY CountsHold, <1>1, PTL

\* A model never has more instances than there are slots
\* (piper_model_pool.cpp:35-40).
THEOREM LoadedIsBounded == Spec => []LoadedBounded
<1>1. CountInv => LoadedBounded
  BY DEF CountInv
<1> QED
  BY CountsHold, <1>1, PTL

\* No wake-up is lost between the mutex and the notification
\* (piper_model_pool.cpp:32,60,82).
THEOREM NoWakeupIsLost == Spec => []NoLostWakeup
<1>1. CountInv => NoLostWakeup
  BY DEF CountInv
<1> QED
  BY CountsHold, <1>1, PTL

\* The pool implements a semaphore of Limit slots: a step takes a slot, frees
\* one or does not change who has one (Acquire and Release).
THEOREM PoolIsSemaphore == Spec => KeepsLimit
<1>1. Init => Holders = {}
  BY DEF Init, Holders, SlotPC
<1>2. ASSUME HandleInv, CountInv, [Next]_vars
      PROVE  [\E t \in Threads : Slots!Take(t) \/ Slots!GiveBack(t)]_Holders
  <2>1. CASE SlotsKept
    BY <2>1 DEF SlotsKept
  <2>2. ASSUME NEW t \in Threads, SlotTaken(t)
        PROVE  Slots!Take(t)
    <3>1. Slots!Cardinality(Holders) = Cardinality(Holders)
      BY DEF Slots!Cardinality, Cardinality
    <3> QED
      BY <1>2, <2>2, <3>1 DEF CountInv, SlotsCounted, SlotTaken, Slots!Take
  <2>3. ASSUME NEW t \in Threads, SlotFreed(t)
        PROVE  Slots!GiveBack(t)
    BY <2>3 DEF SlotFreed, Slots!GiveBack
  <2> QED
    BY <1>2, <2>1, <2>2, <2>3, SlotSteps
<1> QED
  BY <1>1, <1>2, HandlesHold, CountsHold, PTL
  DEF Spec, KeepsLimit, Slots!SemaphoreSpec

=============================================================================
