--------------------------- MODULE TranslateSlots ---------------------------
(***************************************************************************)
(* HoundTTS.Translate (HoundTTS-mission.lua) on the DLL's translateAsync   *)
(* and getTranslationResult (lua_translate.cpp).  A request has a slot in  *)
(* s_trResults, a thread that fills it and, in the Lua state of its        *)
(* mission, a timer function that polls it every half second.              *)
(*                                                                         *)
(* The thread writes the slot without a lock while the Lua thread reads    *)
(* it: a data race on done, a plain bool.  StoresInOrder says that the     *)
(* build keeps the order of the stores; x86-64 then does.                  *)
(***************************************************************************)
EXTENDS Mission, Sequences

CONSTANTS
  Messages,       \* calls of HoundTTS.Translate
  StoresInOrder   \* the compiler keeps the thread's stores in program order

ASSUME TranslateAssumption == StoresInOrder \in BOOLEAN

VARIABLES
  asked,     \* the mission in which a message's thread was started, or 0
  outcome,   \* what the provider returned to a thread
  written,   \* the fields of a slot that the thread has stored
  stored,    \* s_trResults: the messages that have a slot
  polls,     \* the scheduled poll functions of this mission
  answers    \* the calls of a message's callback

translateVars == <<asked, outcome, written, stored, polls, answers>>

Outcomes == {"translated", "failed"}
Fields == {"error", "text", "done"}

TranslateTypeOK ==
  /\ asked \in [Messages -> 0 .. MaxMissions]
  /\ outcome \in [Messages -> Outcomes \cup {"none"}]
  /\ written \in [Messages -> SUBSET Fields]
  /\ stored \subseteq Messages
  /\ polls \subseteq Messages
  /\ answers \in [Messages -> Seq(Outcomes \cup {"empty", "refused", "unknown"})]

TranslateInit ==
  /\ asked = [m \in Messages |-> 0]
  /\ outcome = [m \in Messages |-> "none"]
  /\ written = [m \in Messages |-> {}]
  /\ stored = {}
  /\ polls = {}
  /\ answers = [m \in Messages |-> <<>>]

Fresh(m) == loads > 0 /\ asked[m] = 0 /\ answers[m] = <<>>

\* The mission script calls HoundTTS.Translate with a known provider.
TranslateAsync(m) ==
  /\ Fresh(m)
  /\ asked' = [asked EXCEPT ![m] = mission]
  /\ stored' = stored \cup {m}
  /\ polls' = polls \cup {m}
  /\ UNCHANGED <<outcome, written, answers>>

\* Mutant: an unknown provider leaves the slot behind.
RefuseKeepsSlot(m) ==
  /\ Fresh(m)
  /\ stored' = stored \cup {m}
  /\ answers' = [answers EXCEPT ![m] = Append(@, "refused")]
  /\ UNCHANGED <<asked, outcome, written, polls>>

\* The provider is unknown: the slot is erased again, no thread is started and
\* the callback is called at once.
Refuse(m) ==
  /\ Fresh(m)
  /\ answers' = [answers EXCEPT ![m] = Append(@, "refused")]
  /\ UNCHANGED <<asked, outcome, written, stored, polls>>

\* The provider's Translate returns a text, or nothing.
Fetch(m) ==
  /\ asked[m] > 0
  /\ outcome[m] = "none"
  /\ \E o \in Outcomes : outcome' = [outcome EXCEPT ![m] = o]
  /\ UNCHANGED <<asked, written, stored, polls, answers>>

Earlier(f) == CASE f = "error" -> {}
                [] f = "text"  -> {"error"}
                [] f = "done"  -> {"error", "text"}

\* Mutant: done is stored as soon as the provider has returned.
StoreAnyOrder(m, f) ==
  /\ outcome[m] # "none"
  /\ f \notin written[m]
  /\ written' = [written EXCEPT ![m] = @ \cup {f}]
  /\ UNCHANGED <<asked, outcome, stored, polls, answers>>

\* The thread stores the next field of its slot.
Store(m, f) ==
  /\ outcome[m] # "none"
  /\ f \notin written[m]
  /\ StoresInOrder => Earlier(f) \subseteq written[m]
  /\ written' = [written EXCEPT ![m] = @ \cup {f}]
  /\ UNCHANGED <<asked, outcome, stored, polls, answers>>

\* What getTranslationResult returns once it has seen done.
Result(m) ==
  CASE m \notin stored -> "unknown"
    [] m \in stored /\ outcome[m] = "failed" /\ "error" \in written[m] -> "failed"
    [] m \in stored /\ outcome[m] = "translated" /\ "text" \in written[m] -> "translated"
    [] OTHER -> "empty"

\* Mutant: a poll that finds nothing yet is not scheduled again.
PollPendingOnce(m) ==
  /\ m \in polls \cap stored
  /\ "done" \notin written[m]
  /\ polls' = polls \ {m}
  /\ UNCHANGED <<asked, outcome, written, stored, answers>>

\* poll, still pending: scheduled again.
PollPending(m) ==
  /\ m \in polls \cap stored
  /\ "done" \notin written[m]
  /\ UNCHANGED translateVars

\* poll, with a result: the slot is erased, the callback called and no further
\* poll scheduled.
PollDone(m) ==
  /\ m \in polls
  /\ m \in stored => "done" \in written[m]
  /\ stored' = stored \ {m}
  /\ answers' = [answers EXCEPT ![m] = Append(@, Result(m))]
  /\ polls' = polls \ {m}
  /\ UNCHANGED <<asked, outcome, written>>

\* The mission's timers go with its Lua state; the slots do not.
DropPolls ==
  /\ polls' = {}
  /\ UNCHANGED <<asked, outcome, written, stored, answers>>

TranslateStep(m) == Fetch(m) \/ \E f \in Fields : Store(m, f)

PollStep(m) == PollPending(m) \/ PollDone(m)

TranslateNext ==
  /\ \E m \in Messages : TranslateAsync(m) \/ Refuse(m) \/ TranslateStep(m) \/ PollStep(m)
  /\ UNCHANGED missionVars

-----------------------------------------------------------------------------

\* A callback is called once, and with what the provider returned: never with
\* half of a result, a second time, or for a slot that is gone
\* (lua_translate.cpp:76-85, 208-227, HoundTTS-mission.lua:404-418).
ResultIsWhole ==
  \A m \in Messages :
    answers[m] \in {<<>>, <<"refused">>} \cup
                   {<<o>> : o \in {outcome[m]} \cap Outcomes}

\* A slot is polled by the mission that asked for it, so that it will be erased;
\* only the slots of an ended mission stay for ever, and no poll outlives its
\* mission (lua_translate.cpp:65-69, 150-160, 212-215).
SlotsHavePollers ==
  /\ \A m \in stored : m \in polls \/ asked[m] \in 1 .. mission - 1
  /\ \A m \in polls : m \in stored /\ asked[m] = mission

\* Every translation is answered unless its mission is over first
\* (HoundTTS-mission.lua:404-420).
EveryTranslateAnswered ==
  \A m \in Messages : m \in polls ~> answers[m] # <<>> \/ ended

=============================================================================
