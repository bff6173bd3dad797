---------------------------- MODULE MCTtsPipeline ---------------------------
(* Requests, keys and providers for the runs of TtsPipeline.               *)
EXTENDS TtsPipeline

CONSTANTS r1, r2, r3, k1, k2

\* Two requests for the same speech, and one for another or for a test tone.
MCKeyOf == [r \in Requests |-> IF r \in {r1, r2} THEN k1 ELSE IF r = r3 THEN k2 ELSE NoKey]

ProvidersOf(first, second) ==
  [k \in {k1, k2, NoKey} |->
     IF k = NoKey THEN "tone" ELSE IF k = k1 THEN first ELSE second]

PiperAndOpenAI == ProvidersOf("piper", "openai")
SocketAndRest  == ProvidersOf("socket", "rest")

\* All that the cache may be given: padded speech, complete or not.
MCAudio ==
  {Padded(Speech(k, t, ps)) : k \in Keys, t \in Texts, ps \in Increasing \ {<<>>}}

=============================================================================
