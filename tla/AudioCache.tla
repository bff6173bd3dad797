----------------------------- MODULE AudioCache -----------------------------
(***************************************************************************)
(* What a cache of synthesised audio promises its users, whatever its      *)
(* policy: a lookup answers nothing or the audio that was last stored      *)
(* under that key.  It may forget any entry at any time, and need not keep *)
(* what it is given.  PCMCache implements it; TtsPipeline relies on it.    *)
(***************************************************************************)

CONSTANTS
  Keys,        \* request keys
  Audio,       \* what can be stored
  NoAudio      \* nothing stored, nothing found

ASSUME CacheAssumption == NoAudio \notin Audio

VARIABLES
  stored,      \* the audio stored under each key
  answer       \* the last lookup and its answer; <<>> before any

cacheVars == <<stored, answer>>

CacheTypeOK ==
  /\ stored \in [Keys -> Audio \cup {NoAudio}]
  /\ answer \in {<<>>} \cup (Keys \X (Audio \cup {NoAudio}))

CacheInit ==
  /\ stored = [k \in Keys |-> NoAudio]
  /\ answer = <<>>

\* What is left of the contents f once the keys in S are forgotten.
Without(f, S) == [k \in Keys |-> IF k \in S THEN NoAudio ELSE f[k]]

\* PCMCache::Get: entries may expire, then the key is looked up.
Lookup(k) ==
  /\ \E S \in SUBSET Keys : stored' = Without(stored, S)
  /\ answer' = <<k, stored'[k]>>

\* PCMCache::Put: store a under k, evict anything, k included.
Store(k, a) ==
  /\ \E S \in SUBSET Keys : stored' = Without([stored EXCEPT ![k] = a], S)
  /\ UNCHANGED answer

\* PCMCache::Clear and the setters: forget some or all entries.
Forget ==
  /\ \E S \in SUBSET Keys : stored' = Without(stored, S)
  /\ UNCHANGED answer

CacheNext ==
  \/ \E k \in Keys : Lookup(k)
  \/ \E k \in Keys, a \in Audio : Store(k, a)
  \/ Forget

CacheSpec == CacheInit /\ [][CacheNext]_cacheVars

=============================================================================
