------------------------------ MODULE PCMCache ------------------------------
(***************************************************************************)
(* The in-memory cache of synthesised PCM (backends/pcm_cache.h and .cpp): *)
(* a map into a list ordered by last access, capped in bytes, swept by age *)
(* on lookups and insertions.  All of it runs under one mutex, so every    *)
(* operation is one action.                                                *)
(*                                                                         *)
(* An audio buffer is abstracted to its size in bytes, a time stamp to the *)
(* time since then, counted in ticks and saturating beyond the largest     *)
(* TTL.  The hit and miss counters are left out: nothing depends on them.  *)
(***************************************************************************)
EXTENDS Integers, SequencesExt, FiniteSetsExt

CONSTANTS
  Keys,           \* 64-bit request keys
  Audio,          \* sizes of audio buffers in bytes; 0 is an empty buffer
  NoAudio,        \* nullptr
  ConfigMaxBytes, \* cache_max_mb, in bytes
  ConfigTTL,      \* cache_ttl_minutes, in ticks; 0 means no expiry
  ConfigEnabled,  \* cache_enabled
  Reconfigures,   \* whether anybody calls SetMaxBytes, SetTTL or SetEnabled
  MaxInsertions   \* bound: insertions counted since the last Clear

ASSUME PCMCacheAssumption ==
  /\ Audio \subseteq Nat
  /\ NoAudio \notin Audio
  /\ ConfigMaxBytes \in Nat \ {0}
  /\ ConfigTTL \in Nat
  /\ ConfigEnabled \in BOOLEAN
  /\ Reconfigures \in BOOLEAN
  /\ MaxInsertions \in Nat

VARIABLES
  lru,         \* lru_: the entries, most recently used first
  map,         \* map_: for every key the position of its entry in lru_
  totalBytes,  \* totalBytes_
  config,      \* configLoaded_, enabled_, maxBytes_, ttl_
  insertions,  \* insertions_
  evictions,   \* evictions_
  answer       \* the key of the last Get and what it returned; <<>> before any

vars == <<lru, map, totalBytes, config, insertions, evictions, answer>>

MaxAge == ConfigTTL + 1

Entry == [key : Keys, bytes : Audio \ {0}, age : 0..MaxAge]

TypeOK ==
  /\ lru \in Seq(Entry)
  /\ map \subseteq Keys
  /\ totalBytes \in Nat
  /\ config \in [loaded : BOOLEAN, enabled : BOOLEAN, maxBytes : Nat, ttl : 0..ConfigTTL]
  /\ insertions \in 0..MaxInsertions
  /\ evictions \in 0..MaxInsertions
  /\ answer \in {<<>>} \cup (Keys \X (Audio \cup {NoAudio}))

Init ==
  /\ lru = <<>>
  /\ map = {}
  /\ totalBytes = 0
  /\ config = [loaded |-> FALSE, enabled |-> TRUE, maxBytes |-> 0, ttl |-> 0]
  /\ insertions = 0
  /\ evictions = 0
  /\ answer = <<>>

-----------------------------------------------------------------------------

KeysOf(list)  == {list[i].key : i \in DOMAIN list}
BytesOf(list) ==
  LET sum[n \in 0..Len(list)] == IF n = 0 THEN 0 ELSE sum[n - 1] + list[n].bytes
  IN  sum[Len(list)]

\* The list, the map and the counters, as one value that operations pass on.
Contents == [list |-> lru, map |-> map, total |-> totalBytes, ev |-> evictions]

\* c becomes the list, the map and the counters.
Becomes(c) ==
  /\ lru' = c.list
  /\ map' = c.map
  /\ totalBytes' = c.total
  /\ evictions' = c.ev

\* EnsureConfig_NoLock: the first Get or Put takes the configured limits,
\* over whatever a setter has stored before.
Ensured ==
  IF config.loaded THEN config
  ELSE [loaded |-> TRUE, enabled |-> ConfigEnabled,
        maxBytes |-> ConfigMaxBytes, ttl |-> ConfigTTL]

\* Mutant: what is dropped from the tail is not counted.
KeepFirstUncounted(n, c) ==
  LET gone == SubSeq(c.list, n + 1, Len(c.list))
  IN [list  |-> SubSeq(c.list, 1, n),
      map   |-> c.map \ KeysOf(gone),
      total |-> c.total - BytesOf(gone),
      ev    |-> c.ev]

\* Evict from the tail of c until n entries are left.
KeepFirst(n, c) ==
  LET gone == SubSeq(c.list, n + 1, Len(c.list))
  IN [list  |-> SubSeq(c.list, 1, n),
      map   |-> c.map \ KeysOf(gone),
      total |-> c.total - BytesOf(gone),
      ev    |-> c.ev + Len(gone)]

\* Mutant: an expired tail is dropped once, without a loop.
SweepExpiredOnce(c, ttl) ==
  IF ttl # 0 /\ c.list # <<>> /\ Last(c.list).age > ttl
  THEN KeepFirst(Len(c.list) - 1, c)
  ELSE c

\* SweepExpired_NoLock: drop the tail while its last access is too old.
SweepExpired(c, ttl) ==
  LET recent == {n \in 1..Len(c.list) : ttl = 0 \/ c.list[n].age <= ttl}
  IN KeepFirst(Max(recent \cup {0}), c)

\* Mutant: an entry that fills the cache to the last byte is evicted too.
EnforceByteCapStrict(c, maxBytes) ==
  LET fits == {n \in 0..Len(c.list) :
                 c.total - BytesOf(SubSeq(c.list, n + 1, Len(c.list))) < maxBytes}
  IN KeepFirst(Max(fits \cup {0}), c)

\* EnforceByteCap_NoLock: drop the tail while the total is over the cap.
EnforceByteCap(c, maxBytes) ==
  LET fits == {n \in 0..Len(c.list) :
                 c.total - BytesOf(SubSeq(c.list, n + 1, Len(c.list))) <= maxBytes}
  IN KeepFirst(Max(fits \cup {0}), c)

PositionOf(k, list) == CHOOSE n \in DOMAIN list : list[n].key = k

\* Mutant: the entry keeps its place in the list.
TouchInPlace(list, n, b) == [list EXCEPT ![n].age = 0, ![n].bytes = b]

\* Splice entry n to the front, accessed now, with a buffer of b bytes.
Touch(list, n, b) ==
  <<[key |-> list[n].key, bytes |-> b, age |-> 0]>> \o RemoveAt(list, n)

-----------------------------------------------------------------------------

\* PCMCache::Get, with the cache disabled.
GetDisabled(k) ==
  /\ config' = Ensured
  /\ ~Ensured.enabled
  /\ answer' = <<k, NoAudio>>
  /\ UNCHANGED <<lru, map, totalBytes, evictions, insertions>>

\* PCMCache::Get: sweep, then answer nothing.
GetMiss(k) ==
  /\ config' = Ensured
  /\ Ensured.enabled
  /\ LET swept == SweepExpired(Contents, Ensured.ttl)
     IN k \notin swept.map /\ Becomes(swept)
  /\ answer' = <<k, NoAudio>>
  /\ UNCHANGED insertions

\* Mutant: the front of the list is answered before the entry is moved there.
GetHitAnswersFront(k) ==
  /\ config' = Ensured
  /\ Ensured.enabled
  /\ LET swept == SweepExpired(Contents, Ensured.ttl)
         n == PositionOf(k, swept.list)
     IN /\ k \in swept.map
        /\ Becomes([swept EXCEPT !.list = Touch(swept.list, n, swept.list[n].bytes)])
        /\ answer' = <<k, swept.list[1].bytes>>
  /\ UNCHANGED insertions

\* PCMCache::Get: sweep, then promote the entry and answer its buffer.
GetHit(k) ==
  /\ config' = Ensured
  /\ Ensured.enabled
  /\ LET swept == SweepExpired(Contents, Ensured.ttl)
         n == PositionOf(k, swept.list)
         b == swept.list[n].bytes
     IN /\ k \in swept.map
        /\ Becomes([list |-> Touch(swept.list, n, b), map |-> swept.map,
                    total |-> swept.total, ev |-> swept.ev])
        /\ answer' = <<k, b>>
  /\ UNCHANGED insertions

\* PCMCache::Put of an empty buffer, or with the cache disabled, or of a
\* buffer that alone exceeds the cap.
PutRejected(k, a) ==
  /\ config' = IF a = 0 THEN config ELSE Ensured
  /\ a = 0 \/ ~Ensured.enabled \/ a > Ensured.maxBytes
  /\ UNCHANGED <<lru, map, totalBytes, evictions, insertions, answer>>

\* Mutant: the bytes of the buffer that is replaced stay counted.
PutReplaceCountsTwice(k, a) ==
  /\ config' = Ensured
  /\ a # 0 /\ Ensured.enabled /\ a <= Ensured.maxBytes
  /\ k \in map
  /\ Becomes([Contents EXCEPT !.list  = Touch(lru, PositionOf(k, lru), a),
                              !.total = @ + a])
  /\ UNCHANGED <<insertions, answer>>

\* Mutant: the bytes of the new buffer are not counted, so that evicting it
\* later takes away more than was added.
PutReplaceForgetsNew(k, a) ==
  /\ config' = Ensured
  /\ a # 0 /\ Ensured.enabled /\ a <= Ensured.maxBytes
  /\ k \in map
  /\ LET n == PositionOf(k, lru)
     IN Becomes([Contents EXCEPT !.list  = Touch(lru, n, a),
                                 !.total = @ - lru[n].bytes])
  /\ UNCHANGED <<insertions, answer>>

\* Mutant: the cap is not looked at before a buffer is replaced.
PutReplaceAnySize(k, a) ==
  /\ config' = Ensured
  /\ a # 0 /\ Ensured.enabled
  /\ k \in map
  /\ LET n == PositionOf(k, lru)
     IN Becomes([Contents EXCEPT !.list  = Touch(lru, n, a),
                                 !.total = @ - lru[n].bytes + a])
  /\ UNCHANGED <<insertions, answer>>

\* PCMCache::Put under a key that is present: replace the buffer in place,
\* without a sweep and without looking at the cap.
PutReplace(k, a) ==
  /\ config' = Ensured
  /\ a # 0 /\ Ensured.enabled /\ a <= Ensured.maxBytes
  /\ k \in map
  /\ LET n == PositionOf(k, lru)
     IN Becomes([list |-> Touch(lru, n, a), map |-> map,
                 total |-> totalBytes - lru[n].bytes + a, ev |-> evictions])
  /\ UNCHANGED <<insertions, answer>>

\* Mutant: a buffer of any size is inserted.
PutNewAnySize(k, a) ==
  /\ config' = Ensured
  /\ a # 0 /\ Ensured.enabled
  /\ k \notin map
  /\ insertions < MaxInsertions
  /\ LET swept == SweepExpired(Contents, Ensured.ttl)
         e == [key |-> k, bytes |-> a, age |-> 0]
     IN Becomes(EnforceByteCap([swept EXCEPT !.list  = <<e>> \o @,
                                             !.map   = @ \cup {k},
                                             !.total = @ + a], Ensured.maxBytes))
  /\ insertions' = insertions + 1
  /\ UNCHANGED answer

\* PCMCache::Put under a new key: sweep, insert at the front, enforce the cap.
PutNew(k, a) ==
  /\ config' = Ensured
  /\ a # 0 /\ Ensured.enabled /\ a <= Ensured.maxBytes
  /\ k \notin map
  /\ insertions < MaxInsertions
  /\ LET swept == SweepExpired(Contents, Ensured.ttl)
         e == [key |-> k, bytes |-> a, age |-> 0]
         c == [list |-> <<e>> \o swept.list, map |-> swept.map \cup {k},
               total |-> swept.total + a, ev |-> swept.ev]
     IN Becomes(EnforceByteCap(c, Ensured.maxBytes))
  /\ insertions' = insertions + 1
  /\ UNCHANGED answer

Emptied(ev) == [list |-> <<>>, map |-> {}, total |-> 0, ev |-> ev]

\* PCMCache::Clear, on mission end or from Lua.
Clear ==
  /\ Becomes(Emptied(0))
  /\ insertions' = 0
  /\ UNCHANGED <<config, answer>>

\* PCMCache::SetMaxBytes.
SetMaxBytes(b) ==
  /\ Reconfigures
  /\ config' = [config EXCEPT !.maxBytes = b]
  /\ Becomes(EnforceByteCap(Contents, b))
  /\ UNCHANGED <<insertions, answer>>

\* PCMCache::SetTTL: entries that are now too old wait for the next sweep.
SetTTL(t) ==
  /\ Reconfigures
  /\ config' = [config EXCEPT !.ttl = t]
  /\ UNCHANGED <<lru, map, totalBytes, insertions, evictions, answer>>

\* PCMCache::SetEnabled: disabling drops the entries but counts no eviction.
SetEnabled(on) ==
  /\ Reconfigures
  /\ config' = [config EXCEPT !.enabled = on]
  /\ Becomes(IF on THEN Contents ELSE Emptied(evictions))
  /\ UNCHANGED <<insertions, answer>>

\* One tick passes.
Tick ==
  /\ lru' = [n \in DOMAIN lru |->
               [lru[n] EXCEPT !.age = IF @ < MaxAge THEN @ + 1 ELSE @]]
  /\ UNCHANGED <<map, totalBytes, config, insertions, evictions, answer>>

Next ==
  \/ \E k \in Keys : GetDisabled(k) \/ GetMiss(k) \/ GetHit(k)
  \/ \E k \in Keys, a \in Audio : PutRejected(k, a) \/ PutReplace(k, a) \/ PutNew(k, a)
  \/ Clear
  \/ \E b \in Audio : SetMaxBytes(b)
  \/ \E t \in 0..ConfigTTL : SetTTL(t)
  \/ \E on \in BOOLEAN : SetEnabled(on)
  \/ Tick

Spec == Init /\ [][Next]_vars

-----------------------------------------------------------------------------

\* The books balance: the map has exactly the keys of the list, which has no
\* key twice, and totalBytes_ is the sum of its buffers, after any sequence
\* of lookups, replacements, sweeps and evictions (pcm_cache.cpp:147-171); and
\* all of them have their types.
BooksBalance ==
  /\ TypeOK
  /\ map = KeysOf(lru)
  /\ Cardinality(map) = Len(lru)
  /\ totalBytes = BytesOf(lru)

\* The list is ordered by last access, the most recent first: what lets the
\* sweep stop at the first entry that is young enough (pcm_cache.cpp:235).
NewestFirst ==
  \A m, n \in DOMAIN lru : m < n => lru[m].age <= lru[n].age

\* A hit never hands out a buffer that was last used longer ago than the TTL.
HitsAreFresh ==
  [][\A k \in Keys : GetHit(k) /\ config'.ttl # 0
        => lru[PositionOf(k, lru)].age <= config'.ttl]_vars

\* A new entry evicts exactly enough: the cache is within its cap and keeps what
\* was inserted; what it evicts is too old, or was used no later than anything
\* it keeps and would not have fitted; and each eviction is counted once
\* (pcm_cache.cpp:158-173, 235-255).  Only a replacement makes the cache grow
\* beyond its cap: by one buffer that alone fits, now first, with nothing evicted
\* for it (145-156).  The next new entry ends the excess.
EvictsExactlyEnough ==
  [][/\ insertions' = insertions + 1 =>
          /\ totalBytes' <= config'.maxBytes
          /\ lru' # <<>> /\ lru'[1].age = 0
          /\ Len(lru') - Len(lru) = 1 - (evictions' - evictions)
          /\ \A n \in DOMAIN lru :
                lru[n].key \notin map' =>
                   \/ config'.ttl # 0 /\ lru[n].age > config'.ttl
                   \/ BytesOf(SubSeq(lru, 1, n)) + lru'[1].bytes > config'.maxBytes
     /\ totalBytes' > totalBytes /\ totalBytes' > config'.maxBytes =>
          /\ map' = map /\ evictions' = evictions
          /\ lru' # <<>> /\ lru'[1].bytes <= config'.maxBytes]_vars

\* The cache keeps the promise of AudioCache.
StoredUnder(k) == IF k \in map THEN lru[PositionOf(k, lru)].bytes ELSE NoAudio

Promise == INSTANCE AudioCache WITH stored <- [k \in Keys |-> StoredUnder(k)]
KeepsPromise == Promise!CacheSpec

=============================================================================
