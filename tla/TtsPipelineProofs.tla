-------------------------- MODULE TtsPipelineProofs -------------------------
(***************************************************************************)
(* Proofs about TtsPipeline, for any requests, keys, providers and number  *)
(* of pieces: what a request plays is its own speech from the beginning,   *)
(* once and between silences; nothing is pushed into a queue that is done; *)
(* what the cache holds was played by somebody in full, and is complete    *)
(* if its provider reports errors.                                         *)
(***************************************************************************)
EXTENDS TtsPipeline, SequenceTheorems, TLAPS

-----------------------------------------------------------------------------
(* Speech.                                                                 *)

LEMMA SilenceIsSegment == Silence \in Segments /\ <<Silence>> \in Seq(Segments)
BY PipelineAssumption DEF Silence, Segments, Texts

\* Pieces in increasing order, and what providers push of them.
LEMMA IncreasingIs ==
  /\ \A ps \in Increasing : ps \in Seq(1..Pieces) /\ Len(ps) \in Nat
  /\ <<>> \in Increasing
  /\ UpTo(Pieces) # <<>>
  /\ \A provider : Portions(provider) \subseteq Increasing
  /\ \A provider : Chunks(provider) \subseteq Seq(1..Pieces) \ {<<>>}
<1>0. Pieces \in Nat /\ Pieces # 0 /\ 1 \in 1..Pieces
  BY PipelineAssumption
<1>1. ASSUME NEW n \in 0..Pieces
      PROVE  UpTo(n) \in [1..n -> 1..Pieces] /\ Len(UpTo(n)) = n /\ UpTo(n) \in Increasing
  <2>1. n \in Nat /\ UpTo(n) \in [1..n -> 1..Pieces] /\ Len(UpTo(n)) = n
    BY <1>0 DEF UpTo
  <2>2. \A i \in 1..n : UpTo(n)[i] = i
    BY DEF UpTo
  <2> QED
    BY <2>1, <2>2 DEF Increasing
<1>2. ASSUME NEW ps \in Increasing PROVE ps \in Seq(1..Pieces) /\ Len(ps) \in Nat
  <2>1. PICK n \in 0..Pieces : ps \in [1..n -> 1..Pieces]
    BY DEF Increasing
  <2>2. n \in Nat
    BY <1>0
  <2>3. ps \in Seq(1..Pieces)
    BY <2>1, <2>2, SeqDef
  <2> QED
    BY <2>3, LenProperties
<1>3. <<>> \in Increasing
  <2>1. UpTo(0) \in Increasing /\ Len(UpTo(0)) = 0
    BY <1>0, <1>1
  <2> QED
    BY <2>1, <1>2
<1>4. UpTo(Pieces) \in Seq(1..Pieces) /\ UpTo(Pieces) # <<>>
  <2>1. UpTo(Pieces) \in Increasing /\ Len(UpTo(Pieces)) = Pieces
    BY <1>0, <1>1
  <2> QED
    BY <2>1, <1>0, <1>2
<1>5. \A provider : Portions(provider) \subseteq Increasing
  BY <1>1 DEF Portions
<1>6. \A p \in 1..Pieces : <<p>> \in Seq(1..Pieces) \ {<<>>}
  OBVIOUS
<1> QED
  BY <1>2, <1>3, <1>4, <1>5, <1>6 DEF Chunks

LEMMA SpeechIs ==
  ASSUME NEW k \in Keys \cup {NoKey}, NEW t \in Texts, NEW ps \in Seq(1..Pieces)
  PROVE  /\ Speech(k, t, ps) \in Seq(Segments)
         /\ Len(Speech(k, t, ps)) = Len(ps)
         /\ \A i \in 1..Len(ps) :
               Speech(k, t, ps)[i] = [of |-> k, text |-> t, piece |-> ps[i]]
<1>1. \A p \in 1..Pieces : [of |-> k, text |-> t, piece |-> p] \in Segments
  BY PipelineAssumption DEF Segments
<1> DEFINE n == Len(ps)
           s == Speech(k, t, ps)
<1>2. n \in Nat /\ \A i \in 1..n : ps[i] \in 1..Pieces
  BY LenProperties, ElementOfSeq
<1>3. s = [i \in 1..n |-> [of |-> k, text |-> t, piece |-> ps[i]]]
  BY DEF Speech
<1> HIDE DEF n, s
<1>4. s \in [1..n -> Segments]
  BY <1>1, <1>2, <1>3
<1>5. s \in Seq(Segments) /\ Len(s) = n
  BY <1>2, <1>4, SeqDef
<1> QED
  BY <1>3, <1>5 DEF n, s

\* The audio of more pieces is the audio of some followed by that of the rest.
LEMMA SpeechGrows ==
  ASSUME NEW k \in Keys \cup {NoKey}, NEW t \in Texts,
         NEW ps \in Seq(1..Pieces), NEW qs \in Seq(1..Pieces)
  PROVE  Speech(k, t, ps \o qs) = Speech(k, t, ps) \o Speech(k, t, qs)
<1> DEFINE all == ps \o qs
           s   == Speech(k, t, all)
           a   == Speech(k, t, ps)
           b   == Speech(k, t, qs)
<1>1. /\ all \in Seq(1..Pieces) /\ Len(all) = Len(ps) + Len(qs)
      /\ \A i \in 1..Len(all) : all[i] = IF i <= Len(ps) THEN ps[i] ELSE qs[i - Len(ps)]
  BY ConcatProperties
<1> HIDE DEF all
<1>2. /\ s \in Seq(Segments) /\ Len(s) = Len(all)
      /\ \A i \in 1..Len(all) : s[i] = [of |-> k, text |-> t, piece |-> all[i]]
  BY <1>1, SpeechIs
<1>3. /\ a \in Seq(Segments) /\ Len(a) = Len(ps)
      /\ \A i \in 1..Len(ps) : a[i] = [of |-> k, text |-> t, piece |-> ps[i]]
  BY SpeechIs
<1>4. /\ b \in Seq(Segments) /\ Len(b) = Len(qs)
      /\ \A i \in 1..Len(qs) : b[i] = [of |-> k, text |-> t, piece |-> qs[i]]
  BY SpeechIs
<1> HIDE DEF s, a, b
<1>5. /\ a \o b \in Seq(Segments) /\ Len(a \o b) = Len(a) + Len(b)
      /\ \A i \in 1..Len(a \o b) : (a \o b)[i] = IF i <= Len(a) THEN a[i] ELSE b[i - Len(a)]
  <2>1. a \in Seq(Segments) /\ b \in Seq(Segments)
    BY <1>3, <1>4
  <2> QED
    BY <2>1, ConcatProperties
<1>6. \A i \in 1..Len(all) : (a \o b)[i] = s[i]
  <2> TAKE i \in 1..Len(all)
  <2>0. Len(ps) \in Nat /\ Len(qs) \in Nat /\ i \in 1..Len(a \o b)
    BY <1>1, <1>3, <1>4, <1>5
  <2>1. CASE i <= Len(ps)
    BY <2>0, <2>1, <1>1, <1>2, <1>3, <1>5
  <2>2. CASE ~(i <= Len(ps))
    <3>1. i - Len(ps) \in 1..Len(qs)
      BY <2>0, <2>2, <1>1
    <3>2. b[i - Len(ps)] = [of |-> k, text |-> t, piece |-> qs[i - Len(ps)]]
      BY <3>1, <1>4
    <3>3. (a \o b)[i] = b[i - Len(ps)]
      BY <2>0, <2>2, <1>3, <1>5
    <3>4. all[i] = qs[i - Len(ps)]
      BY <2>2, <1>1
    <3> QED
      BY <3>2, <3>3, <3>4, <1>2
  <2> QED
    BY <2>1, <2>2
<1>7. s = a \o b
  BY <1>1, <1>2, <1>3, <1>4, <1>5, <1>6, SeqEqual
<1> QED
  BY <1>7 DEF s, a, b, all

\* All pieces are pushed at most once.
LEMMA TwiceIsNotIncreasing == UpTo(Pieces) \o UpTo(Pieces) \notin Increasing
<1> DEFINE u == UpTo(Pieces)
           d == u \o u
<1>1. /\ Pieces \in Nat /\ Pieces # 0
      /\ u \in Seq(1..Pieces) /\ Len(u) = Pieces /\ \A i \in 1..Pieces : u[i] = i
  BY PipelineAssumption DEF UpTo
<1> HIDE DEF u
<1>2. /\ Len(d) = Pieces + Pieces
      /\ \A i \in 1..Len(d) : d[i] = IF i <= Len(u) THEN u[i] ELSE u[i - Len(u)]
  BY <1>1, ConcatProperties
<1> HIDE DEF d
<1>3. d[Pieces] = Pieces /\ d[Pieces + 1] = 1
  BY <1>1, <1>2
<1>4. Pieces \in 1..Len(d) /\ Pieces + 1 \in 1..Len(d) /\ Pieces < Pieces + 1
  BY <1>1, <1>2
<1>5. ~(d[Pieces] < d[Pieces + 1])
  BY <1>1, <1>3
<1>6. d \notin Increasing
  BY <1>4, <1>5 DEF Increasing
<1> QED
  BY <1>6 DEF d, u

\* Speech after the silence that leads in, and with the one that leads out, if
\* there is any speech.
Lead(k, t, ps)  == IF ps = <<>> THEN <<>> ELSE <<Silence>> \o Speech(k, t, ps)
Whole(k, t, ps) == IF ps = <<>> THEN <<>> ELSE Padded(Speech(k, t, ps))

\* What may be heard of a key's utterance.
Utterances(k) ==
  {Padded(Speech(k, t, ps)) : t \in Texts, ps \in Portions(ProviderOf[k]) \ {<<>>}}

LEMMA LeadGrows ==
  ASSUME NEW k \in Keys \cup {NoKey}, NEW t \in Texts,
         NEW ps \in Seq(1..Pieces), NEW qs \in Seq(1..Pieces) \ {<<>>}
  PROVE  LET new == Speech(k, t, qs)
         IN  /\ new \in Seq(Segments)
             /\ ps # <<>> => Lead(k, t, ps) \o new = Lead(k, t, ps \o qs)
             /\ ps = <<>> => Lead(k, t, ps) \o (<<Silence>> \o new) = Lead(k, t, ps \o qs)
<1> DEFINE new == Speech(k, t, qs)
<1>1. /\ new \in Seq(Segments) /\ Speech(k, t, ps) \in Seq(Segments)
      /\ Speech(k, t, ps \o qs) = Speech(k, t, ps) \o new
  BY SpeechIs, SpeechGrows
<1>2. ps \o qs # <<>>
  <2>1. Len(ps \o qs) = Len(ps) + Len(qs) /\ Len(qs) # 0 /\ Len(ps) \in Nat /\ Len(qs) \in Nat
    BY ConcatProperties, EmptySeq
  <2> QED
    BY <2>1
<1>3. ps # <<>> => Lead(k, t, ps) \o new = Lead(k, t, ps \o qs)
  <2>1. (<<Silence>> \o Speech(k, t, ps)) \o new = <<Silence>> \o (Speech(k, t, ps) \o new)
    <3> HIDE DEF new
    <3>1. \A a, b, c \in Seq(Segments) : (a \o b) \o c = a \o (b \o c)
      BY ConcatAssociative
    <3> QED
      BY <3>1, <1>1, SilenceIsSegment, Zenon
  <2> QED
    BY <2>1, <1>1, <1>2 DEF Lead
<1>4. ps = <<>> => Lead(k, t, ps) \o (<<Silence>> \o new) = Lead(k, t, ps \o qs)
  <2> SUFFICES ASSUME ps = <<>>
               PROVE  Lead(k, t, ps) \o (<<Silence>> \o new) = Lead(k, t, ps \o qs)
    OBVIOUS
  <2>1. ps \o qs = qs
    BY ConcatEmptySeq
  <2>2. <<Silence>> \o new \in Seq(Segments)
    BY <1>1, SilenceIsSegment, ConcatProperties
  <2>3. <<>> \o (<<Silence>> \o new) = <<Silence>> \o new
    BY <2>2, ConcatEmptySeq
  <2> QED
    BY <2>1, <2>3 DEF Lead
<1> QED
  BY <1>1, <1>3, <1>4

LEMMA LeadIs ==
  ASSUME NEW k \in Keys \cup {NoKey}, NEW t \in Texts, NEW ps \in Seq(1..Pieces)
  PROVE  /\ Lead(k, t, ps) \in Seq(Segments)
         /\ Whole(k, t, ps) \in Seq(Segments)
         /\ ps # <<>> => Lead(k, t, ps) \o <<Silence>> = Whole(k, t, ps)
<1>1. Speech(k, t, ps) \in Seq(Segments)
  BY SpeechIs
<1>2. <<Silence>> \o Speech(k, t, ps) \in Seq(Segments)
  BY <1>1, SilenceIsSegment, ConcatProperties
<1>3. Padded(Speech(k, t, ps)) \in Seq(Segments)
  BY <1>2, SilenceIsSegment, ConcatProperties DEF Padded
<1> QED
  BY <1>2, <1>3 DEF Lead, Whole, Padded

-----------------------------------------------------------------------------
(* The invariant.                                                          *)

Untouched == [leadIn |-> FALSE, acc |-> <<>>, failed |-> FALSE, heard |-> <<>>, done |-> FALSE]

\* What holds of one request, of its thread p and its queues q, at each stage.
\* The copy is what was heard until it is committed; the lead-in is latched
\* with the first piece; only its last two stages find the queue done.
Local(r, p, q) ==
  /\ p.stage \in {"idle", "lookup", "translate", "dispatch"} => p.spoken = <<>> /\ q = Untouched
  /\ p.stage = "abort" => p.spoken = <<>> /\ q.heard = <<>> /\ q.acc = <<>>
  /\ q.done <=> p.stage \in {"finalize", "ended"}
  /\ ~Cacheable(r) => p.stage \notin {"lookup", "abort", "finalize", "replay", "replayed"}
  /\ Cacheable(r) /\ p.stage \in {"speak", "pad"} =>
       /\ q.leadIn <=> p.spoken # <<>>
       /\ q.heard = Lead(KeyOf[r], p.text, p.spoken)
       /\ q.acc = q.heard
  /\ Cacheable(r) /\ p.stage \in {"markDone", "finalize"} =>
       q.heard = Whole(KeyOf[r], p.text, p.spoken) /\ q.acc = q.heard
  /\ p.stage \in {"replay", "replayed"} => p.hit \in Utterances(KeyOf[r])
  /\ p.stage = "replay" => q.heard = <<>>
  /\ p.stage = "replayed" => q.heard = p.hit
  /\ Cacheable(r) /\ p.stage = "ended" => q.heard \in {<<>>} \cup Utterances(KeyOf[r])
  /\ p.spoken # <<>> => p.spoken \in Portions(Provider(r))
  /\ Provider(r) = "rest" => p.spoken \in {<<>>, UpTo(Pieces)}
  /\ p.stage \in {"pad", "markDone", "finalize"} /\ p.ok /\ ReportsErrors(Provider(r))
       => p.spoken \in {<<>>, UpTo(Pieces)}

\* Request r has played a and nothing else.
Played(r, k, a) == KeyOf[r] = k /\ queue[r].done /\ queue[r].heard = a

\* What is cached is an utterance that somebody has played, complete if its
\* provider reports errors.
CacheInv ==
  \A k \in Keys : stored[k] # NoAudio =>
     /\ stored[k] \in Utterances(k)
     /\ \E r \in Requests : Played(r, k, stored[k])
     /\ ReportsErrors(ProviderOf[k]) => stored[k] \in Complete(k)

PipeInv ==
  /\ TypeOK
  /\ \A r \in Requests : Local(r, produce[r], queue[r])
  /\ CacheInv

\* A request whose queue is done hears nothing new.
Settled(r) == queue[r].done => queue'[r].done /\ queue'[r].heard = queue[r].heard

\* Stored audio that is kept, forgotten, or stored now by request r.
FromPlayed(r) ==
  \A k \in Keys : stored'[k] # NoAudio =>
     \/ stored'[k] = stored[k]
     \/ /\ k = KeyOf[r] /\ queue'[r].done /\ queue'[r].heard = stored'[k]
        /\ stored'[k] \in Utterances(k)
        /\ ReportsErrors(ProviderOf[k]) => stored'[k] \in Complete(k)

\* A step of one request leaves the others alone and keeps the invariant.
LEMMA OneMoves ==
  ASSUME PipeInv, NEW r \in Requests, NEW p \in ProduceState, NEW q \in QueueState,
         produce' = [produce EXCEPT ![r] = p], queue' = [queue EXCEPT ![r] = q],
         Local(r, p, q),
         queue[r].done => q.done /\ q.heard = queue[r].heard,
         CacheTypeOK', FromPlayed(r)
  PROVE  PipeInv' /\ \A s \in Requests : Settled(s)
<1>0. produce \in [Requests -> ProduceState] /\ queue \in [Requests -> QueueState]
  BY DEF PipeInv, TypeOK
<1>1. /\ produce' \in [Requests -> ProduceState] /\ queue' \in [Requests -> QueueState]
      /\ produce'[r] = p /\ queue'[r] = q
      /\ \A s \in Requests : s # r => produce'[s] = produce[s] /\ queue'[s] = queue[s]
  BY <1>0
<1>2. \A s \in Requests : Settled(s)
  BY <1>1 DEF Settled
<1>3. TypeOK'
  BY <1>1 DEF TypeOK
<1>4. ASSUME NEW s \in Requests PROVE Local(s, produce'[s], queue'[s])
  <2>1. Local(s, produce[s], queue[s])
    BY DEF PipeInv
  <2> QED
    BY <2>1, <1>1
<1>5. CacheInv'
  <2> SUFFICES ASSUME NEW k \in Keys, stored'[k] # NoAudio
               PROVE  /\ stored'[k] \in Utterances(k)
                      /\ \E s \in Requests : KeyOf[s] = k /\ queue'[s].done
                                                /\ queue'[s].heard = stored'[k]
                      /\ ReportsErrors(ProviderOf[k]) => stored'[k] \in Complete(k)
    BY DEF CacheInv, Played
  <2>1. CASE stored'[k] = stored[k]
    <3>1. /\ stored[k] \in Utterances(k)
          /\ ReportsErrors(ProviderOf[k]) => stored[k] \in Complete(k)
      BY <2>1 DEF PipeInv, CacheInv
    <3>2. PICK s \in Requests : Played(s, k, stored[k])
      BY <2>1 DEF PipeInv, CacheInv
    <3>3. KeyOf[s] = k /\ queue'[s].done /\ queue'[s].heard = stored[k]
      BY <3>2, <1>2 DEF Settled, Played
    <3> QED
      BY <2>1, <3>1, <3>3
  <2>2. CASE stored'[k] # stored[k]
    BY <2>2 DEF FromPlayed
  <2> QED
    BY <2>1, <2>2
<1>6. PipeInv'
  BY <1>3, <1>4, <1>5 DEF PipeInv
<1> QED
  BY <1>2, <1>6

\* The record of request r.
LEMMA RequestIs ==
  ASSUME PipeInv, NEW r \in Requests
  PROVE  /\ produce \in [Requests -> ProduceState] /\ queue \in [Requests -> QueueState]
         /\ produce[r] \in ProduceState /\ queue[r] \in QueueState
         /\ KeyOf[r] \in Keys \cup {NoKey} /\ Provider(r) \in ProviderKinds
         /\ Cacheable(r) => KeyOf[r] \in Keys
         /\ Cacheable(r) <=> Provider(r) # "tone"
         /\ Local(r, produce[r], queue[r])
         /\ CacheTypeOK
BY PipelineAssumption DEF PipeInv, TypeOK, Cacheable, Provider

LEMMA UncachedMoves ==
  ASSUME UNCHANGED cacheVars, PipeInv, NEW r
  PROVE  CacheTypeOK' /\ FromPlayed(r)
BY DEF cacheVars, PipeInv, TypeOK, CacheTypeOK, FromPlayed

LEMMA UtterancesAre ==
  ASSUME NEW k \in Keys, NEW a \in Utterances(k)
  PROVE  a \in Seq(Segments) /\ a \in Audio /\ a # NoAudio
<1>1. PICK t \in Texts, ps \in Portions(ProviderOf[k]) \ {<<>>} : a = Padded(Speech(k, t, ps))
  BY DEF Utterances
<1>2. ps \in Increasing /\ ps \in Seq(1..Pieces)
  BY IncreasingIs
<1>3. a \in Audio /\ a # NoAudio
  BY <1>1, <1>2, AudioAssumption, CacheAssumption
<1>4. a = Whole(k, t, ps)
  BY <1>1 DEF Whole
<1> QED
  BY <1>2, <1>3, <1>4, LeadIs

\* Where a lookup leaves the cache, and what it answers.
LEMMA LookupIs ==
  ASSUME PipeInv, NEW k \in Keys, Lookup(k)
  PROVE  /\ CacheTypeOK'
         /\ \A r : FromPlayed(r)
         /\ answer'[2] # NoAudio => answer'[2] = stored[k] /\ answer'[2] \in Utterances(k)
<1>1. PICK S \in SUBSET Keys : stored' = Without(stored, S)
  BY DEF Lookup
<1>2. \A x \in Keys : stored'[x] \in {stored[x], NoAudio}
  BY <1>1 DEF Without
<1>3. stored \in [Keys -> Audio \cup {NoAudio}]
  BY DEF PipeInv, TypeOK, CacheTypeOK
<1>4. stored' \in [Keys -> Audio \cup {NoAudio}]
  BY <1>1, <1>3 DEF Without
<1>5. answer' = <<k, stored'[k]>>
  BY DEF Lookup
<1>6. CacheTypeOK'
  BY <1>4, <1>5 DEF CacheTypeOK
<1>7. \A r : FromPlayed(r)
  BY <1>2 DEF FromPlayed
<1>8. ASSUME answer'[2] # NoAudio PROVE answer'[2] = stored[k] /\ answer'[2] \in Utterances(k)
  BY <1>2, <1>5, <1>8 DEF PipeInv, CacheInv
<1> QED
  BY <1>6, <1>7, <1>8

-----------------------------------------------------------------------------
(* The steps of a request.                                                 *)

LEMMA GoesIs ==
  ASSUME PipeInv, NEW r \in Requests, NEW s \in Stages, Goes(r, s)
  PROVE  \E p \in ProduceState :
            /\ produce' = [produce EXCEPT ![r] = p]
            /\ p.stage = s /\ p.text = produce[r].text /\ p.spoken = produce[r].spoken
            /\ p.ok = produce[r].ok /\ p.hit = produce[r].hit
<1>1. produce[r] \in ProduceState
  BY RequestIs
<1> DEFINE p == [produce[r] EXCEPT !.stage = s]
<1>2. /\ p \in ProduceState
      /\ p.stage = s /\ p.text = produce[r].text /\ p.spoken = produce[r].spoken
      /\ p.ok = produce[r].ok /\ p.hit = produce[r].hit
  BY <1>1 DEF ProduceState
<1>3. produce' = [produce EXCEPT ![r] = p]
  BY DEF Goes
<1> HIDE DEF p
<1> QED
  BY <1>2, <1>3

LEMMA EndsIs ==
  ASSUME NEW r \in Requests, Ends(r)
  PROVE  \E p \in ProduceState :
            /\ produce' = [produce EXCEPT ![r] = p]
            /\ p.stage = "ended" /\ p.spoken = <<>> /\ p.ok = FALSE
<1>1. Fresh \in ProduceState /\ Fresh.spoken = <<>> /\ Fresh.ok = FALSE
  BY IncreasingIs DEF Fresh, ProduceState, Stages, Texts
<1> DEFINE p == [Fresh EXCEPT !.stage = "ended"]
<1>2. p \in ProduceState /\ p.stage = "ended" /\ p.spoken = <<>> /\ p.ok = FALSE
  BY <1>1 DEF ProduceState, Stages
<1>3. produce' = [produce EXCEPT ![r] = p]
  BY DEF Ends
<1> HIDE DEF p
<1> QED
  BY <1>2, <1>3

\* A request that moves on and takes something along: the audio of a hit, the
\* text to speak, or what the provider reports.
WithHit(r, s, x)    == produce' = [produce EXCEPT ![r].stage = s, ![r].hit = x]
WithText(r, s, x)   == produce' = [produce EXCEPT ![r].stage = s, ![r].text = x]
WithReport(r, s, x) == produce' = [produce EXCEPT ![r].stage = s, ![r].ok = x]

LEMMA TakesHit ==
  ASSUME PipeInv, NEW r \in Requests, NEW s \in Stages, NEW x \in Audio,
         WithHit(r, s, x)
  PROVE  \E p \in ProduceState :
            /\ produce' = [produce EXCEPT ![r] = p]
            /\ p.stage = s /\ p.spoken = produce[r].spoken
            /\ p.hit = x /\ p.text = produce[r].text /\ p.ok = produce[r].ok
<1>0. produce \in [Requests -> ProduceState] /\ produce[r] \in ProduceState
  BY RequestIs
<1> DEFINE e == [produce[r] EXCEPT !.stage = s]
           f == [produce EXCEPT ![r] = e]
           p == [e EXCEPT !.hit = x]
<1>1. /\ e \in ProduceState
      /\ e.stage = s /\ e.text = produce[r].text /\ e.spoken = produce[r].spoken
      /\ e.ok = produce[r].ok /\ e.hit = produce[r].hit
  BY <1>0 DEF ProduceState
<1>2. produce' = [f EXCEPT ![r].hit = x]
  BY Zenon DEF WithHit
<1> HIDE DEF e
<1>3. /\ p \in ProduceState
      /\ p.stage = s /\ p.spoken = produce[r].spoken
      /\ p.hit = x /\ p.text = produce[r].text /\ p.ok = produce[r].ok
  BY <1>1 DEF ProduceState
<1>4. produce' = [produce EXCEPT ![r] = p]
  BY <1>0, <1>1, <1>2
<1> HIDE DEF p
<1> QED
  BY <1>3, <1>4

LEMMA TakesText ==
  ASSUME PipeInv, NEW r \in Requests, NEW s \in Stages, NEW x \in Texts,
         WithText(r, s, x)
  PROVE  \E p \in ProduceState :
            /\ produce' = [produce EXCEPT ![r] = p]
            /\ p.stage = s /\ p.spoken = produce[r].spoken
            /\ p.hit = produce[r].hit /\ p.text = x /\ p.ok = produce[r].ok
<1>0. produce \in [Requests -> ProduceState] /\ produce[r] \in ProduceState
  BY RequestIs
<1> DEFINE e == [produce[r] EXCEPT !.stage = s]
           f == [produce EXCEPT ![r] = e]
           p == [e EXCEPT !.text = x]
<1>1. /\ e \in ProduceState
      /\ e.stage = s /\ e.text = produce[r].text /\ e.spoken = produce[r].spoken
      /\ e.ok = produce[r].ok /\ e.hit = produce[r].hit
  BY <1>0 DEF ProduceState
<1>2. produce' = [f EXCEPT ![r].text = x]
  BY Zenon DEF WithText
<1> HIDE DEF e
<1>3. /\ p \in ProduceState
      /\ p.stage = s /\ p.spoken = produce[r].spoken
      /\ p.hit = produce[r].hit /\ p.text = x /\ p.ok = produce[r].ok
  BY <1>1 DEF ProduceState
<1>4. produce' = [produce EXCEPT ![r] = p]
  BY <1>0, <1>1, <1>2
<1> HIDE DEF p
<1> QED
  BY <1>3, <1>4

LEMMA TakesReport ==
  ASSUME PipeInv, NEW r \in Requests, NEW s \in Stages, NEW x \in BOOLEAN,
         WithReport(r, s, x)
  PROVE  \E p \in ProduceState :
            /\ produce' = [produce EXCEPT ![r] = p]
            /\ p.stage = s /\ p.spoken = produce[r].spoken
            /\ p.hit = produce[r].hit /\ p.text = produce[r].text /\ p.ok = x
<1>0. produce \in [Requests -> ProduceState] /\ produce[r] \in ProduceState
  BY RequestIs
<1> DEFINE e == [produce[r] EXCEPT !.stage = s]
           f == [produce EXCEPT ![r] = e]
           p == [e EXCEPT !.ok = x]
<1>1. /\ e \in ProduceState
      /\ e.stage = s /\ e.text = produce[r].text /\ e.spoken = produce[r].spoken
      /\ e.ok = produce[r].ok /\ e.hit = produce[r].hit
  BY <1>0 DEF ProduceState
<1>2. produce' = [f EXCEPT ![r].ok = x]
  BY Zenon DEF WithReport
<1> HIDE DEF e
<1>3. /\ p \in ProduceState
      /\ p.stage = s /\ p.spoken = produce[r].spoken
      /\ p.hit = produce[r].hit /\ p.text = produce[r].text /\ p.ok = x
  BY <1>1 DEF ProduceState
<1>4. produce' = [produce EXCEPT ![r] = p]
  BY <1>0, <1>1, <1>2
<1> HIDE DEF p
<1> QED
  BY <1>3, <1>4

LEMMA QueueKept ==
  ASSUME PipeInv, NEW r \in Requests, UNCHANGED queue
  PROVE  queue' = [queue EXCEPT ![r] = queue[r]] /\ queue[r] \in QueueState
BY RequestIs

\* Nothing is heard before the provider speaks.
LEMMA EarlyStepKeeps ==
  ASSUME PipeInv, NEW r \in Requests,
         Start(r) \/ LookupHits(r) \/ LookupMisses(r) \/ Translate(r) \/ Dispatch(r)
  PROVE  PipeInv' /\ \A s \in Requests : Settled(s)
<1> DEFINE q == queue[r]
<1>0. /\ Local(r, produce[r], q) /\ queue' = [queue EXCEPT ![r] = q] /\ q \in QueueState
      /\ produce[r] \in ProduceState
      /\ q = Untouched /\ produce[r].spoken = <<>>
  <2>1. UNCHANGED queue /\ produce[r].stage \in {"idle", "lookup", "translate", "dispatch"}
    BY DEF Start, LookupHits, LookupMisses, Translate, Dispatch, At
  <2>2. Local(r, produce[r], q) /\ produce[r] \in ProduceState
    BY RequestIs
  <2> QED
    BY <2>1, <2>2, QueueKept DEF Local
<1>1. ~q.done /\ ~q.leadIn /\ q.heard = <<>> /\ q.acc = <<>>
  BY <1>0 DEF Untouched
<1>2. CASE Start(r)
  <2>1. PICK s \in {"lookup", "translate"} : Goes(r, s) /\ (s = "lookup" => Cacheable(r))
    BY <1>2 DEF Start
  <2>2. PICK p \in ProduceState : /\ produce' = [produce EXCEPT ![r] = p]
                                  /\ p.stage = s /\ p.spoken = <<>>
    BY <2>1, <1>0, GoesIs DEF Stages
  <2>3. Local(r, p, q)
    BY <2>1, <2>2, <1>0, <1>1 DEF Local
  <2>4. CacheTypeOK' /\ FromPlayed(r)
    BY <1>2, UncachedMoves DEF Start
  <2> QED
    BY <2>2, <2>3, <2>4, <1>0, OneMoves
<1>3. CASE LookupMisses(r)
  <2>1. PICK p \in ProduceState : /\ produce' = [produce EXCEPT ![r] = p]
                                  /\ p.stage = "translate" /\ p.spoken = <<>>
    BY <1>0, <1>3, GoesIs DEF LookupMisses, Stages
  <2>2. Local(r, p, q)
    BY <2>1, <1>0, <1>1 DEF Local
  <2>3. KeyOf[r] \in Keys /\ Lookup(KeyOf[r])
    <3>1. Cacheable(r)
      BY <1>0, <1>3 DEF Local, LookupMisses, At
    <3> QED
      BY <3>1, <1>3, RequestIs DEF LookupMisses
  <2>4. CacheTypeOK' /\ FromPlayed(r)
    BY <2>3, LookupIs
  <2> QED
    BY <2>1, <2>2, <2>4, <1>0, OneMoves
<1>4. CASE LookupHits(r)
  <2>1. /\ Cacheable(r) /\ KeyOf[r] \in Keys /\ Lookup(KeyOf[r]) /\ answer'[2] # NoAudio
        /\ WithHit(r, "replay", answer'[2])
    <3>1. Cacheable(r)
      BY <1>0, <1>4 DEF Local, LookupHits, At
    <3> QED
      BY <3>1, <1>4, RequestIs DEF LookupHits, WithHit
  <2>2. CacheTypeOK' /\ FromPlayed(r) /\ answer'[2] \in Utterances(KeyOf[r])
        /\ answer'[2] \in Audio
    BY <2>1, LookupIs, UtterancesAre
  <2>3. PICK p \in ProduceState : /\ produce' = [produce EXCEPT ![r] = p]
                                  /\ p.stage = "replay" /\ p.spoken = <<>> /\ p.hit = answer'[2]
    <3>1. "replay" \in Stages
      BY DEF Stages
    <3> QED
      BY <3>1, <2>1, <2>2, <1>0, TakesHit
  <2>4. Local(r, p, q)
    BY <2>1, <2>2, <2>3, <1>0, <1>1 DEF Local
  <2> QED
    BY <2>2, <2>3, <2>4, <1>0, OneMoves
<1>5. CASE Translate(r)
  <2>1. PICK t \in Texts : WithText(r, "dispatch", t)
    BY <1>5 DEF Translate, Texts, WithText
  <2>2. PICK p \in ProduceState : /\ produce' = [produce EXCEPT ![r] = p]
                                  /\ p.stage = "dispatch" /\ p.spoken = <<>>
    <3>1. "dispatch" \in Stages
      BY DEF Stages
    <3> QED
      BY <3>1, <2>1, <1>0, TakesText
  <2>3. Local(r, p, q)
    BY <2>2, <1>0, <1>1 DEF Local
  <2>4. CacheTypeOK' /\ FromPlayed(r)
    BY <1>5, UncachedMoves DEF Translate
  <2> QED
    BY <2>2, <2>3, <2>4, <1>0, OneMoves
<1>6. CASE Dispatch(r)
  <2>1. PICK p \in ProduceState : /\ produce' = [produce EXCEPT ![r] = p]
                                  /\ p.stage = "speak" /\ p.spoken = <<>>
    BY <1>0, <1>6, GoesIs DEF Dispatch, Stages
  <2>2. Local(r, p, q)
    BY <2>1, <1>0, <1>1 DEF Local, Lead
  <2>3. CacheTypeOK' /\ FromPlayed(r)
    BY <1>6, UncachedMoves DEF Dispatch
  <2> QED
    BY <2>1, <2>2, <2>3, <1>0, OneMoves
<1> QED
  BY <1>2, <1>3, <1>4, <1>5, <1>6

LEMMA PushIs ==
  ASSUME PipeInv, NEW r \in Requests, NEW segments \in Seq(Segments)
  PROVE  /\ Push(r, segments) \in QueueState
         /\ Push(r, segments).heard = queue[r].heard \o segments
         /\ Push(r, segments).acc =
              IF Cacheable(r) THEN queue[r].acc \o segments ELSE queue[r].acc
         /\ Push(r, segments).leadIn = queue[r].leadIn
         /\ Push(r, segments).failed = queue[r].failed
         /\ Push(r, segments).done = queue[r].done
<1>0. queue[r] \in QueueState
  BY RequestIs
<1>1. /\ queue[r].heard \in Seq(Segments) /\ queue[r].acc \in Seq(Segments)
      /\ queue[r].leadIn \in BOOLEAN /\ queue[r].failed \in BOOLEAN /\ queue[r].done \in BOOLEAN
  BY <1>0 DEF QueueState
<1>2. queue[r].heard \o segments \in Seq(Segments) /\ queue[r].acc \o segments \in Seq(Segments)
  BY <1>1, ConcatProperties
<1> DEFINE h == queue[r].heard \o segments
           e == [queue[r] EXCEPT !.heard = h]
           a == IF Cacheable(r) THEN queue[r].acc \o segments ELSE queue[r].acc
           q == [e EXCEPT !.acc = a]
<1> HIDE DEF h
<1>3. /\ e \in QueueState /\ e.heard = h /\ e.acc = queue[r].acc
      /\ e.leadIn = queue[r].leadIn /\ e.failed = queue[r].failed /\ e.done = queue[r].done
  BY <1>0, <1>2 DEF QueueState, h
<1>4. Push(r, segments) = [e EXCEPT !.acc = IF Cacheable(r) THEN @ \o segments ELSE @]
  BY Zenon DEF Push, h
<1> HIDE DEF e
<1>5. Push(r, segments) = q
  BY <1>3, <1>4
<1>6. a \in Seq(Segments)
  BY <1>1, <1>2
<1> HIDE DEF a
<1>7. /\ q \in QueueState /\ q.heard = h /\ q.acc = a
      /\ q.leadIn = queue[r].leadIn /\ q.failed = queue[r].failed /\ q.done = queue[r].done
  BY <1>3, <1>6 DEF QueueState
<1> QED
  BY <1>5, <1>7 DEF h, a

LEMMA PaddedPushIs ==
  ASSUME PipeInv, NEW r \in Requests, NEW segments \in Seq(Segments)
  PROVE  /\ PaddedPush(r, segments) \in QueueState
         /\ PaddedPush(r, segments).done = queue[r].done
         /\ Cacheable(r) =>
              /\ PaddedPush(r, segments).leadIn = TRUE
              /\ PaddedPush(r, segments).heard =
                   queue[r].heard \o (IF queue[r].leadIn THEN segments ELSE <<Silence>> \o segments)
              /\ PaddedPush(r, segments).acc =
                   queue[r].acc \o (IF queue[r].leadIn THEN segments ELSE <<Silence>> \o segments)
<1>0. queue[r] \in QueueState /\ queue[r].leadIn \in BOOLEAN
  BY RequestIs DEF QueueState
<1>1. CASE Cacheable(r) /\ ~queue[r].leadIn
  <2> DEFINE led == <<Silence>> \o segments
             e == Push(r, led)
             q == [e EXCEPT !.leadIn = TRUE]
  <2>1. led \in Seq(Segments)
    BY SilenceIsSegment, ConcatProperties
  <2>2. PaddedPush(r, segments) = q
    BY <1>1 DEF PaddedPush
  <2> HIDE DEF led
  <2>3. /\ e \in QueueState /\ e.heard = queue[r].heard \o led
        /\ e.acc = queue[r].acc \o led /\ e.done = queue[r].done
    BY <2>1, <1>1, PushIs
  <2> HIDE DEF e
  <2>4. /\ q \in QueueState /\ q.heard = queue[r].heard \o led
        /\ q.acc = queue[r].acc \o led /\ q.done = queue[r].done /\ q.leadIn = TRUE
    BY <2>3 DEF QueueState
  <2> HIDE DEF q
  <2> QED
    BY <2>2, <2>4, <1>1 DEF led
<1>2. CASE ~(Cacheable(r) /\ ~queue[r].leadIn)
  <2>1. PaddedPush(r, segments) = Push(r, segments)
    BY <1>2 DEF PaddedPush
  <2> QED
    BY <2>1, <1>0, <1>2, PushIs
<1> QED
  BY <1>1, <1>2

\* The provider pushes on: what was heard is the lead-in and what is spoken so
\* far, and so is the copy.
LEMMA PushKeeps ==
  ASSUME PipeInv, NEW r \in Requests, ProviderPushes(r)
  PROVE  PipeInv' /\ \A s \in Requests : Settled(s)
<1> DEFINE said == produce[r].spoken
           t    == produce[r].text
<1>0. PICK ps \in Chunks(Provider(r)) :
         /\ said \o ps \in Portions(Provider(r))
         /\ produce' = [produce EXCEPT ![r].spoken = @ \o ps]
         /\ queue' = [queue EXCEPT ![r] = PaddedPush(r, Speech(KeyOf[r], t, ps))]
  BY DEF ProviderPushes
<1> DEFINE all == said \o ps
           new == Speech(KeyOf[r], t, ps)
           q   == PaddedPush(r, new)
           p   == [produce[r] EXCEPT !.spoken = all]
<1>1. /\ produce[r] \in ProduceState /\ queue[r] \in QueueState
      /\ KeyOf[r] \in Keys \cup {NoKey} /\ Provider(r) \in ProviderKinds
      /\ Local(r, produce[r], queue[r]) /\ queue[r].leadIn \in BOOLEAN
      /\ produce \in [Requests -> ProduceState]
  BY RequestIs DEF QueueState
<1>2. /\ said \in Increasing /\ t \in Texts /\ At(r, "speak") /\ UNCHANGED cacheVars
      /\ queue' = [queue EXCEPT ![r] = q]
  BY <1>0, <1>1 DEF ProduceState, ProviderPushes
<1>3. /\ said \in Seq(1..Pieces) /\ ps \in Seq(1..Pieces) \ {<<>>}
      /\ all \in Increasing /\ all \in Portions(Provider(r)) /\ all # <<>>
      /\ Provider(r) = "rest" => all = UpTo(Pieces)
  <2>1. said \in Seq(1..Pieces) /\ ps \in Seq(1..Pieces) \ {<<>>}
    BY <1>0, <1>2, IncreasingIs
  <2>2. all \in Increasing /\ all \in Portions(Provider(r))
    BY <1>0, IncreasingIs
  <2>3. Len(all) = Len(said) + Len(ps) /\ Len(all) # 0
    BY <2>1, ConcatProperties, EmptySeq
  <2>4. ASSUME Provider(r) = "rest" PROVE all = UpTo(Pieces)
    <3>1. ps = UpTo(Pieces) /\ said \in {<<>>, UpTo(Pieces)} /\ all \in Increasing
      BY <1>0, <1>1, <2>2, <2>4 DEF Chunks, Local
    <3>2. said # UpTo(Pieces)
      BY <2>1, <3>1, TwiceIsNotIncreasing
    <3> QED
      BY <2>1, <3>1, <3>2, ConcatEmptySeq
  <2> QED
    BY <2>1, <2>2, <2>3, <2>4
<1>4. /\ p \in ProduceState /\ p.stage = "speak" /\ p.spoken = all /\ p.text = t
      /\ produce' = [produce EXCEPT ![r] = p]
  BY <1>0, <1>1, <1>2, <1>3 DEF ProduceState, At
<1>5. /\ new \in Seq(Segments)
      /\ said # <<>> => Lead(KeyOf[r], t, said) \o new = Lead(KeyOf[r], t, all)
      /\ said = <<>> => Lead(KeyOf[r], t, said) \o (<<Silence>> \o new) = Lead(KeyOf[r], t, all)
  BY <1>1, <1>2, <1>3, LeadGrows
<1> HIDE DEF new, all, p
<1>6. /\ q \in QueueState /\ q.done = queue[r].done
      /\ Cacheable(r) =>
           /\ q.leadIn = TRUE
           /\ q.heard = queue[r].heard \o (IF queue[r].leadIn THEN new ELSE <<Silence>> \o new)
           /\ q.acc = queue[r].acc \o (IF queue[r].leadIn THEN new ELSE <<Silence>> \o new)
  BY <1>5, PaddedPushIs
<1> HIDE DEF q
<1>7. ~queue[r].done
  BY <1>1, <1>2 DEF Local, At
<1>8. Cacheable(r) => q.heard = Lead(KeyOf[r], t, all) /\ q.acc = q.heard
  <2> SUFFICES ASSUME Cacheable(r)
               PROVE  q.heard = Lead(KeyOf[r], t, all) /\ q.acc = q.heard
    OBVIOUS
  <2>1. /\ queue[r].leadIn <=> said # <<>>
        /\ queue[r].heard = Lead(KeyOf[r], t, said) /\ queue[r].acc = queue[r].heard
    BY <1>1, <1>2 DEF Local, At
  <2>2. CASE said = <<>>
    BY <2>1, <2>2, <1>5, <1>6
  <2>3. CASE said # <<>>
    BY <2>1, <2>3, <1>5, <1>6
  <2> QED
    BY <2>2, <2>3
<1>9. Local(r, p, q)
  <2>1. /\ all # <<>> /\ ~q.done /\ all \in Portions(Provider(r))
        /\ Provider(r) = "rest" => all = UpTo(Pieces)
    BY <1>3, <1>6, <1>7
  <2>2. p.stage = "speak" /\ p.spoken = all /\ p.text = t
    BY <1>4
  <2>3. Cacheable(r) => q.leadIn /\ q.heard = Lead(KeyOf[r], t, all) /\ q.acc = q.heard
    BY <1>6, <1>8
  <2> HIDE DEF t, said
  <2> QED
    BY <2>1, <2>2, <2>3 DEF Local
<1>10. CacheTypeOK' /\ FromPlayed(r)
  BY <1>2, UncachedMoves
<1> QED
  BY <1>2, <1>4, <1>6, <1>7, <1>9, <1>10, OneMoves

\* The provider stops, whatever it reports.
LEMMA StopKeeps ==
  ASSUME PipeInv, NEW r \in Requests, ProviderStops(r)
  PROVE  PipeInv' /\ \A s \in Requests : Settled(s)
<1> DEFINE q == queue[r]
<1>1. PICK o \in Reports(r) : WithReport(r, "pad", o)
  BY DEF ProviderStops, WithReport
<1>2. /\ Local(r, produce[r], q) /\ produce[r] \in ProduceState /\ q \in QueueState
      /\ queue' = [queue EXCEPT ![r] = q] /\ At(r, "speak") /\ UNCHANGED cacheVars
      /\ Provider(r) \in ProviderKinds
  BY RequestIs, QueueKept DEF ProviderStops
<1>3. /\ o \in BOOLEAN
      /\ o /\ ReportsErrors(Provider(r)) => produce[r].spoken \in {<<>>, UpTo(Pieces)}
  <2>1. Provider(r) = "piper" => o \in BOOLEAN /\ (o => produce[r].spoken = UpTo(Pieces))
    BY <1>1 DEF Reports
  <2>2. Provider(r) \in {"socket", "openai"} => o \in BOOLEAN
    BY <1>1 DEF Reports
  <2>3. Provider(r) \in {"rest", "tone"} => o \in BOOLEAN
    BY <1>1 DEF Reports
  <2>4. Provider(r) = "rest" => produce[r].spoken \in {<<>>, UpTo(Pieces)}
    BY <1>2 DEF Local
  <2>5. Provider(r) = "tone" => produce[r].spoken = UpTo(Pieces)
    BY DEF ProviderStops
  <2> QED
    BY <2>1, <2>2, <2>3, <2>4, <2>5, <1>2 DEF ProviderKinds, ReportsErrors
<1>4. PICK p \in ProduceState :
         /\ produce' = [produce EXCEPT ![r] = p]
         /\ p.stage = "pad" /\ p.spoken = produce[r].spoken /\ p.text = produce[r].text
         /\ p.ok = o
  <2>1. "pad" \in Stages
    BY DEF Stages
  <2> QED
    BY <2>1, <1>1, <1>3, TakesReport
<1>5. Local(r, p, q)
  BY <1>2, <1>3, <1>4 DEF Local, At
<1>6. CacheTypeOK' /\ FromPlayed(r)
  BY <1>2, UncachedMoves
<1> QED
  BY <1>2, <1>4, <1>5, <1>6, OneMoves

\* The silence that leads out follows whatever was heard, and nothing if nothing was.
LEMMA PadKeeps ==
  ASSUME PipeInv, NEW r \in Requests, TrailingPad(r)
  PROVE  PipeInv' /\ \A s \in Requests : Settled(s)
<1> DEFINE m == produce[r].spoken
           t == produce[r].text
<1>1. /\ At(r, "pad") /\ Goes(r, "markDone") /\ UNCHANGED cacheVars
      /\ queue[r].leadIn => queue' = [queue EXCEPT ![r] = Push(r, <<Silence>>)]
      /\ ~queue[r].leadIn => UNCHANGED queue
  BY DEF TrailingPad
<1>2. /\ Local(r, produce[r], queue[r]) /\ produce[r] \in ProduceState
      /\ queue[r] \in QueueState /\ queue[r].leadIn \in BOOLEAN
      /\ KeyOf[r] \in Keys \cup {NoKey}
  BY RequestIs DEF QueueState
<1>3. PICK p \in ProduceState :
         /\ produce' = [produce EXCEPT ![r] = p]
         /\ p.stage = "markDone" /\ p.spoken = m /\ p.text = t /\ p.ok = produce[r].ok
  BY <1>1, GoesIs DEF Stages
<1>4. m \in Seq(1..Pieces) /\ t \in Texts
  BY <1>2, IncreasingIs DEF ProduceState
<1>5. CacheTypeOK' /\ FromPlayed(r) /\ ~queue[r].done
  BY <1>1, <1>2, UncachedMoves DEF Local, At
<1>6. Cacheable(r) => /\ queue[r].leadIn <=> m # <<>>
                      /\ queue[r].heard = Lead(KeyOf[r], t, m)
                      /\ queue[r].acc = queue[r].heard
  BY <1>1, <1>2 DEF Local, At
<1>7. CASE queue[r].leadIn
  <2> DEFINE q == Push(r, <<Silence>>)
  <2>1. /\ q \in QueueState /\ q.done = queue[r].done
        /\ q.heard = queue[r].heard \o <<Silence>>
        /\ Cacheable(r) => q.acc = queue[r].acc \o <<Silence>>
    BY SilenceIsSegment, PushIs
  <2> HIDE DEF q
  <2>2. Cacheable(r) => q.heard = Whole(KeyOf[r], t, m) /\ q.acc = q.heard
    BY <2>1, <1>2, <1>4, <1>6, <1>7, LeadIs
  <2>3. Local(r, p, q)
    BY <2>1, <2>2, <1>1, <1>2, <1>3, <1>5 DEF Local, At
  <2>4. queue' = [queue EXCEPT ![r] = q]
    BY <1>1, <1>7 DEF q
  <2> QED
    BY <2>1, <2>3, <2>4, <1>3, <1>5, OneMoves
<1>8. CASE ~queue[r].leadIn
  <2> DEFINE q == queue[r]
  <2>1. queue' = [queue EXCEPT ![r] = q]
    BY <1>1, <1>8, QueueKept
  <2>2. Cacheable(r) => q.heard = Whole(KeyOf[r], t, m) /\ q.acc = q.heard
    BY <1>6, <1>8 DEF Whole, Lead
  <2>3. Local(r, p, q)
    BY <2>2, <1>1, <1>2, <1>3, <1>5 DEF Local, At
  <2> QED
    BY <2>1, <2>3, <1>2, <1>3, <1>5, OneMoves
<1> QED
  BY <1>2, <1>7, <1>8

\* The queue is marked done behind the last sample, or after an abort.
LEMMA DoneKeeps ==
  ASSUME PipeInv, NEW r \in Requests, ForwardDone(r)
  PROVE  PipeInv' /\ \A s \in Requests : Settled(s)
<1> DEFINE q == [queue[r] EXCEPT !.done = TRUE]
<1>1. /\ At(r, "markDone") \/ At(r, "abort")
      /\ Cacheable(r) => Goes(r, "finalize")
      /\ ~Cacheable(r) => Ends(r)
      /\ queue' = [queue EXCEPT ![r] = q] /\ UNCHANGED cacheVars
  BY DEF ForwardDone
<1>2. /\ Local(r, produce[r], queue[r]) /\ produce[r] \in ProduceState /\ queue[r] \in QueueState
      /\ KeyOf[r] \in Keys \cup {NoKey}
      /\ Cacheable(r) <=> Provider(r) # "tone"
  BY RequestIs
<1>3. q \in QueueState /\ q.done = TRUE /\ q.heard = queue[r].heard /\ q.acc = queue[r].acc
  BY <1>2 DEF QueueState
<1>4. CacheTypeOK' /\ FromPlayed(r)
  BY <1>1, UncachedMoves
<1> HIDE DEF q
<1>5. CASE Cacheable(r)
  <2>1. PICK p \in ProduceState :
           /\ produce' = [produce EXCEPT ![r] = p]
           /\ p.stage = "finalize" /\ p.spoken = produce[r].spoken /\ p.text = produce[r].text
           /\ p.ok = produce[r].ok
    BY <1>1, <1>5, GoesIs DEF Stages
  <2>2. q.heard = Whole(KeyOf[r], p.text, p.spoken) /\ q.acc = q.heard
    BY <2>1, <1>1, <1>2, <1>3, <1>5 DEF Local, At, Whole
  <2>3. /\ Provider(r) = "rest" => p.spoken \in {<<>>, UpTo(Pieces)}
        /\ p.ok /\ ReportsErrors(Provider(r)) => p.spoken \in {<<>>, UpTo(Pieces)}
        /\ p.spoken # <<>> => p.spoken \in Portions(Provider(r))
    BY <2>1, <1>1, <1>2 DEF Local, At
  <2>4. Local(r, p, q)
    BY <2>1, <2>2, <2>3, <1>3, <1>5 DEF Local
  <2> QED
    BY <2>1, <2>4, <1>1, <1>3, <1>4, OneMoves
<1>6. CASE ~Cacheable(r)
  <2>1. PICK p \in ProduceState :
           /\ produce' = [produce EXCEPT ![r] = p]
           /\ p.stage = "ended" /\ p.spoken = <<>>
    BY <1>1, <1>6, EndsIs
  <2>2. Local(r, p, q)
    BY <2>1, <1>3, <1>6 DEF Local
  <2> QED
    BY <2>1, <2>2, <1>1, <1>3, <1>4, OneMoves
<1> QED
  BY <1>5, <1>6

LEMMA AbortKeeps ==
  ASSUME PipeInv, NEW r \in Requests, AbortPiper(r)
  PROVE  PipeInv' /\ \A s \in Requests : Settled(s)
<1> DEFINE q == [queue[r] EXCEPT !.failed = TRUE]
<1>1. /\ At(r, "dispatch") /\ Goes(r, "abort") /\ Provider(r) = "piper"
      /\ queue' = [queue EXCEPT ![r] = q] /\ UNCHANGED cacheVars
  BY DEF AbortPiper
<1>2. /\ Local(r, produce[r], queue[r]) /\ queue[r] \in QueueState
      /\ Cacheable(r) <=> Provider(r) # "tone"
  BY RequestIs
<1>3. queue[r] = Untouched /\ produce[r].spoken = <<>>
  BY <1>1, <1>2 DEF Local, At
<1>4. q \in QueueState /\ q.done = queue[r].done /\ q.heard = queue[r].heard /\ q.acc = queue[r].acc
  BY <1>2 DEF QueueState
<1> HIDE DEF q
<1>5. q.heard = <<>> /\ q.acc = <<>> /\ ~q.done
  BY <1>3, <1>4 DEF Untouched
<1>6. PICK p \in ProduceState : /\ produce' = [produce EXCEPT ![r] = p]
                                /\ p.stage = "abort" /\ p.spoken = <<>>
  BY <1>1, <1>3, GoesIs DEF Stages
<1>7. Local(r, p, q)
  BY <1>1, <1>2, <1>5, <1>6 DEF Local
<1>8. CacheTypeOK' /\ FromPlayed(r)
  BY <1>1, UncachedMoves
<1> QED
  BY <1>1, <1>4, <1>6, <1>7, <1>8, OneMoves

\* A copy that is committed is what was heard, and complete if a provider that
\* knows its errors reported none.
LEMMA CommitKeeps ==
  ASSUME PipeInv, NEW r \in Requests, Commit(r)
  PROVE  PipeInv' /\ \A s \in Requests : Settled(s)
<1> DEFINE k == KeyOf[r]
           a == queue[r].acc
           e == [queue[r] EXCEPT !.acc = <<>>]
           q == [e EXCEPT !.done = TRUE]
<1>1. /\ At(r, "finalize") /\ produce[r].ok /\ Ends(r)
      /\ a = <<>> => UNCHANGED cacheVars
      /\ a # <<>> => Store(k, a)
  BY DEF Commit
<1>2. /\ Local(r, produce[r], queue[r]) /\ produce[r] \in ProduceState /\ queue[r] \in QueueState
      /\ CacheTypeOK /\ queue \in [Requests -> QueueState]
      /\ Cacheable(r) => k \in Keys
  BY RequestIs
<1>3. queue' = [queue EXCEPT ![r] = q]
  <2> DEFINE f == [queue EXCEPT ![r] = e]
  <2>1. queue' = [f EXCEPT ![r].done = TRUE]
    BY Zenon DEF Commit
  <2> HIDE DEF e
  <2> QED
    BY <2>1, <1>2
<1>4. /\ e \in QueueState /\ e.heard = queue[r].heard
  <2>1. <<>> \in Seq(Segments)
    OBVIOUS
  <2> QED
    BY <2>1, <1>2 DEF QueueState
<1> HIDE DEF e
<1>5. q \in QueueState /\ q.done = TRUE /\ q.heard = queue[r].heard
  BY <1>4 DEF QueueState
<1> HIDE DEF q
<1>6. /\ Cacheable(r) /\ k \in Keys /\ queue[r].done
      /\ queue[r].heard = Whole(k, produce[r].text, produce[r].spoken) /\ a = queue[r].heard
      /\ ReportsErrors(Provider(r)) => produce[r].spoken \in {<<>>, UpTo(Pieces)}
      /\ produce[r].spoken # <<>> => produce[r].spoken \in Portions(Provider(r))
  BY <1>1, <1>2 DEF Local, At
<1>7. produce[r].text \in Texts
  BY <1>2 DEF ProduceState
<1>8. a # <<>> => /\ a \in Utterances(k) /\ a \in Audio
                  /\ ReportsErrors(ProviderOf[k]) => a \in Complete(k)
  <2> SUFFICES ASSUME a # <<>>
               PROVE  /\ a \in Utterances(k) /\ a \in Audio
                      /\ ReportsErrors(ProviderOf[k]) => a \in Complete(k)
    OBVIOUS
  <2>1. produce[r].spoken # <<>> /\ a = Padded(Speech(k, produce[r].text, produce[r].spoken))
    BY <1>6 DEF Whole
  <2>2. produce[r].spoken \in Portions(ProviderOf[k]) \ {<<>>}
    BY <2>1, <1>6 DEF Provider
  <2>3. a \in Utterances(k)
    BY <2>1, <2>2, <1>7 DEF Utterances
  <2>4. a \in Audio
    BY <2>3, <1>6, UtterancesAre
  <2>5. ReportsErrors(ProviderOf[k]) => a \in Complete(k)
    BY <2>1, <1>6, <1>7 DEF Complete, Provider
  <2> QED
    BY <2>3, <2>4, <2>5
<1>9. CASE a = <<>>
  <2>1. CacheTypeOK' /\ FromPlayed(r)
    BY <1>1, <1>9, UncachedMoves
  <2>2. PICK p \in ProduceState : /\ produce' = [produce EXCEPT ![r] = p]
                                  /\ p.stage = "ended" /\ p.spoken = <<>>
    BY <1>1, EndsIs
  <2>3. Local(r, p, q)
    BY <2>2, <1>5, <1>6, <1>9 DEF Local
  <2> QED
    BY <2>1, <2>2, <2>3, <1>3, <1>5, OneMoves
<1>10. CASE a # <<>>
  <2>1. PICK S \in SUBSET Keys : stored' = Without([stored EXCEPT ![k] = a], S)
    BY <1>1, <1>10 DEF Store
  <2>2. stored \in [Keys -> Audio \cup {NoAudio}]
    BY <1>2 DEF CacheTypeOK
  <2>3. \A x \in Keys : stored'[x] = IF x \in S THEN NoAudio ELSE IF x = k THEN a ELSE stored[x]
    BY <2>1, <2>2 DEF Without
  <2>4. stored' \in [Keys -> Audio \cup {NoAudio}]
    BY <2>1, <2>2, <1>8, <1>10 DEF Without
  <2>5. CacheTypeOK'
    BY <2>4, <1>1, <1>2, <1>10 DEF CacheTypeOK, Store
  <2>6. queue'[r] = q
    BY <1>2, <1>3
  <2>7. FromPlayed(r)
    BY <2>3, <2>6, <1>5, <1>6, <1>8, <1>10 DEF FromPlayed
  <2>8. PICK p \in ProduceState : /\ produce' = [produce EXCEPT ![r] = p]
                                  /\ p.stage = "ended" /\ p.spoken = <<>>
    BY <1>1, EndsIs
  <2>9. Local(r, p, q)
    BY <2>8, <1>5, <1>6, <1>8, <1>10 DEF Local
  <2> QED
    BY <2>5, <2>7, <2>8, <2>9, <1>3, <1>5, OneMoves
<1> QED
  BY <1>9, <1>10

\* A copy that is discarded leaves the cache alone.
LEMMA DiscardKeeps ==
  ASSUME PipeInv, NEW r \in Requests, Discard(r)
  PROVE  PipeInv' /\ \A s \in Requests : Settled(s)
<1> DEFINE b == queue[r].failed \/ ~produce[r].ok
           e == [queue[r] EXCEPT !.failed = b]
           q == [e EXCEPT !.done = TRUE]
<1>1. At(r, "finalize") /\ Ends(r) /\ UNCHANGED cacheVars
  BY DEF Discard
<1>2. /\ Local(r, produce[r], queue[r]) /\ produce[r] \in ProduceState /\ queue[r] \in QueueState
      /\ queue \in [Requests -> QueueState]
      /\ queue[r].failed \in BOOLEAN /\ produce[r].ok \in BOOLEAN
  BY RequestIs DEF QueueState, ProduceState
<1>3. queue' = [queue EXCEPT ![r] = q]
  <2> DEFINE f == [queue EXCEPT ![r] = e]
  <2>1. queue' = [f EXCEPT ![r].done = TRUE]
    BY Zenon DEF Discard
  <2> HIDE DEF e
  <2> QED
    BY <2>1, <1>2
<1>4. b \in BOOLEAN
  OBVIOUS
<1> HIDE DEF b
<1>5. /\ e \in QueueState /\ e.heard = queue[r].heard
  BY <1>2, <1>4 DEF QueueState
<1> HIDE DEF e
<1>6. q \in QueueState /\ q.done = TRUE /\ q.heard = queue[r].heard
  BY <1>5 DEF QueueState
<1> HIDE DEF q
<1>7. /\ queue[r].done /\ Cacheable(r)
      /\ queue[r].heard = Whole(KeyOf[r], produce[r].text, produce[r].spoken)
      /\ produce[r].spoken # <<>> => produce[r].spoken \in Portions(Provider(r))
  BY <1>1, <1>2 DEF Local, At
<1>8. produce[r].text \in Texts
  BY <1>2 DEF ProduceState
<1>9. q.heard \in {<<>>} \cup Utterances(KeyOf[r])
  BY <1>6, <1>7, <1>8 DEF Whole, Utterances, Provider
<1>10. PICK p \in ProduceState : /\ produce' = [produce EXCEPT ![r] = p]
                                 /\ p.stage = "ended" /\ p.spoken = <<>>
  BY <1>1, EndsIs
<1>11. Local(r, p, q)
  BY <1>6, <1>7, <1>9, <1>10 DEF Local
<1>12. CacheTypeOK' /\ FromPlayed(r)
  BY <1>1, UncachedMoves
<1> QED
  BY <1>3, <1>6, <1>10, <1>11, <1>12, OneMoves

\* A replay plays the hit, which is an utterance, and then marks the queue done.
LEMMA ReplayKeeps ==
  ASSUME PipeInv, NEW r \in Requests, Replay(r) \/ ReplayDone(r)
  PROVE  PipeInv' /\ \A s \in Requests : Settled(s)
<1>1. /\ Local(r, produce[r], queue[r]) /\ produce[r] \in ProduceState /\ queue[r] \in QueueState
      /\ Cacheable(r) => KeyOf[r] \in Keys
  BY RequestIs
<1>2. CacheTypeOK' /\ FromPlayed(r)
  BY UncachedMoves DEF Replay, ReplayDone
<1>3. CASE Replay(r)
  <2> DEFINE q == [queue[r] EXCEPT !.heard = queue[r].heard \o produce[r].hit]
  <2>1. At(r, "replay") /\ Goes(r, "replayed") /\ queue' = [queue EXCEPT ![r] = q]
    BY <1>3 DEF Replay
  <2>2. /\ queue[r].heard = <<>> /\ produce[r].hit \in Utterances(KeyOf[r]) /\ Cacheable(r)
        /\ ~queue[r].done
    BY <2>1, <1>1 DEF Local, At
  <2>3. produce[r].hit \in Seq(Segments)
    BY <2>2, <1>1, UtterancesAre
  <2>4. queue[r].heard \o produce[r].hit = produce[r].hit
    BY <2>2, <2>3, ConcatEmptySeq
  <2>5. q \in QueueState /\ q.heard = produce[r].hit /\ q.done = queue[r].done
    BY <2>3, <2>4, <1>1 DEF QueueState
  <2> HIDE DEF q
  <2>6. PICK p \in ProduceState :
           /\ produce' = [produce EXCEPT ![r] = p]
           /\ p.stage = "replayed" /\ p.spoken = produce[r].spoken /\ p.hit = produce[r].hit
    BY <2>1, GoesIs DEF Stages
  <2>7. Local(r, p, q)
    BY <2>1, <2>2, <2>5, <2>6, <1>1 DEF Local, At
  <2> QED
    BY <2>1, <2>2, <2>5, <2>6, <2>7, <1>2, OneMoves
<1>4. CASE ReplayDone(r)
  <2> DEFINE q == [queue[r] EXCEPT !.done = TRUE]
  <2>1. At(r, "replayed") /\ Ends(r) /\ queue' = [queue EXCEPT ![r] = q]
    BY <1>4 DEF ReplayDone
  <2>2. /\ queue[r].heard \in Utterances(KeyOf[r]) /\ Cacheable(r) /\ ~queue[r].done
    BY <2>1, <1>1 DEF Local, At
  <2>3. q \in QueueState /\ q.heard = queue[r].heard /\ q.done = TRUE
    BY <1>1 DEF QueueState
  <2> HIDE DEF q
  <2>4. PICK p \in ProduceState : /\ produce' = [produce EXCEPT ![r] = p]
                                  /\ p.stage = "ended" /\ p.spoken = <<>>
    BY <2>1, EndsIs
  <2>5. Local(r, p, q)
    BY <2>2, <2>3, <2>4 DEF Local
  <2> QED
    BY <2>1, <2>2, <2>3, <2>4, <2>5, <1>2, OneMoves
<1> QED
  BY <1>3, <1>4

\* What the cache forgets nobody has to have played.
LEMMA ForgetKeeps ==
  ASSUME PipeInv, CacheForgets \/ UNCHANGED vars
  PROVE  PipeInv' /\ \A s \in Requests : Settled(s)
<1>1. produce' = produce /\ queue' = queue
  BY DEF CacheForgets, vars
<1>2. \E S \in SUBSET Keys : stored' = Without(stored, S)
  <2>1. stored \in [Keys -> Audio \cup {NoAudio}]
    BY DEF PipeInv, TypeOK, CacheTypeOK
  <2>2. stored = Without(stored, {})
    BY <2>1 DEF Without
  <2> QED
    BY <2>2 DEF CacheForgets, Forget, vars
<1>3. PICK S \in SUBSET Keys : stored' = Without(stored, S)
  BY <1>2
<1>4. \A k \in Keys : stored'[k] \in {stored[k], NoAudio}
  BY <1>3 DEF Without
<1>5. answer' = answer
  BY DEF CacheForgets, Forget, vars
<1>6. stored' \in [Keys -> Audio \cup {NoAudio}]
  BY <1>3 DEF PipeInv, TypeOK, CacheTypeOK, Without
<1>7. TypeOK'
  BY <1>1, <1>5, <1>6 DEF PipeInv, TypeOK, CacheTypeOK
<1>8. CacheInv'
  BY <1>1, <1>4 DEF PipeInv, CacheInv, Played
<1>9. \A r \in Requests : Local(r, produce[r], queue[r])
  BY DEF PipeInv
<1> QED
  BY <1>1, <1>7, <1>8, <1>9 DEF PipeInv, Settled

LEMMA PipeInit == Init => PipeInv
<1> SUFFICES ASSUME Init PROVE PipeInv
  OBVIOUS
<1>1. CacheTypeOK
  BY DEF Init, CacheInit, CacheTypeOK
<1>2. Fresh \in ProduceState /\ Fresh.stage = "idle" /\ Fresh.spoken = <<>>
  BY IncreasingIs DEF Fresh, ProduceState, Stages, Texts
<1>3. Untouched \in QueueState /\ ~Untouched.done
  BY DEF Untouched, QueueState
<1>4. produce = [r \in Requests |-> Fresh] /\ queue = [r \in Requests |-> Untouched]
  BY DEF Init, Untouched
<1>5. TypeOK
  BY <1>1, <1>2, <1>3, <1>4 DEF TypeOK
<1>6. ASSUME NEW r \in Requests PROVE Local(r, produce[r], queue[r])
  <2>1. Local(r, Fresh, Untouched)
    BY <1>2, <1>3 DEF Local
  <2> QED
    BY <2>1, <1>4
<1>7. CacheInv
  BY DEF Init, CacheInit, CacheInv
<1> QED
  BY <1>5, <1>6, <1>7 DEF PipeInv

LEMMA PipeStep == PipeInv /\ [Next]_vars => PipeInv' /\ \A s \in Requests : Settled(s)
<1> SUFFICES ASSUME PipeInv, [Next]_vars
             PROVE  PipeInv' /\ \A s \in Requests : Settled(s)
  OBVIOUS
<1>1. ASSUME NEW r \in Requests, Start(r) \/ Work(r)
      PROVE  PipeInv' /\ \A s \in Requests : Settled(s)
  <2>1. CASE Start(r) \/ LookupHits(r) \/ LookupMisses(r) \/ Translate(r) \/ Dispatch(r)
    BY <2>1, EarlyStepKeeps
  <2>2. CASE AbortPiper(r)
    BY <2>2, AbortKeeps
  <2>3. CASE ProviderPushes(r)
    BY <2>3, PushKeeps
  <2>4. CASE ProviderStops(r)
    BY <2>4, StopKeeps
  <2>5. CASE TrailingPad(r)
    BY <2>5, PadKeeps
  <2>6. CASE ForwardDone(r)
    BY <2>6, DoneKeeps
  <2>7. CASE Commit(r)
    BY <2>7, CommitKeeps
  <2>8. CASE Discard(r)
    BY <2>8, DiscardKeeps
  <2>9. CASE Replay(r) \/ ReplayDone(r)
    BY <2>9, ReplayKeeps
  <2> QED
    BY <1>1, <2>1, <2>2, <2>3, <2>4, <2>5, <2>6, <2>7, <2>8, <2>9 DEF Work
<1>2. CASE CacheForgets \/ UNCHANGED vars
  BY <1>2, ForgetKeeps
<1> QED
  BY <1>1, <1>2 DEF Next

LEMMA PipeAlways == Spec => []PipeInv
BY PipeInit, PipeStep, PTL DEF Spec

-----------------------------------------------------------------------------
(* The properties.                                                         *)

\* A request whose queue is done has played nothing or its own speech, in one
\* language, each piece at most once and in order, with silence once before and
\* once after it, whether a provider spoke it or the cache replayed it
\* (tts_pipeline.cpp:63-67); without gaps, unless OpenAI spoke it.
THEOREM HeardIsSpeechAlways == Spec => []HeardIsSpeech
<1>1. ASSUME PipeInv, NEW r \in Requests, Cacheable(r), queue[r].done
      PROVE  \/ queue[r].heard = <<>>
             \/ \E t \in Texts, ps \in Portions(Provider(r)) \ {<<>>} :
                   queue[r].heard = Padded(Speech(KeyOf[r], t, ps))
  <2>1. Local(r, produce[r], queue[r]) /\ produce[r] \in ProduceState
    BY <1>1, RequestIs
  <2>2. CASE produce[r].stage = "finalize"
    <3>1. queue[r].heard = Whole(KeyOf[r], produce[r].text, produce[r].spoken)
      BY <2>1, <2>2, <1>1 DEF Local
    <3>2. produce[r].text \in Texts
      BY <2>1 DEF ProduceState
    <3>3. produce[r].spoken # <<>> => produce[r].spoken \in Portions(Provider(r))
      BY <2>1 DEF Local
    <3> QED
      BY <3>1, <3>2, <3>3 DEF Whole
  <2>3. CASE produce[r].stage = "ended"
    BY <2>1, <2>3, <1>1 DEF Local, Utterances, Provider
  <2> QED
    BY <2>1, <2>2, <2>3, <1>1 DEF Local
<1>2. PipeInv => HeardIsSpeech
  BY <1>1 DEF HeardIsSpeech, PipeInv
<1> QED
  BY <1>2, PipeAlways, PTL

\* Once a queue is done nothing more is pushed into it: MarkDone comes after
\* the last push on every path through the queues, and no thread of the request
\* pushes after it (srs_backend.cpp:60).
THEOREM NothingAfterDoneAlways == Spec => NothingAfterDone
<1>1. PipeInv /\ [Next]_vars =>
        [\A r \in Requests : queue[r].done => queue'[r].heard = queue[r].heard]_vars
  BY PipeStep DEF Settled
<1> QED
  BY <1>1, PipeAlways, PTL DEF Spec, NothingAfterDone

\* The cache holds nothing but audio that a request with that key has played,
\* from its first silence to its last (pcm_cache.h:168).
THEOREM CachedAsHeardAlways == Spec => []CachedAsHeard
<1>1. PipeInv => CachedAsHeard
  BY DEF PipeInv, CacheInv, CachedAsHeard, Played
<1> QED
  BY <1>1, PipeAlways, PTL

\* What a provider that reports its errors has spoken is cached complete or not
\* at all (tts_pipeline.cpp:77-80).  WebSockets and OpenAI report success for part
\* of an utterance, and what they leave in the cache need not be complete: the
\* run of PipelineTruncated has the counterexample.
THEOREM CachedIsCompleteAlways == Spec => []CachedIsComplete
<1>1. PipeInv => CachedIsComplete
  BY DEF PipeInv, CacheInv, CachedIsComplete
<1> QED
  BY <1>1, PipeAlways, PTL

=============================================================================
