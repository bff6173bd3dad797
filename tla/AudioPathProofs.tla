--------------------------- MODULE AudioPathProofs --------------------------
(***************************************************************************)
(* Proofs about AudioPath, for any size of frames and chunks: no sample is *)
(* lost, doubled or out of order on its way through the two queues, the    *)
(* encoder's buffer and the timer, and what is played keeps the promise of *)
(* AudioStream.                                                            *)
(*                                                                         *)
(* FlattenSeq is a recursive function: what it computes is proved by       *)
(* induction, with a set of numbers that has 0 and every successor in the  *)
(* place of a predicate.                                                   *)
(***************************************************************************)
EXTENDS AudioPath, FunctionTheorems, FiniteSetTheorems, SequenceTheorems,
        WellFoundedInduction, TLAPS

-----------------------------------------------------------------------------
(* Induction.                                                              *)

LEMMA LeastNumber ==
  ASSUME NEW T, T \subseteq Nat, T # {}
  PROVE  \E x \in T : \A y \in T : x <= y
<1> DEFINE R == OpToRel(<, Nat)
<1>1. IsWellFoundedOn(R, Nat)
  BY NatLessThanWellFounded
<1> HIDE DEF R
<1>2. PICK x \in T : \A y \in T : ~ (<<y, x>> \in R)
  BY <1>1, WFMin
<1>3. \A y \in T : ~ (y < x)
  BY <1>2 DEF R, OpToRel
<1> QED
  BY <1>3

LEMMA NatSetInduction ==
  ASSUME NEW T, 0 \in T, \A n \in Nat : n \in T => n + 1 \in T
  PROVE  Nat \subseteq T
<1> SUFFICES ASSUME Nat \ T # {} PROVE FALSE
  OBVIOUS
<1>1. PICK x \in Nat \ T : \A y \in Nat \ T : x <= y
  BY LeastNumber
<1>2. x # 0
  OBVIOUS
<1>3. x - 1 \in Nat /\ x - 1 \in T
  BY <1>1, <1>2
<1> QED
  BY <1>1, <1>3

-----------------------------------------------------------------------------
(* FlattenSeq.                                                             *)

\* f has the concatenations of the first 1, 2, ... n sequences in seqs.
Flattens(f, seqs, n) ==
  f = [i \in 1..n |-> IF i = 1 THEN seqs[i] ELSE f[i - 1] \o seqs[i]]

LEMMA FlattensFirst ==
  ASSUME NEW f, NEW seqs, NEW n \in Nat, Flattens(f, seqs, n), 1 \in 1..n
  PROVE  f[1] = seqs[1]
BY Zenon DEF Flattens

LEMMA FlattensNext ==
  ASSUME NEW f, NEW seqs, NEW n \in Nat, Flattens(f, seqs, n),
         NEW i \in Nat, i # 0, i + 1 \in 1..n
  PROVE  f[i + 1] = f[i] \o seqs[i + 1]
<1>1. i + 1 # 1 /\ (i + 1) - 1 = i
  OBVIOUS
<1>2. f[i + 1] = IF i + 1 = 1 THEN seqs[i + 1] ELSE f[(i + 1) - 1] \o seqs[i + 1]
  BY Zenon DEF Flattens
<1> QED
  BY <1>1, <1>2, Zenon

LEMMA EmptyIs ==
  ASSUME NEW Q, NEW t \in Seq(Q)
  PROVE  Len(t) \in Nat /\ (t = <<>> <=> Len(t) = 0)
OBVIOUS

LEMMA FlattensExist ==
  ASSUME NEW seqs
  PROVE  \A n \in Nat : \E f : Flattens(f, seqs, n)
<1> DEFINE T == {n \in Nat : \E f : Flattens(f, seqs, n)}
<1>1. 0 \in T
  <2> DEFINE f == [i \in 1..0 |-> <<>>]
  <2>1. f = [i \in 1..0 |-> IF i = 1 THEN seqs[i] ELSE f[i - 1] \o seqs[i]]
    OBVIOUS
  <2> QED
    BY <2>1 DEF Flattens
<1>2. ASSUME NEW n \in Nat, n \in T PROVE n + 1 \in T
  <2>1. PICK f : Flattens(f, seqs, n)
    BY <1>2
  <2> DEFINE last == IF n + 1 = 1 THEN seqs[n + 1] ELSE f[n] \o seqs[n + 1]
             g == [i \in 1..(n + 1) |-> IF i = n + 1 THEN last ELSE f[i]]
  <2>2. \A i \in 1..(n + 1) : g[i] = IF i = 1 THEN seqs[i] ELSE g[i - 1] \o seqs[i]
    <3> TAKE i \in 1..(n + 1)
    <3>0. /\ \A j \in 1..(n + 1) : g[j] = IF j = n + 1 THEN last ELSE f[j]
          /\ i # 1 => i - 1 \in 1..(n + 1) /\ i - 1 # n + 1
          /\ i # n + 1 => i \in 1..n
      OBVIOUS
    <3> HIDE DEF g
    <3>1. CASE i = n + 1
      <4>1. g[i] = last
        BY <3>0, <3>1
      <4>2. (n + 1) - 1 = n
        OBVIOUS
      <4>3. i # 1 => g[i - 1] = f[n]
        BY <3>0, <3>1, <4>2
      <4> QED
        BY <3>1, <4>1, <4>3, Zenon
    <3>2. CASE i # n + 1
      <4>1. f[i] = IF i = 1 THEN seqs[i] ELSE f[i - 1] \o seqs[i]
        BY <3>0, <3>2, <2>1, Zenon DEF Flattens
      <4>2. g[i] = f[i]
        BY <3>0, <3>2
      <4>3. i # 1 => g[i - 1] = f[i - 1]
        BY <3>0
      <4> QED
        BY <4>1, <4>2, <4>3, Zenon
    <3> QED
      BY <3>1, <3>2
  <2>3. g = [i \in 1..(n + 1) |-> g[i]]
    OBVIOUS
  <2> HIDE DEF g
  <2>4. Flattens(g, seqs, n + 1)
    BY <2>2, <2>3 DEF Flattens
  <2> QED
    BY <2>4
<1> HIDE DEF T
<1>3. Nat \subseteq T
  BY <1>1, <1>2, NatSetInduction
<1> QED
  BY <1>3 DEF T

LEMMA FlattenSeqIs ==
  ASSUME NEW S, NEW seqs \in Seq(Seq(S))
  PROVE  \E f : /\ Flattens(f, seqs, Len(seqs))
                /\ FlattenSeq(seqs) = IF seqs = <<>> THEN <<>> ELSE f[Len(seqs)]
                /\ \A i \in 1..Len(seqs) : f[i] \in Seq(S)
<1> DEFINE f == CHOOSE g : g = [i \in 1..Len(seqs) |->
                                  IF i = 1 THEN seqs[i] ELSE g[i - 1] \o seqs[i]]
<1>0. Len(seqs) \in Nat /\ \A i \in 1..Len(seqs) : seqs[i] \in Seq(S)
  OBVIOUS
<1>1. Flattens(f, seqs, Len(seqs))
  BY <1>0, FlattensExist DEF Flattens
<1>2. Len(seqs) # 0 => FlattenSeq(seqs) = f[Len(seqs)]
  BY DEF FlattenSeq
<1>3. seqs = <<>> <=> Len(seqs) = 0
  OBVIOUS
<1>4. seqs = <<>> => FlattenSeq(seqs) = <<>>
  BY <1>3 DEF FlattenSeq
<1> HIDE DEF f
<1> DEFINE T == {i \in Nat : i \in 1..Len(seqs) => f[i] \in Seq(S)}
<1>5. 0 \in T
  OBVIOUS
<1>6. ASSUME NEW i \in Nat, i \in T PROVE i + 1 \in T
  <2> SUFFICES ASSUME i + 1 \in 1..Len(seqs) PROVE f[i + 1] \in Seq(S)
    OBVIOUS
  <2>1. CASE i = 0
    <3>1. 1 \in 1..Len(seqs)
      BY <1>0
    <3>2. f[1] = seqs[1]
      BY <3>1, <1>0, <1>1, FlattensFirst
    <3> QED
      BY <3>1, <3>2, <2>1, <1>0
  <2>2. CASE i # 0
    <3>1. f[i + 1] = f[i] \o seqs[i + 1]
      BY <2>2, <1>0, <1>1, FlattensNext
    <3>2. f[i] \in Seq(S) /\ seqs[i + 1] \in Seq(S)
      BY <2>2, <1>0, <1>6
    <3> QED
      BY <3>1, <3>2, ConcatProperties
  <2> QED
    BY <2>1, <2>2
<1> HIDE DEF T
<1>7. Nat \subseteq T
  BY <1>5, <1>6, NatSetInduction
<1>8. \A i \in 1..Len(seqs) : f[i] \in Seq(S)
  BY <1>0, <1>7 DEF T
<1> QED
  BY <1>1, <1>2, <1>3, <1>4, <1>8

LEMMA FlattenType ==
  ASSUME NEW S, NEW seqs \in Seq(Seq(S))
  PROVE  FlattenSeq(seqs) \in Seq(S)
<1>1. PICK f : /\ FlattenSeq(seqs) = IF seqs = <<>> THEN <<>> ELSE f[Len(seqs)]
               /\ \A i \in 1..Len(seqs) : f[i] \in Seq(S)
  BY FlattenSeqIs
<1>2. seqs # <<>> => Len(seqs) \in 1..Len(seqs)
  OBVIOUS
<1>3. <<>> \in Seq(S)
  OBVIOUS
<1> QED
  BY <1>1, <1>2, <1>3

LEMMA FlattenAppend ==
  ASSUME NEW S, NEW seqs \in Seq(Seq(S)), NEW e \in Seq(S)
  PROVE  FlattenSeq(Append(seqs, e)) = FlattenSeq(seqs) \o e
<1> DEFINE m == Len(seqs)
           t == Append(seqs, e)
<1>1. /\ m \in Nat /\ Len(t) = m + 1 /\ t[m + 1] = e /\ t # <<>>
      /\ \A i \in 1..m : t[i] = seqs[i]
      /\ t \in Seq(Seq(S))
  <2>1. seqs \in Seq(Seq(S)) /\ e \in Seq(S)
    OBVIOUS
  <2> DEFINE Q == Seq(S)
  <2> HIDE DEF Q
  <2>2. seqs \in Seq(Q) /\ e \in Q
    BY <2>1 DEF Q
  <2>3. /\ m \in Nat /\ Len(t) = m + 1 /\ t[m + 1] = e
        /\ \A i \in 1..m : t[i] = seqs[i]
        /\ t \in Seq(Q)
    BY <2>2
  <2>4. t # <<>>
    <3>1. m + 1 # 0
      BY <2>3
    <3> QED
      BY <3>1, <2>3, EmptyIs
  <2> QED
    BY <2>3, <2>4 DEF Q
<1> HIDE DEF t
<1>2. PICK f : /\ Flattens(f, seqs, m)
               /\ FlattenSeq(seqs) = IF seqs = <<>> THEN <<>> ELSE f[m]
  BY FlattenSeqIs
<1>3. PICK g : /\ Flattens(g, t, m + 1)
               /\ FlattenSeq(t) = g[m + 1]
  BY <1>1, FlattenSeqIs
<1> DEFINE T == {i \in Nat : i \in 1..m => g[i] = f[i]}
<1>4. 0 \in T
  OBVIOUS
<1>5. ASSUME NEW i \in Nat, i \in T PROVE i + 1 \in T
  <2> SUFFICES ASSUME i + 1 \in 1..m PROVE g[i + 1] = f[i + 1]
    OBVIOUS
  <2>0. m + 1 \in Nat /\ i + 1 \in 1..(m + 1) /\ t[i + 1] = seqs[i + 1]
        /\ 1 \in 1..m /\ 1 \in 1..(m + 1)
    BY <1>1
  <2>1. CASE i = 0
    <3>1. f[1] = seqs[1] /\ g[1] = t[1]
      BY <2>0, <1>1, <1>2, <1>3, FlattensFirst
    <3> QED
      BY <3>1, <2>0, <2>1
  <2>2. CASE i # 0
    <3>1. f[i + 1] = f[i] \o seqs[i + 1]
      BY <2>2, <1>1, <1>2, FlattensNext
    <3>2. g[i + 1] = g[i] \o t[i + 1]
      BY <2>0, <2>2, <1>3, FlattensNext, Zenon
    <3>3. g[i] = f[i]
      BY <2>2, <1>1, <1>5
    <3> QED
      BY <3>1, <3>2, <3>3, <2>0
  <2> QED
    BY <2>1, <2>2
<1> HIDE DEF T
<1>6. Nat \subseteq T
  BY <1>4, <1>5, NatSetInduction
<1>7. g[m + 1] = IF m = 0 THEN e ELSE g[m] \o e
  <2>1. m + 1 \in Nat /\ m + 1 \in 1..(m + 1) /\ 1 \in 1..(m + 1)
    BY <1>1
  <2>2. g[1] = t[1]
    BY <2>1, <1>3, FlattensFirst
  <2>3. m # 0 => g[m + 1] = g[m] \o t[m + 1]
    BY <2>1, <1>1, <1>3, FlattensNext
  <2>4. m = 0 => m + 1 = 1
    OBVIOUS
  <2>5. t[m + 1] = e
    BY <1>1
  <2> HIDE DEF m
  <2> QED
    BY <2>2, <2>3, <2>4, <2>5, Zenon
<1>8. m # 0 => g[m] = f[m]
  BY <1>1, <1>6 DEF T
<1>9. <<>> \o e = e
  BY ConcatEmptySeq
<1>10. seqs = <<>> <=> m = 0
  OBVIOUS
<1> HIDE DEF m
<1> QED
  BY <1>2, <1>3, <1>7, <1>8, <1>9, <1>10 DEF t

LEMMA FlattenHead ==
  ASSUME NEW S, NEW seqs \in Seq(Seq(S)), seqs # <<>>
  PROVE  FlattenSeq(seqs) = Head(seqs) \o FlattenSeq(Tail(seqs))
<1> DEFINE m == Len(seqs)
           h == Head(seqs)
           t == Tail(seqs)
<1>1. /\ m \in Nat /\ m # 0 /\ h = seqs[1] /\ h \in Seq(S)
      /\ t \in Seq(Seq(S)) /\ Len(t) = m - 1
      /\ \A i \in 1..(m - 1) : t[i] = seqs[i + 1] /\ t[i] \in Seq(S)
  OBVIOUS
<1> HIDE DEF t, h
<1>2. PICK f : /\ Flattens(f, seqs, m)
               /\ FlattenSeq(seqs) = f[m]
  <2>1. seqs \in Seq(Seq(S)) /\ seqs # <<>>
    OBVIOUS
  <2> QED
    BY <2>1, FlattenSeqIs, Zenon
<1> HIDE DEF m
<1>3. PICK g : /\ Flattens(g, t, m - 1)
               /\ FlattenSeq(t) = IF t = <<>> THEN <<>> ELSE g[m - 1]
               /\ \A i \in 1..(m - 1) : g[i] \in Seq(S)
  BY <1>1, FlattenSeqIs
<1>4. t = <<>> <=> m = 1
  BY <1>1, EmptyIs
<1>5. f[1] = h
  <2>1. 1 \in 1..m
    BY <1>1
  <2> QED
    BY <2>1, <1>1, <1>2, FlattensFirst
<1> DEFINE T == {i \in Nat : i \in 1..(m - 1) => f[i + 1] = h \o g[i]}
<1>6. 0 \in T
  OBVIOUS
<1>7. ASSUME NEW i \in Nat, i \in T PROVE i + 1 \in T
  <2> SUFFICES ASSUME i + 1 \in 1..(m - 1) PROVE f[(i + 1) + 1] = h \o g[i + 1]
    OBVIOUS
  <2>1. /\ m - 1 \in Nat /\ m - 1 # 0 /\ i + 1 \in Nat /\ i + 1 # 0
        /\ (i + 1) + 1 \in 1..m /\ i + 1 \in 1..(m - 1)
    BY <1>1
  <2>2. f[(i + 1) + 1] = f[i + 1] \o seqs[(i + 1) + 1]
    BY <2>1, <1>1, <1>2, FlattensNext, ZenonT(60)
  <2>3. t[i + 1] = seqs[(i + 1) + 1] /\ t[i + 1] \in Seq(S)
    BY <2>1, <1>1
  <2>4. CASE i = 0
    <3>1. 1 \in 1..(m - 1)
      BY <2>1, <2>4
    <3>2. g[1] = t[1]
      BY <3>1, <2>1, <1>3, FlattensFirst
    <3>3. f[1 + 1] = f[1] \o seqs[1 + 1] /\ t[1] = seqs[1 + 1]
      <4>1. i + 1 = 1
        BY <2>4
      <4> QED
        BY <4>1, <2>2, <2>3, Zenon
    <3>4. f[1 + 1] = h \o g[1]
      BY <3>2, <3>3, <1>5, Zenon
    <3> QED
      BY <3>4, <2>4
  <2>5. CASE i # 0
    <3>1. g[i + 1] = g[i] \o t[i + 1]
      BY <2>1, <2>5, <1>3, FlattensNext
    <3>2. f[i + 1] = h \o g[i] /\ g[i] \in Seq(S)
      <4>1. i \in 1..(m - 1)
        BY <2>1, <2>5
      <4> QED
        BY <4>1, <1>3, <1>7, Zenon
    <3>3. (h \o g[i]) \o t[i + 1] = h \o (g[i] \o t[i + 1])
      <4>1. \A a, b, c \in Seq(S) : (a \o b) \o c = a \o (b \o c)
        BY ConcatAssociative, SMTT(30)
      <4> QED
        BY <4>1, <3>2, <2>3, <1>1, Zenon
    <3> QED
      BY <3>1, <3>2, <3>3, <2>2, <2>3, Zenon
  <2> QED
    BY <2>4, <2>5
<1> HIDE DEF T
<1>8. Nat \subseteq T
  BY <1>6, <1>7, NatSetInduction
<1>9. m # 1 => f[m] = h \o g[m - 1]
  <2> SUFFICES ASSUME m # 1 PROVE f[m] = h \o g[m - 1]
    OBVIOUS
  <2>1. m - 1 \in Nat /\ m - 1 \in 1..(m - 1) /\ (m - 1) + 1 = m
    BY <1>1
  <2>2. m - 1 \in T
    BY <2>1, <1>8
  <2> QED
    BY <2>1, <2>2 DEF T
<1>10. h \o <<>> = h
  BY <1>1, ConcatEmptySeq
<1> QED
  BY <1>2, <1>3, <1>4, <1>5, <1>9, <1>10 DEF t, h

-----------------------------------------------------------------------------
(* Numbered samples.                                                       *)

Sounds == {0} \cup Samples

\* The first n of all are samples 1 to n, and silence fills up what follows.
Numbered(all, n) == all = [i \in 1..Len(all) |-> IF i <= n THEN i ELSE 0]

LEMMA NumberedIs ==
  ASSUME NEW all \in Seq(Sounds), NEW n \in Nat
  PROVE  Numbered(all, n) <=> \A i \in 1..Len(all) : all[i] = IF i <= n THEN i ELSE 0
<1>1. all = [i \in 1..Len(all) |-> all[i]]
  OBVIOUS
<1> QED
  BY <1>1 DEF Numbered

LEMMA ConcatsAre ==
  /\ \A x, y \in Seq(Sounds) : x \o y \in Seq(Sounds)
  /\ \A x, y, z \in Seq(Sounds) : (x \o y) \o z = x \o (y \o z)
<1>1. \A x, y \in Seq(Sounds) : x \o y \in Seq(Sounds)
  BY ConcatProperties
<1>2. \A x, y, z \in Seq(Sounds) : (x \o y) \o z = x \o (y \o z)
  BY ConcatAssociative
<1> QED
  BY <1>1, <1>2

LEMMA NumberedExtends ==
  ASSUME NEW all \in Seq(Sounds), NEW more \in Seq(Sounds), NEW n \in Nat, NEW m \in Nat,
         Numbered(all, n), Len(all) = n, n <= m,
         \A i \in 1..Len(more) : more[i] = IF n + i <= m THEN n + i ELSE 0
  PROVE  Numbered(all \o more, m)
<1>1. /\ all \o more \in Seq(Sounds)
      /\ Len(all \o more) = n + Len(more) /\ Len(more) \in Nat
      /\ \A i \in 1..(n + Len(more)) : (all \o more)[i] = IF i <= n THEN all[i] ELSE more[i - n]
  <2>1. all \o more \in Seq(Sounds) /\ Len(all \o more) = Len(all) + Len(more)
    BY ConcatProperties
  <2>2. \A i \in 1..(Len(all) + Len(more)) :
           (all \o more)[i] = IF i <= Len(all) THEN all[i] ELSE more[i - Len(all)]
    BY ConcatProperties, Zenon
  <2>3. Len(more) \in Nat
    OBVIOUS
  <2>4. Len(all) = n
    OBVIOUS
  <2> QED
    BY <2>1, <2>2, <2>3, <2>4, Zenon
<1>2. \A i \in 1..n : all[i] = i
  BY NumberedIs
<1>3. ASSUME NEW i \in 1..(n + Len(more))
      PROVE  (all \o more)[i] = IF i <= m THEN i ELSE 0
  <2>1. CASE i <= n
    BY <2>1, <1>1, <1>2
  <2>2. CASE ~(i <= n)
    <3>1. i - n \in 1..Len(more) /\ n + (i - n) = i
      BY <2>2, <1>1
    <3>2. more[i - n] = IF n + (i - n) <= m THEN n + (i - n) ELSE 0
      BY <3>1
    <3> QED
      BY <3>1, <3>2, <2>2, <1>1
  <2> QED
    BY <2>1, <2>2
<1> QED
  BY <1>1, <1>3, NumberedIs

\* The samples in the beginning s of numbered ones.
LEMMA SamplesInPrefix ==
  ASSUME NEW s \in Seq(Sounds), NEW rest \in Seq(Sounds), NEW n \in Nat,
         Numbered(s \o rest, n)
  PROVE  Cardinality({i \in DOMAIN s : s[i] # 0}) = IF Len(s) <= n THEN Len(s) ELSE n
<1>1. /\ s \o rest \in Seq(Sounds)
      /\ Len(s \o rest) = Len(s) + Len(rest) /\ Len(rest) \in Nat /\ Len(s) \in Nat
      /\ \A i \in 1..Len(s) : (s \o rest)[i] = s[i]
      /\ DOMAIN s = 1..Len(s)
  BY ConcatProperties
<1>2. \A i \in 1..Len(s) : s[i] = IF i <= n THEN i ELSE 0
  <2> DEFINE all == s \o rest
  <2>1. all \in Seq(Sounds) /\ Numbered(all, n) /\ Len(all) = Len(s) + Len(rest)
    BY <1>1
  <2>2. \A i \in 1..Len(s) : all[i] = s[i]
    BY <1>1
  <2> HIDE DEF all
  <2>3. \A i \in 1..Len(all) : all[i] = IF i <= n THEN i ELSE 0
    BY <2>1, NumberedIs
  <2> QED
    BY <2>1, <2>2, <2>3, <1>1
<1> DEFINE m == IF Len(s) <= n THEN Len(s) ELSE n
<1>3. {i \in DOMAIN s : s[i] # 0} = 1..m
  BY <1>1, <1>2
<1>4. m \in Nat
  BY <1>1
<1> HIDE DEF m
<1>5. Cardinality(1..m) = m
  BY <1>4, FS_Interval
<1> QED
  BY <1>3, <1>5 DEF m

-----------------------------------------------------------------------------
(* The invariant.                                                          *)

\* All that has been produced, in the order in which it will have been played.
Under == Played \o FlattenSeq(opus) \o buf \o FlattenSeq(pcm)

\* The samples that are under way are numbered, and only the encoder's flush
\* adds silence to them, less than a frame.
Content ==
  /\ Numbered(Under, produced)
  /\ Len(Under) - produced \in 0..(FrameSamples - 1)
  /\ encoder \notin {"markDone", "ended"} => Len(Under) = produced

\* Where the threads are: the buffer holds less than a frame but while a chunk
\* is encoded, the encoder flushes when there is nothing more to come and marks
\* the end after it, and the timer finds the end only behind the encoder's.
Control ==
  /\ encoder \in {"init", "failed", "markDone", "ended"} => buf = <<>>
  /\ encoder \in {"pop", "flush"} => Len(buf) < FrameSamples
  /\ encoder \in {"flush", "markDone", "ended"} => pcmDone /\ pcm = <<>>
  /\ encoder \in {"init", "failed"} => sent = <<>> /\ opus = <<>>
  /\ opusDone /\ stream # "ended" => encoder \in {"ended", "failed"}
  /\ finished = "drained" => opus = <<>> /\ encoder \in {"ended", "failed"}
  /\ finished = "no" => stream # "stopped"
  /\ finished # "no" => stream \in {"playing", "stopped", "ended"}
  /\ finished = "killed" => stream \in {"stopped", "ended"}

PathInv == TypeOK /\ Content /\ Control

LEMMA FramesAreSounds ==
  /\ OpusFrames \subseteq Seq(Sounds)
  /\ \A f \in OpusFrames : Len(f) = FrameSamples
  /\ Seq(Samples) \subseteq Seq(Sounds)
<1>1. FrameSamples \in Nat
  BY AudioPathAssumption
<1>2. \A f \in OpusFrames : f \in Seq(Sounds) /\ Len(f) = FrameSamples
  BY <1>1 DEF OpusFrames, Sounds
<1>3. Samples \subseteq Sounds
  BY DEF Sounds
<1>4. \A q \in Seq(Samples) : q \in Seq(Sounds)
  BY <1>3, SeqMonotonic
<1> QED
  BY <1>2, <1>4

LEMMA TypesAre ==
  ASSUME TypeOK
  PROVE  /\ sent \in Seq(Seq(Sounds)) /\ opus \in Seq(Seq(Sounds)) /\ pcm \in Seq(Seq(Sounds))
         /\ buf \in Seq(Sounds)
         /\ Played \in Seq(Sounds) /\ FlattenSeq(opus) \in Seq(Sounds)
         /\ FlattenSeq(pcm) \in Seq(Sounds)
         /\ produced \in Nat
<1>1. sent \in Seq(OpusFrames) /\ opus \in Seq(OpusFrames) /\ pcm \in Seq(Seq(Samples))
      /\ buf \in Seq(Samples) /\ produced \in 0..MaxSamples
  BY DEF TypeOK
<1>2. sent \in Seq(Seq(Sounds)) /\ opus \in Seq(Seq(Sounds)) /\ pcm \in Seq(Seq(Sounds))
  BY <1>1, FramesAreSounds, SeqMonotonic
<1>3. buf \in Seq(Sounds) /\ produced \in Nat
  BY <1>1, FramesAreSounds, AudioPathAssumption
<1>4. /\ Played \in Seq(Sounds) /\ FlattenSeq(opus) \in Seq(Sounds)
      /\ FlattenSeq(pcm) \in Seq(Sounds)
  BY <1>2, FlattenType DEF Played
<1> QED
  BY <1>2, <1>3, <1>4

LEMMA UnderIs ==
  ASSUME TypeOK
  PROVE  /\ Under \in Seq(Sounds)
         /\ Len(Under) = Len(Played) + Len(FlattenSeq(opus)) + Len(buf) + Len(FlattenSeq(pcm))
<1> DEFINE o == FlattenSeq(opus)
           p == FlattenSeq(pcm)
<1>1. Played \in Seq(Sounds) /\ o \in Seq(Sounds) /\ buf \in Seq(Sounds) /\ p \in Seq(Sounds)
  BY TypesAre
<1> HIDE DEF o, p
<1>2. Played \o o \in Seq(Sounds) /\ Len(Played \o o) = Len(Played) + Len(o)
  BY <1>1, ConcatProperties
<1>3. /\ (Played \o o) \o buf \in Seq(Sounds)
      /\ Len((Played \o o) \o buf) = Len(Played \o o) + Len(buf)
  BY <1>1, <1>2, ConcatProperties
<1>4. /\ ((Played \o o) \o buf) \o p \in Seq(Sounds)
      /\ Len(((Played \o o) \o buf) \o p) = Len((Played \o o) \o buf) + Len(p)
  BY <1>1, <1>3, ConcatProperties
<1> QED
  BY <1>2, <1>3, <1>4 DEF Under, o, p

-----------------------------------------------------------------------------
(* Types.                                                                  *)

\* What a chunk and a frame are.
Chunk(n) == [i \in 1..n |-> produced + i]
Filled   == [i \in 1..FrameSamples |-> IF i <= Len(buf) THEN buf[i] ELSE 0]

LEMMA PiecesAre ==
  ASSUME TypeOK
  PROVE  /\ \A n \in Nat : produced + n <= MaxSamples =>
              /\ Chunk(n) \in Seq(Samples) /\ Len(Chunk(n)) = n
              /\ \A i \in 1..n : Chunk(n)[i] = produced + i
         /\ Filled \in OpusFrames
         /\ Len(buf) >= FrameSamples =>
              /\ SubSeq(buf, 1, FrameSamples) \in OpusFrames
              /\ SubSeq(buf, FrameSamples + 1, Len(buf)) \in Seq(Samples)
              /\ buf = SubSeq(buf, 1, FrameSamples) \o SubSeq(buf, FrameSamples + 1, Len(buf))
<1>1. buf \in Seq(Samples) /\ Len(buf) \in Nat /\ produced \in Nat /\ FrameSamples \in Nat
      /\ MaxSamples \in Nat /\ FrameSamples # 0
      /\ \A i \in 1..Len(buf) : buf[i] \in Samples
  BY AudioPathAssumption DEF TypeOK
<1>2. ASSUME NEW n \in Nat, produced + n <= MaxSamples
      PROVE  /\ Chunk(n) \in Seq(Samples) /\ Len(Chunk(n)) = n
             /\ \A i \in 1..n : Chunk(n)[i] = produced + i
  <2>1. \A i \in 1..n : produced + i \in Samples
    BY <1>1, <1>2 DEF Samples
  <2> QED
    BY <2>1 DEF Chunk
<1>3. Filled \in OpusFrames
  <2>1. \A i \in 1..FrameSamples : (IF i <= Len(buf) THEN buf[i] ELSE 0) \in {0} \cup Samples
    BY <1>1
  <2> QED
    BY <2>1 DEF Filled, OpusFrames
<1>4. ASSUME Len(buf) >= FrameSamples
      PROVE  /\ SubSeq(buf, 1, FrameSamples) \in OpusFrames
             /\ SubSeq(buf, FrameSamples + 1, Len(buf)) \in Seq(Samples)
             /\ buf = SubSeq(buf, 1, FrameSamples) \o SubSeq(buf, FrameSamples + 1, Len(buf))
  <2> DEFINE f == SubSeq(buf, 1, FrameSamples)
             r == SubSeq(buf, FrameSamples + 1, Len(buf))
  <2>1. /\ f \in Seq(Samples) /\ Len(f) = FrameSamples
        /\ \A i \in 1..FrameSamples : f[i] = buf[i]
    BY <1>1, <1>4
  <2>2. /\ r \in Seq(Samples) /\ Len(r) = Len(buf) - FrameSamples
        /\ \A i \in 1..(Len(buf) - FrameSamples) : r[i] = buf[FrameSamples + i]
    BY <1>1, <1>4
  <2> HIDE DEF f, r
  <2>3. f \in OpusFrames
    <3>1. f = [i \in 1..FrameSamples |-> f[i]]
      BY <2>1
    <3>2. \A i \in 1..FrameSamples : f[i] \in {0} \cup Samples
      BY <2>1
    <3> QED
      BY <3>1, <3>2 DEF OpusFrames
  <2>4. f \o r \in Seq(Samples) /\ Len(f \o r) = Len(buf)
    <3>1. f \o r \in Seq(Samples) /\ Len(f \o r) = Len(f) + Len(r)
      BY <2>1, <2>2, ConcatProperties
    <3> QED
      BY <3>1, <2>1, <2>2, <1>1
  <2>5. \A i \in 1..Len(buf) : (f \o r)[i] = buf[i]
    <3> TAKE i \in 1..Len(buf)
    <3>1. (f \o r)[i] = IF i <= Len(f) THEN f[i] ELSE r[i - Len(f)]
      <4>1. i \in 1..(Len(f) + Len(r))
        BY <1>1, <2>1, <2>2
      <4>2. \A j \in 1..(Len(f) + Len(r)) :
               (f \o r)[j] = IF j <= Len(f) THEN f[j] ELSE r[j - Len(f)]
        BY <2>1, <2>2, ConcatProperties, Zenon
      <4> QED
        BY <4>1, <4>2, Zenon
    <3>2. CASE i <= FrameSamples
      BY <3>1, <3>2, <2>1
    <3>3. CASE ~(i <= FrameSamples)
      <4>1. /\ i - FrameSamples \in 1..(Len(buf) - FrameSamples)
            /\ FrameSamples + (i - FrameSamples) = i
        BY <3>3, <1>1
      <4>2. r[i - FrameSamples] = buf[i]
        BY <4>1, <2>2
      <4> QED
        BY <3>1, <3>3, <4>2, <2>1
    <3> QED
      BY <3>2, <3>3
  <2>6. f \o r = buf
    BY <1>1, <2>4, <2>5, SeqEqual
  <2> QED
    BY <2>2, <2>3, <2>6 DEF f, r
<1> QED
  BY <1>2, <1>3, <1>4

LEMMA TypeKeeps == TypeOK /\ [Next]_vars => TypeOK'
<1> SUFFICES ASSUME TypeOK, [Next]_vars PROVE TypeOK'
  OBVIOUS
<1> DEFINE Chunks == Seq(Samples)
<1> USE DEF TypeOK
<1>1. ASSUME NEW n \in ChunkSizes, Push(n) PROVE TypeOK'
  <2>1. n \in Nat /\ produced + n <= MaxSamples /\ Chunk(n) \in Chunks
    BY <1>1, AudioPathAssumption, PiecesAre DEF Push
  <2>2. pcm \in Seq(Chunks)
    OBVIOUS
  <2> HIDE DEF Chunks
  <2>3. pcm' = Append(pcm, Chunk(n))
    BY <1>1 DEF Push, Chunk
  <2>4. pcm' \in Seq(Chunks)
    BY <2>1, <2>2, <2>3
  <2>5. produced' \in 0..MaxSamples
    BY <1>1, <2>1, AudioPathAssumption DEF Push
  <2> USE DEF Chunks
  <2> QED
    BY <1>1, <2>4, <2>5 DEF Push, encoderVars, opusVars, streamVars, timerVars
<1>2. CASE MarkDone
  BY <1>2 DEF MarkDone, encoderVars, opusVars, streamVars, timerVars
<1>3. CASE EncoderInit \/ EncoderInitFails \/ ChunkEncoded \/ EncoderDrained \/ EncoderMarksDone
  BY <1>3 DEF EncoderInit, EncoderInitFails, ChunkEncoded, EncoderDrained, EncoderMarksDone,
              EncoderAt, producerVars, opusVars, streamVars, timerVars
<1>4. CASE EncoderPops
  <2>1. pcm \in Seq(Chunks) /\ pcm # <<>>
    BY <1>4 DEF EncoderPops
  <2> HIDE DEF Chunks
  <2>2. Tail(pcm) \in Seq(Chunks) /\ Head(pcm) \in Chunks
    BY <2>1
  <2> USE DEF Chunks
  <2>3. buf \o Head(pcm) \in Seq(Samples)
    BY <2>2, ConcatProperties
  <2> QED
    BY <1>4, <2>2, <2>3 DEF EncoderPops, EncoderAt, opusVars, streamVars, timerVars
<1>5. CASE EncodeFrame
  <2>1. /\ SubSeq(buf, 1, FrameSamples) \in OpusFrames
        /\ SubSeq(buf, FrameSamples + 1, Len(buf)) \in Seq(Samples)
    BY <1>5, PiecesAre DEF EncodeFrame
  <2>2. Append(opus, SubSeq(buf, 1, FrameSamples)) \in Seq(OpusFrames)
    BY <2>1
  <2> QED
    BY <1>5, <2>1, <2>2 DEF EncodeFrame, EncoderAt, producerVars, streamVars, timerVars
<1>6. CASE Flush
  <2>1. Append(opus, Filled) \in Seq(OpusFrames) /\ <<>> \in Seq(Samples)
    BY PiecesAre
  <2>2. opus' \in Seq(OpusFrames)
    BY <1>6, <2>1 DEF Flush, Filled
  <2> QED
    BY <1>6, <2>1, <2>2 DEF Flush, EncoderAt, producerVars, streamVars, timerVars
<1>7. CASE Stream \/ BufferDeadline
  BY <1>7 DEF Stream, BufferDeadline, Connected, ConnectFails, Buffered, Play, LoopFinished,
              LoopKilled, Cleanup, StreamAt, producerVars, encoderVars, opusVars, timerVars
<1>8. CASE TimerSends
  <2>1. Head(opus) \in OpusFrames /\ Tail(opus) \in Seq(OpusFrames)
    BY <1>8 DEF TimerSends
  <2>2. Append(sent, Head(opus)) \in Seq(OpusFrames)
    BY <2>1
  <2> QED
    BY <1>8, <2>1, <2>2 DEF TimerSends, producerVars, encoderVars, streamVars
<1>9. CASE TimerSendsSilence \/ TimerFinishes
  BY <1>9, AudioPathAssumption
     DEF TimerSendsSilence, TimerFinishes, producerVars, encoderVars, opusVars, streamVars, timerVars
<1>10. CASE Kill
  BY <1>10 DEF Kill, producerVars, encoderVars, opusVars, timerVars
<1>11. CASE UNCHANGED vars
  BY <1>11 DEF vars, producerVars, encoderVars, opusVars, streamVars, timerVars
<1> QED
  BY <1>1, <1>2, <1>3, <1>4, <1>5, <1>6, <1>7, <1>8, <1>9, <1>10, <1>11 DEF Next, Encode, Tick

LEMMA ControlKeeps == TypeOK /\ Control /\ [Next]_vars => Control'
<1> SUFFICES ASSUME TypeOK, Control, [Next]_vars PROVE Control'
  OBVIOUS
<1> USE DEF Control
<1>1. CASE (\E n \in ChunkSizes : Push(n)) \/ MarkDone
  <2>1. /\ ~pcmDone
        /\ UNCHANGED <<encoder, buf, opus, opusDone, stream, finished, sent>>
    BY <1>1 DEF Push, MarkDone, encoderVars, opusVars, streamVars, timerVars
  <2> QED
    BY <2>1
<1>2. CASE EncoderInit \/ EncoderInitFails \/ ChunkEncoded \/ EncoderDrained \/ EncoderMarksDone
  <2>1. Len(<<>>) = 0 /\ FrameSamples > 0
    BY AudioPathAssumption
  <2> QED
    BY <1>2, <2>1 DEF EncoderInit, EncoderInitFails, ChunkEncoded, EncoderDrained,
              EncoderMarksDone, EncoderAt, producerVars, opusVars, streamVars, timerVars
<1>3. CASE EncoderPops
  BY <1>3 DEF EncoderPops, EncoderAt, opusVars, streamVars, timerVars
<1>4. CASE EncodeFrame
  BY <1>4 DEF EncodeFrame, EncoderAt, producerVars, streamVars, timerVars
<1>5. CASE Flush
  BY <1>5 DEF Flush, EncoderAt, producerVars, streamVars, timerVars
<1>6. CASE Stream \/ BufferDeadline
  BY <1>6 DEF Stream, BufferDeadline, Connected, ConnectFails, Buffered, Play, LoopFinished, TypeOK,
              LoopKilled, Cleanup, StreamAt, producerVars, encoderVars, opusVars, timerVars
<1>7. CASE TimerSends
  BY <1>7 DEF TimerSends, producerVars, encoderVars, streamVars
<1>8. CASE TimerSendsSilence \/ TimerFinishes
  BY <1>8
     DEF TimerSendsSilence, TimerFinishes, producerVars, encoderVars, opusVars, streamVars, timerVars
<1>9. CASE Kill
  BY <1>9 DEF Kill, producerVars, encoderVars, opusVars, timerVars
<1>10. CASE UNCHANGED vars
  BY <1>10 DEF vars, producerVars, encoderVars, opusVars, streamVars, timerVars
<1> QED
  BY <1>1, <1>2, <1>3, <1>4, <1>5, <1>6, <1>7, <1>8, <1>9, <1>10 DEF Next, Encode, Tick

-----------------------------------------------------------------------------
(* Content.                                                                *)

\* What is under way stays the same, or the same samples move on.
LEMMA ContentStays ==
  ASSUME Content, Under' = Under, produced' = produced,
         encoder \in {"markDone", "ended"} => encoder' \in {"markDone", "ended"}
  PROVE  Content'
BY DEF Content

LEMMA ContentExtends ==
  ASSUME PathInv, NEW more \in Seq(Sounds), NEW m \in Nat,
         Len(Under) = produced, Under' = Under \o more, produced' = m,
         produced <= m, m <= produced + Len(more),
         \A i \in 1..Len(more) : more[i] = IF produced + i <= m THEN produced + i ELSE 0,
         produced + Len(more) - m < FrameSamples,
         encoder' \notin {"markDone", "ended"} => m = produced + Len(more)
  PROVE  Content'
<1>1. /\ Under \in Seq(Sounds) /\ produced \in Nat /\ Numbered(Under, produced)
      /\ FrameSamples \in Nat
  BY UnderIs, TypesAre, AudioPathAssumption DEF PathInv, Content
<1>2. Numbered(Under', m)
  BY <1>1, NumberedExtends
<1>3. Len(Under') = produced + Len(more) /\ Len(more) \in Nat
  <2>1. Len(Under \o more) = Len(Under) + Len(more)
    BY <1>1, ConcatProperties, Zenon
  <2>2. Len(more) \in Nat
    OBVIOUS
  <2> QED
    BY <2>1, <2>2
<1>4. Len(Under') - m \in 0..(FrameSamples - 1)
  BY <1>1, <1>3
<1> QED
  BY <1>2, <1>3, <1>4 DEF Content

LEMMA PushKeepsContent ==
  ASSUME PathInv, NEW n \in ChunkSizes, Push(n)
  PROVE  Content'
<1> DEFINE more == Chunk(n)
           a == Played \o FlattenSeq(opus) \o buf
           p == FlattenSeq(pcm)
<1>1. TypeOK /\ n \in Nat /\ produced \in Nat /\ MaxSamples \in Nat
      /\ Len(Under) = produced /\ encoder \notin {"markDone", "ended"}
  BY AudioPathAssumption, TypesAre DEF PathInv, Content, Control, Push
<1>2. /\ more \in Seq(Sounds) /\ Len(more) = n
      /\ \A i \in 1..n : more[i] = produced + i
  BY <1>1, PiecesAre, FramesAreSounds DEF Push
<1>3. /\ pcm' = Append(pcm, more) /\ produced' = produced + n
      /\ UNCHANGED <<sent, opus, buf, encoder>>
  BY DEF Push, Chunk, encoderVars, opusVars, timerVars
<1> HIDE DEF more
<1>4. FlattenSeq(pcm') = p \o more
  BY <1>1, <1>2, <1>3, TypesAre, FlattenAppend
<1>5. a \in Seq(Sounds) /\ p \in Seq(Sounds)
  BY <1>1, TypesAre, ConcatProperties
<1>6. Under' = a \o (p \o more)
  BY <1>3, <1>4 DEF Under, Played
<1> HIDE DEF a, p
<1>7. a \o (p \o more) = (a \o p) \o more
  <2>1. \A x, y, z \in Seq(Sounds) : (x \o y) \o z = x \o (y \o z)
    BY ConcatsAre, Zenon
  <2> QED
    BY <2>1, <1>2, <1>5, Zenon
<1>8. Under' = Under \o more
  BY <1>6, <1>7 DEF Under, a, p
<1>9. produced + n \in Nat /\ FrameSamples \in Nat \ {0}
  BY <1>1, AudioPathAssumption
<1>10. /\ produced <= produced + n /\ produced + n <= produced + Len(more)
       /\ produced + Len(more) - (produced + n) < FrameSamples
       /\ produced + n = produced + Len(more)
       /\ \A i \in 1..Len(more) :
             more[i] = IF produced + i <= produced + n THEN produced + i ELSE 0
  BY <1>1, <1>2, <1>9
<1> QED
  BY <1>1, <1>2, <1>3, <1>8, <1>9, <1>10, ContentExtends

LEMMA PopKeepsContent ==
  ASSUME PathInv, EncoderPops
  PROVE  Content'
<1> DEFINE h == Head(pcm)
           a == Played \o FlattenSeq(opus)
           q == FlattenSeq(Tail(pcm))
<1>1. /\ TypeOK /\ pcm \in Seq(Seq(Sounds)) /\ pcm # <<>> /\ buf \in Seq(Sounds)
      /\ Played \in Seq(Sounds) /\ FlattenSeq(opus) \in Seq(Sounds)
  BY TypesAre DEF PathInv, EncoderPops
<1>2. /\ pcm' = Tail(pcm) /\ buf' = buf \o h /\ UNCHANGED <<sent, opus, produced>>
      /\ encoder = "pop"
  BY DEF EncoderPops, EncoderAt, opusVars, timerVars
<1>3. h \in Seq(Sounds) /\ q \in Seq(Sounds)
  <2>1. h \in Seq(Sounds) /\ Tail(pcm) \in Seq(Seq(Sounds))
    BY <1>1, HeadTailProperties
  <2> QED
    BY <2>1, FlattenType
<1>4. FlattenSeq(pcm) = h \o q
  BY <1>1, FlattenHead
<1>5. a \in Seq(Sounds)
  BY <1>1, ConcatProperties
<1>6. Under = (a \o buf) \o (h \o q)
  BY <1>4 DEF Under
<1>7. Under' = (a \o (buf \o h)) \o q
  BY <1>2 DEF Under, Played
<1> HIDE DEF a, h, q
<1>8. (a \o buf) \o (h \o q) = (a \o (buf \o h)) \o q
  <2>1. \A x, y, z \in Seq(Sounds) : (x \o y) \o z = x \o (y \o z)
    BY ConcatsAre, Zenon
  <2>2. a \o buf \in Seq(Sounds)
    BY <1>1, <1>5, ConcatsAre, Zenon
  <2>3. ((a \o buf) \o h) \o q = (a \o buf) \o (h \o q)
    BY <2>1, <2>2, <1>3, Zenon
  <2>4. (a \o buf) \o h = a \o (buf \o h)
    BY <2>1, <1>1, <1>3, <1>5, Zenon
  <2> QED
    BY <2>3, <2>4, Zenon
<1>9. Content
  BY DEF PathInv
<1> QED
  BY <1>2, <1>6, <1>7, <1>8, <1>9, ContentStays

LEMMA FrameKeepsContent ==
  ASSUME PathInv, EncodeFrame
  PROVE  Content'
<1> DEFINE f == SubSeq(buf, 1, FrameSamples)
           r == SubSeq(buf, FrameSamples + 1, Len(buf))
           o == FlattenSeq(opus)
           p == FlattenSeq(pcm)
<1>1. /\ TypeOK /\ opus \in Seq(Seq(Sounds))
      /\ Played \in Seq(Sounds) /\ o \in Seq(Sounds) /\ p \in Seq(Sounds)
  BY TypesAre DEF PathInv
<1>2. /\ opus' = Append(opus, f) /\ buf' = r /\ UNCHANGED <<sent, pcm, produced>>
      /\ encoder = "encode" /\ Len(buf) >= FrameSamples
  BY DEF EncodeFrame, EncoderAt, producerVars, timerVars
<1>3. f \in Seq(Sounds) /\ r \in Seq(Sounds) /\ buf = f \o r
  BY <1>1, <1>2, PiecesAre, FramesAreSounds
<1> HIDE DEF f, r
<1>4. FlattenSeq(opus') = o \o f
  BY <1>1, <1>2, <1>3, FlattenAppend
<1>5. Under = ((Played \o o) \o (f \o r)) \o p
  BY <1>3 DEF Under
<1>6. Under' = ((Played \o (o \o f)) \o r) \o p
  BY <1>2, <1>4 DEF Under, Played
<1> HIDE DEF o, p
<1>7. (Played \o o) \o (f \o r) = (Played \o (o \o f)) \o r
  <2>1. \A x, y, z \in Seq(Sounds) : (x \o y) \o z = x \o (y \o z)
    BY ConcatsAre, Zenon
  <2>2. Played \o o \in Seq(Sounds)
    BY <1>1, ConcatsAre, Zenon
  <2>3. ((Played \o o) \o f) \o r = (Played \o o) \o (f \o r)
    BY <2>1, <2>2, <1>3, Zenon
  <2>4. (Played \o o) \o f = Played \o (o \o f)
    BY <2>1, <1>1, <1>3, ZenonT(60)
  <2> QED
    BY <2>3, <2>4, Zenon
<1>8. Content
  BY DEF PathInv
<1> QED
  BY <1>2, <1>5, <1>6, <1>7, <1>8, ContentStays

LEMMA SendKeepsContent ==
  ASSUME PathInv, TimerSends
  PROVE  /\ Content'
         /\ Played' = Played \o Head(opus) /\ Head(opus) \in OpusFrames
<1> DEFINE h == Head(opus)
           q == FlattenSeq(Tail(opus))
           p == FlattenSeq(pcm)
<1>1. /\ TypeOK /\ opus \in Seq(Seq(Sounds)) /\ opus # <<>> /\ sent \in Seq(Seq(Sounds))
      /\ Played \in Seq(Sounds) /\ p \in Seq(Sounds) /\ buf \in Seq(Sounds)
  BY TypesAre DEF PathInv, TimerSends
<1>2. /\ opus' = Tail(opus) /\ sent' = Append(sent, h)
      /\ UNCHANGED <<buf, pcm, produced, encoder>>
  BY DEF TimerSends, encoderVars, producerVars
<1>3. h \in Seq(Sounds) /\ q \in Seq(Sounds)
  <2>1. h \in Seq(Sounds) /\ Tail(opus) \in Seq(Seq(Sounds))
    BY <1>1, HeadTailProperties
  <2> QED
    BY <2>1, FlattenType
<1>4. h \in OpusFrames
  BY <1>1, HeadTailProperties DEF TypeOK
<1>5. FlattenSeq(opus) = h \o q
  BY <1>1, FlattenHead
<1> HIDE DEF h
<1>6. Played' = Played \o h
  BY <1>1, <1>2, <1>3, FlattenAppend DEF Played
<1>7. Under = ((Played \o (h \o q)) \o buf) \o p
  BY <1>5 DEF Under
<1>8. Under' = (((Played \o h) \o q) \o buf) \o p
  BY <1>2, <1>6 DEF Under
<1> HIDE DEF q, p
<1>9. (Played \o h) \o q = Played \o (h \o q)
  <2>1. \A x, y, z \in Seq(Sounds) : (x \o y) \o z = x \o (y \o z)
    BY ConcatsAre, Zenon
  <2> QED
    BY <2>1, <1>1, <1>3, Zenon
<1>10. Content
  BY DEF PathInv
<1>11. Content'
  BY <1>2, <1>7, <1>8, <1>9, <1>10, ContentStays
<1> QED
  BY <1>4, <1>6, <1>11 DEF h

LEMMA FlattenNothing == FlattenSeq(<<>>) = <<>>
BY DEF FlattenSeq

LEMMA FlushKeepsContent ==
  ASSUME PathInv, Flush
  PROVE  Content'
<1> DEFINE o == FlattenSeq(opus)
           z == [i \in 1..(FrameSamples - Len(buf)) |-> 0]
<1>1. /\ TypeOK /\ opus \in Seq(Seq(Sounds)) /\ buf \in Seq(Sounds) /\ Len(buf) \in Nat
      /\ Played \in Seq(Sounds) /\ o \in Seq(Sounds) /\ produced \in Nat
      /\ FrameSamples \in Nat /\ Filled \in Seq(Sounds)
  BY TypesAre, PiecesAre, FramesAreSounds, AudioPathAssumption DEF PathInv
<1>2. /\ encoder = "flush" /\ encoder' = "markDone" /\ buf' = <<>>
      /\ UNCHANGED <<sent, pcm, produced>>
      /\ opus' = IF buf = <<>> THEN opus ELSE Append(opus, Filled)
  BY DEF Flush, EncoderAt, producerVars, timerVars, Filled
<1>3. pcm = <<>> /\ Len(buf) < FrameSamples /\ Content /\ Len(Under) = produced
  BY <1>2 DEF PathInv, Control, Content
<1>4. Under = ((Played \o o) \o buf) \o <<>>
  BY <1>3, FlattenNothing DEF Under
<1>5. Under' = ((Played \o FlattenSeq(opus')) \o <<>>) \o <<>>
  BY <1>2, <1>3, FlattenNothing DEF Under, Played
<1>6. CASE buf = <<>>
  BY <1>2, <1>3, <1>4, <1>5, <1>6, ContentStays
<1>7. CASE buf # <<>>
  <2>1. z \in Seq(Sounds) /\ Len(z) = FrameSamples - Len(buf) /\ \A i \in 1..Len(z) : z[i] = 0
    BY <1>1, <1>3 DEF Sounds
  <2>2. Filled = buf \o z
    <3>1. Len(Filled) = FrameSamples
          /\ \A i \in 1..FrameSamples : Filled[i] = IF i <= Len(buf) THEN buf[i] ELSE 0
      BY <1>1 DEF Filled
    <3> HIDE DEF z
    <3>2. /\ buf \o z \in Seq(Sounds) /\ Len(buf \o z) = Len(buf) + Len(z)
          /\ \A i \in 1..(Len(buf) + Len(z)) :
                (buf \o z)[i] = IF i <= Len(buf) THEN buf[i] ELSE z[i - Len(buf)]
      BY <1>1, <2>1, ConcatProperties, Zenon
    <3>3. Len(buf) + Len(z) = FrameSamples
      BY <1>1, <2>1
    <3>4. ASSUME NEW i \in 1..FrameSamples PROVE Filled[i] = (buf \o z)[i]
      <4>1. CASE i <= Len(buf)
        BY <4>1, <3>1, <3>2, <3>3
      <4>2. CASE ~(i <= Len(buf))
        <5>1. i - Len(buf) \in 1..Len(z)
          BY <4>2, <1>1, <2>1
        <5>2. z[i - Len(buf)] = 0
          BY <5>1, <2>1
        <5> QED
          BY <4>2, <5>2, <3>1, <3>2, <3>3
      <4> QED
        BY <4>1, <4>2
    <3> QED
      BY <1>1, <3>1, <3>2, <3>3, <3>4, SeqEqual
  <2> HIDE DEF z
  <2>3. FlattenSeq(opus') = o \o (buf \o z)
    BY <1>1, <1>2, <1>7, <2>2, FlattenAppend
  <2> HIDE DEF o
  <2>4. Under' = Under \o z
    <3>1. \A x, y, w \in Seq(Sounds) : (x \o y) \o w = x \o (y \o w)
      BY ConcatsAre, Zenon
    <3>2. buf \o z \in Seq(Sounds) /\ Played \o o \in Seq(Sounds)
      BY <1>1, <2>1, ConcatsAre, Zenon
    <3>3. Played \o (o \o (buf \o z)) = (Played \o o) \o (buf \o z)
      BY <3>1, <3>2, <1>1, ZenonT(60)
    <3>4. (Played \o o) \o (buf \o z) = ((Played \o o) \o buf) \o z
      BY <3>1, <3>2, <1>1, <2>1, Zenon
    <3>5. (Played \o o) \o buf \in Seq(Sounds)
      BY <3>2, <1>1, ConcatsAre, Zenon
    <3>6. ((Played \o o) \o buf) \o z \in Seq(Sounds)
      BY <3>5, <2>1, ConcatsAre, Zenon
    <3>7. \A x \in Seq(Sounds) : x \o <<>> = x
      BY ConcatEmptySeq
    <3>8. Under' = ((((Played \o o) \o buf) \o z) \o <<>>) \o <<>>
      BY <1>5, <2>3, <3>3, <3>4, Zenon
    <3>9. Under' = ((Played \o o) \o buf) \o z
      BY <3>6, <3>7, <3>8, Zenon
    <3>10. Under = (Played \o o) \o buf
      BY <3>5, <3>7, <1>4, Zenon
    <3> QED
      BY <3>9, <3>10, Zenon
  <2>5. Len(buf) # 0
    BY <1>7, <1>1, EmptyIs
  <2>6. /\ produced <= produced + Len(z) /\ produced + Len(z) - produced < FrameSamples
        /\ \A i \in 1..Len(z) : z[i] = IF produced + i <= produced THEN produced + i ELSE 0
        /\ produced' = produced /\ produced <= produced
    BY <1>1, <1>2, <1>3, <2>1, <2>5
  <2> QED
    BY <1>1, <1>2, <1>3, <2>1, <2>4, <2>6, ContentExtends
<1> QED
  BY <1>6, <1>7

-----------------------------------------------------------------------------

LEMMA PathInit == Init => PathInv
<1> SUFFICES ASSUME Init PROVE PathInv
  OBVIOUS
<1>1. /\ produced = 0 /\ pcm = <<>> /\ buf = <<>> /\ opus = <<>> /\ sent = <<>>
      /\ encoder = "init" /\ stream = "connecting" /\ finished = "no" /\ ~opusDone
  BY DEF Init
<1>2. TypeOK
  <2>1. \A S : <<>> \in Seq(S)
    BY EmptySeq
  <2>2. /\ pcm \in Seq(Seq(Samples)) /\ buf \in Seq(Samples)
        /\ opus \in Seq(OpusFrames) /\ sent \in Seq(OpusFrames)
    BY <2>1, <1>1
  <2>3. 0 \in 0..MaxSamples /\ 0 \in 0..MaxSilences
    BY AudioPathAssumption
  <2>4. /\ produced \in 0..MaxSamples /\ silences \in 0..MaxSilences
        /\ pcmDone \in BOOLEAN /\ opusDone \in BOOLEAN /\ alive \in BOOLEAN
    BY <2>3 DEF Init
  <2> QED
    BY <1>1, <2>2, <2>4 DEF TypeOK
<1>3. Control
  BY <1>1 DEF Control
<1>4. Under = <<>>
  <2>1. <<>> \o <<>> = <<>>
    BY ConcatEmptySeq
  <2> QED
    BY <1>1, <2>1, FlattenNothing, Zenon DEF Under, Played
<1>5. Content
  <2>1. Len(<<>>) = 0 /\ FrameSamples \in Nat \ {0}
    BY AudioPathAssumption
  <2>2. <<>> = [i \in 1..0 |-> IF i <= 0 THEN i ELSE 0]
    OBVIOUS
  <2> QED
    BY <2>1, <2>2, <1>1, <1>4 DEF Content, Numbered
<1> QED
  BY <1>2, <1>3, <1>5 DEF PathInv

LEMMA PathStep == PathInv /\ [Next]_vars => PathInv'
<1> SUFFICES ASSUME PathInv, [Next]_vars PROVE PathInv'
  OBVIOUS
<1>1. TypeOK' /\ Control'
  BY TypeKeeps, ControlKeeps DEF PathInv
<1> SUFFICES Content'
  BY <1>1 DEF PathInv
<1>2. ASSUME UNCHANGED <<produced, pcm, buf, opus, sent>>,
             encoder \in {"markDone", "ended"} => encoder' \in {"markDone", "ended"}
      PROVE  Content'
  <2>1. Under' = Under
    BY <1>2 DEF Under, Played
  <2> QED
    BY <1>2, <2>1, ContentStays DEF PathInv
<1>3. ASSUME NEW n \in ChunkSizes, Push(n) PROVE Content'
  BY <1>3, PushKeepsContent
<1>4. CASE MarkDone
  BY <1>2, <1>4 DEF MarkDone, encoderVars, opusVars, streamVars, timerVars
<1>5. CASE EncoderInit \/ EncoderInitFails \/ ChunkEncoded \/ EncoderDrained \/ EncoderMarksDone
  BY <1>2, <1>5 DEF EncoderInit, EncoderInitFails, ChunkEncoded, EncoderDrained, EncoderMarksDone,
              EncoderAt, producerVars, opusVars, streamVars, timerVars
<1>6. CASE EncoderPops \/ EncodeFrame \/ Flush \/ TimerSends
  BY <1>6, PopKeepsContent, FrameKeepsContent, FlushKeepsContent, SendKeepsContent
<1>7. CASE Stream \/ BufferDeadline
  BY <1>2, <1>7 DEF Stream, BufferDeadline, Connected, ConnectFails, Buffered, Play, LoopFinished,
              LoopKilled, Cleanup, StreamAt, producerVars, encoderVars, opusVars, timerVars
<1>8. CASE TimerSendsSilence \/ TimerFinishes \/ Kill \/ UNCHANGED vars
  BY <1>2, <1>8 DEF TimerSendsSilence, TimerFinishes, Kill, vars, producerVars, encoderVars,
              opusVars, streamVars, timerVars
<1> QED
  BY <1>3, <1>4, <1>5, <1>6, <1>7, <1>8 DEF Next, Encode, Tick

LEMMA PathAlways == Spec => []PathInv
BY PathInit, PathStep, PTL DEF Spec

\* No sample is lost, doubled or out of order, wherever it is under way: in the
\* chunks of the PCMQueue, the encoder's buffer, the frames of the AudioQueue or
\* among those that the timer has sent (opus_encoder.cpp:33-47).
THEOREM SamplesConservedAlways == Spec => []SamplesConserved
<1>1. PathInv => SamplesConserved
  BY DEF PathInv, Content, SamplesConserved, Under, Numbered
<1> QED
  BY <1>1, PathAlways, PTL

-----------------------------------------------------------------------------
(* The promise of AudioStream.                                             *)

\* What is played are the first samples produced, and silence at most behind all
\* of them.
PlayedFirst ==
  /\ SamplesPlayed = IF Len(Played) <= produced THEN Len(Played) ELSE produced
  /\ Len(Played) \in Nat /\ Len(Played) <= Len(Under) /\ Len(Under) \in Nat
  /\ produced \in Nat

LEMMA PlayedIs == PathInv => PlayedFirst
<1> SUFFICES ASSUME PathInv PROVE PlayedFirst
  OBVIOUS
<1> DEFINE o == FlattenSeq(opus)
           p == FlattenSeq(pcm)
<1>1. /\ TypeOK /\ Played \in Seq(Sounds) /\ o \in Seq(Sounds) /\ buf \in Seq(Sounds)
      /\ p \in Seq(Sounds) /\ produced \in Nat
  BY TypesAre DEF PathInv
<1>2. Under = ((Played \o o) \o buf) \o p
  BY DEF Under
<1>3. Len(Under) = Len(Played) + Len(o) + Len(buf) + Len(p)
  BY <1>1, UnderIs
<1> HIDE DEF o, p
<1>4. Under = Played \o (o \o (buf \o p))
  <2>1. \A x, y, z \in Seq(Sounds) : (x \o y) \o z = x \o (y \o z)
    BY ConcatsAre, Zenon
  <2>2. Played \o o \in Seq(Sounds) /\ buf \o p \in Seq(Sounds)
    BY <1>1, ConcatsAre, Zenon
  <2>3. ((Played \o o) \o buf) \o p = (Played \o o) \o (buf \o p)
    BY <2>1, <2>2, <1>1, ZenonT(60)
  <2>4. (Played \o o) \o (buf \o p) = Played \o (o \o (buf \o p))
    BY <2>1, <2>2, <1>1, ZenonT(60)
  <2> QED
    BY <2>3, <2>4, <1>2, Zenon
<1>5. o \o (buf \o p) \in Seq(Sounds)
  BY <1>1, ConcatsAre, Zenon
<1>6. Numbered(Played \o (o \o (buf \o p)), produced)
  BY <1>4 DEF PathInv, Content
<1>7. SamplesPlayed = IF Len(Played) <= produced THEN Len(Played) ELSE produced
  BY <1>1, <1>5, <1>6, SamplesInPrefix DEF SamplesPlayed
<1>8. Len(Played) \in Nat /\ Len(o) \in Nat /\ Len(buf) \in Nat /\ Len(p) \in Nat
  BY <1>1
<1> QED
  BY <1>1, <1>3, <1>7, <1>8 DEF PlayedFirst

LEMMA PlayedIsNext == PathInv' => PlayedFirst'
BY PlayedIs, PTL

LEMMA PlayedStays ==
  ASSUME UNCHANGED sent
  PROVE  SamplesPlayed' = SamplesPlayed
BY DEF SamplesPlayed, Played

\* A frame that is sent is full of samples, or filled up because nothing more
\* will come.
LEMMA SendPlays ==
  ASSUME PathInv, PathInv', TimerSends
  PROVE  Promise!PlayFrame \/ Promise!PlayRest
<1>1. /\ Played' = Played \o Head(opus) /\ Head(opus) \in OpusFrames
      /\ Played \in Seq(Sounds) /\ FrameSamples \in Nat \ {0}
  BY SendKeepsContent, TypesAre, AudioPathAssumption DEF PathInv
<1>2. Len(Played') = Len(Played) + FrameSamples
  <2>1. Head(opus) \in Seq(Sounds) /\ Len(Head(opus)) = FrameSamples
    BY <1>1, FramesAreSounds
  <2>2. Len(Played \o Head(opus)) = Len(Played) + Len(Head(opus))
    BY <1>1, <2>1, ConcatProperties, Zenon
  <2> QED
    BY <1>1, <2>1, <2>2, Zenon
<1>3. /\ SamplesPlayed = IF Len(Played) <= produced THEN Len(Played) ELSE produced
      /\ Len(Played) \in Nat /\ produced \in Nat
  BY PlayedIs DEF PlayedFirst
<1>4. /\ SamplesPlayed' = IF Len(Played') <= produced' THEN Len(Played') ELSE produced'
      /\ Len(Played') <= Len(Under') /\ Len(Under') \in Nat
  BY PlayedIsNext DEF PlayedFirst
<1>5. /\ UNCHANGED <<produced, pcmDone, encoder, buf, pcm, stream, finished>>
      /\ stream = "playing" /\ finished = "no" /\ opus # <<>>
  BY DEF TimerSends, producerVars, encoderVars, streamVars
<1>6. encoder # "failed"
  BY <1>5 DEF PathInv, Control
<1>7. Outcome = "no" /\ Outcome' = "no"
  BY <1>5, <1>6 DEF Outcome
<1>8. Len(Under') - produced \in 0..(FrameSamples - 1)
  BY <1>5 DEF PathInv, Content
<1>9. CASE Len(Played') <= produced
  BY <1>2, <1>3, <1>4, <1>5, <1>7, <1>9, <1>1 DEF Promise!PlayFrame
<1>10. CASE ~(Len(Played') <= produced)
  <2>1. Len(Under') # produced
    BY <1>4, <1>10, <1>3
  <2>2. encoder \in {"markDone", "ended"}
    BY <2>1, <1>5 DEF PathInv, Content
  <2>3. pcmDone
    BY <2>2 DEF PathInv, Control
  <2>4. Len(Played) < produced /\ produced < Len(Played) + FrameSamples
    BY <1>1, <1>2, <1>3, <1>4, <1>8, <1>10
  <2>5. SamplesPlayed = Len(Played) /\ SamplesPlayed' = produced
    BY <2>4, <1>3, <1>4, <1>5, <1>10
  <2> QED
    BY <2>3, <2>4, <2>5, <1>5, <1>7 DEF Promise!PlayRest
<1> QED
  BY <1>9, <1>10

\* The timer finds the end when all is played.
LEMMA FinishCompletes ==
  ASSUME PathInv, TimerFinishes
  PROVE  Promise!Complete \/ Promise!Break \/ UNCHANGED Promise!streamVars
<1>1. /\ UNCHANGED <<produced, pcmDone, encoder, sent, stream>>
      /\ stream = "playing" /\ finished = "no" /\ finished' = "drained"
      /\ opus = <<>> /\ opusDone
  BY DEF TimerFinishes, producerVars, encoderVars, timerVars
<1>2. SamplesPlayed' = SamplesPlayed
  BY <1>1, PlayedStays
<1>3. CASE encoder = "failed"
  BY <1>1, <1>2, <1>3 DEF Outcome, Promise!streamVars
<1>4. CASE encoder # "failed"
  <2>1. encoder = "ended" /\ buf = <<>> /\ pcmDone /\ pcm = <<>>
    BY <1>1, <1>4 DEF PathInv, Control
  <2>2. Len(Under) = Len(Played)
    <3>1. Len(<<>>) = 0
      OBVIOUS
    <3>2. Len(Under) = Len(Played) + 0 + 0 + 0
      BY <2>1, <1>1, <3>1, UnderIs, FlattenNothing DEF PathInv
    <3> QED
      BY <3>2, PlayedIs DEF PlayedFirst
  <2>3. Len(Under) - produced \in 0..(FrameSamples - 1) /\ FrameSamples \in Nat
    BY AudioPathAssumption DEF PathInv, Content
  <2>4. SamplesPlayed = produced
    BY <2>2, <2>3, PlayedIs DEF PlayedFirst
  <2>5. Outcome = "no" /\ Outcome' = "complete"
    BY <1>1, <1>4 DEF Outcome
  <2> QED
    BY <1>1, <1>2, <2>1, <2>4, <2>5 DEF Promise!Complete
<1> QED
  BY <1>3, <1>4

\* All other steps leave alone what is played.
LEMMA StreamBreaks ==
  ASSUME PathInv, Stream \/ BufferDeadline \/ EncoderInitFails
  PROVE  Promise!Break \/ UNCHANGED Promise!streamVars
<1>1. UNCHANGED <<produced, pcmDone, sent>>
  BY DEF Stream, BufferDeadline, Connected, ConnectFails, Buffered, Play, LoopFinished, LoopKilled,
         Cleanup, StreamAt, EncoderInitFails, EncoderAt, producerVars, encoderVars, timerVars
<1>2. SamplesPlayed' = SamplesPlayed
  BY <1>1, PlayedStays
<1>3. Outcome' = Outcome \/ (Outcome = "no" /\ Outcome' = "broken")
  <2>1. CASE EncoderInitFails
    BY <2>1 DEF EncoderInitFails, EncoderAt, streamVars, Outcome, PathInv, Control
  <2>2. CASE Connected \/ Buffered \/ BufferDeadline
    BY <2>2 DEF Connected, Buffered, BufferDeadline, Play, StreamAt, encoderVars, Outcome
  <2>3. CASE ConnectFails
    BY <2>3 DEF ConnectFails, StreamAt, encoderVars, Outcome, PathInv, Control
  <2>4. CASE LoopFinished
    BY <2>4 DEF LoopFinished, StreamAt, encoderVars, Outcome, PathInv, Control, TypeOK
  <2>5. CASE LoopKilled
    BY <2>5 DEF LoopKilled, StreamAt, encoderVars, Outcome
  <2>6. CASE Cleanup
    BY <2>6 DEF Cleanup, encoderVars, Outcome
  <2> QED
    BY <2>1, <2>2, <2>3, <2>4, <2>5, <2>6 DEF Stream
<1> QED
  BY <1>1, <1>2, <1>3 DEF Promise!Break, Promise!streamVars

LEMMA StepKeepsPromise ==
  PathInv /\ PathInv' /\ [Next]_vars => [Promise!StreamNext]_(Promise!streamVars)
<1> SUFFICES ASSUME PathInv, PathInv', [Next]_vars
             PROVE  Promise!StreamNext \/ UNCHANGED Promise!streamVars
  OBVIOUS
<1>1. ASSUME NEW n \in ChunkSizes, Push(n) PROVE Promise!Produce
  <2>1. n \in Nat \ {0} /\ produced \in Nat
    BY AudioPathAssumption, PlayedIs DEF PlayedFirst
  <2>2. /\ ~pcmDone /\ produced' = produced + n
        /\ UNCHANGED <<pcmDone, encoder, stream, finished, sent>>
    BY <1>1 DEF Push, encoderVars, streamVars, timerVars
  <2>3. SamplesPlayed' = SamplesPlayed /\ Outcome' = Outcome
    BY <2>2, PlayedStays DEF Outcome
  <2> QED
    BY <2>1, <2>2, <2>3 DEF Promise!Produce
<1>2. CASE MarkDone
  <2>1. /\ ~pcmDone /\ pcmDone' = TRUE
        /\ UNCHANGED <<produced, encoder, stream, finished, sent>>
    BY <1>2 DEF MarkDone, encoderVars, streamVars, timerVars
  <2>2. SamplesPlayed' = SamplesPlayed /\ Outcome' = Outcome
    BY <2>1, PlayedStays DEF Outcome
  <2> QED
    BY <2>1, <2>2 DEF Promise!Close, Promise!StreamNext
<1>3. CASE \/ EncoderInit \/ EncoderPops \/ EncodeFrame \/ ChunkEncoded \/ EncoderDrained
           \/ Flush \/ EncoderMarksDone
           \/ TimerSendsSilence \/ Kill \/ UNCHANGED vars
  <2>1. /\ UNCHANGED <<produced, pcmDone, stream, finished, sent>>
        /\ encoder' = "failed" <=> encoder = "failed"
    BY <1>3 DEF EncoderInit, EncoderPops, EncodeFrame, ChunkEncoded, EncoderDrained, Flush,
                EncoderMarksDone, TimerSendsSilence, Kill, EncoderAt,
                vars, producerVars, encoderVars, opusVars, streamVars, timerVars
  <2>2. SamplesPlayed' = SamplesPlayed /\ Outcome' = Outcome
    BY <2>1, PlayedStays DEF Outcome
  <2> QED
    BY <2>1, <2>2 DEF Promise!streamVars
<1>4. CASE TimerSends
  BY <1>4, SendPlays DEF Promise!StreamNext
<1>5. CASE TimerFinishes
  BY <1>5, FinishCompletes DEF Promise!StreamNext
<1>6. CASE Stream \/ BufferDeadline \/ EncoderInitFails
  BY <1>6, StreamBreaks DEF Promise!StreamNext
<1> QED
  BY <1>1, <1>2, <1>3, <1>4, <1>5, <1>6 DEF Next, Encode, Tick, Promise!StreamNext

\* The two queues, the encoder and the timer together implement AudioStream:
\* samples are played in the order they were produced, a frame at a time, none
\* twice, only the last frame is filled up, and a transmission that ends with
\* the timer's end has played all that was produced (srs_client.cpp:109).
THEOREM PromiseKept == Spec => KeepsPromise
<1>1. Init => Promise!StreamInit
  <2> SUFFICES ASSUME Init PROVE Promise!StreamInit
    OBVIOUS
  <2>1. PathInv /\ produced = 0 /\ sent = <<>>
    BY PathInit DEF Init
  <2>2. Len(Played) = 0
    BY <2>1, FlattenNothing DEF Played
  <2>3. SamplesPlayed = 0
    BY <2>1, <2>2, PlayedIs DEF PlayedFirst
  <2> QED
    BY <2>3 DEF Init, Outcome, Promise!StreamInit
<1> QED
  BY <1>1, PathAlways, StepKeepsPromise, PTL DEF Spec, KeepsPromise, Promise!StreamSpec

=============================================================================
