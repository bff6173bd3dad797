--------------------------- MODULE PCMCacheProofs ---------------------------
(***************************************************************************)
(* Proofs about PCMCache, for any keys, sizes of buffers, limits and       *)
(* number of insertions: its books balance, its list is in the order of    *)
(* use, hits are fresh, insertions evict exactly enough, and the cache     *)
(* implements AudioCache.                                                  *)
(*                                                                         *)
(* What BytesOf, a recursive function, computes is proved by induction,    *)
(* for which a set of numbers that has 0 and every successor stands in for *)
(* a predicate.                                                            *)
(***************************************************************************)
EXTENDS PCMCache, FunctionTheorems, FiniteSetTheorems, SequenceTheorems,
        WellFoundedInduction, TLAPS

-----------------------------------------------------------------------------
(* Induction.                                                              *)

LEMMA LeastNumber ==
  ASSUME NEW T, T \subseteq Nat, T # {}
  PROVE  \E x \in T : \A y \in T : x <= y
<1> DEFINE R == OpToRel(<, Nat)
<1>1. IsWellFoundedOn(R, Nat)
  BY NatLessThanWellFounded
<1> HIDE DEF R
<1>2. PICK x \in T : \A y \in T : ~ (<<y, x>> \in R)
  BY <1>1, WFMin
<1>3. \A y \in T : ~ (y < x)
  BY <1>2 DEF R, OpToRel
<1> QED
  BY <1>3

LEMMA NatSetInduction ==
  ASSUME NEW T, 0 \in T, \A n \in Nat : n \in T => n + 1 \in T
  PROVE  Nat \subseteq T
<1> SUFFICES ASSUME Nat \ T # {} PROVE FALSE
  OBVIOUS
<1>1. PICK x \in Nat \ T : \A y \in Nat \ T : x <= y
  BY LeastNumber
<1>2. x # 0
  OBVIOUS
<1>3. x - 1 \in Nat /\ x - 1 \in T
  BY <1>1, <1>2
<1> QED
  BY <1>1, <1>3

\* A bounded set of numbers has a greatest one.
LEMMA MaxOfNumbers ==
  ASSUME NEW n \in Nat, NEW S, S \subseteq 0..n, S # {}
  PROVE  Max(S) \in S /\ \A y \in S : y <= Max(S)
<1> DEFINE T == {n - y : y \in S}
<1>1. PICK z \in T : \A y \in T : z <= y
  <2>1. T \subseteq Nat
    <3>1. \A y \in S : y \in 0..n /\ n - y \in Nat
      OBVIOUS
    <3> QED
      BY <3>1
  <2>2. T # {}
    OBVIOUS
  <2> HIDE DEF T
  <2> QED
    BY <2>1, <2>2, LeastNumber
<1>2. PICK x \in S : z = n - x
  OBVIOUS
<1>3. \A y \in S : x >= y
  <2> TAKE y \in S
  <2>1. n - x <= n - y
    BY <1>1, <1>2
  <2> QED
    BY <2>1
<1> QED
  BY <1>3 DEF Max

-----------------------------------------------------------------------------
(* BytesOf.                                                                *)

\* s has the sums of the first 0, 1, ... n buffers of list.
Sums(s, list, n) ==
  s = [i \in 0..n |-> IF i = 0 THEN 0 ELSE s[i - 1] + list[i].bytes]

LEMMA SumsExist ==
  ASSUME NEW list
  PROVE  \A n \in Nat : \E s : Sums(s, list, n)
<1> DEFINE T == {n \in Nat : \E s : Sums(s, list, n)}
<1>1. 0 \in T
  <2> DEFINE s == [i \in 0..0 |-> 0]
  <2>1. Sums(s, list, 0)
    BY DEF Sums
  <2> QED
    BY <2>1
<1>2. ASSUME NEW n \in Nat, n \in T PROVE n + 1 \in T
  <2>1. PICK s : Sums(s, list, n)
    BY <1>2
  <2> DEFINE t == [i \in 0..(n + 1) |->
                     IF i = n + 1 THEN s[n] + list[n + 1].bytes ELSE s[i]]
  <2>2. \A i \in 0..(n + 1) : t[i] = IF i = 0 THEN 0 ELSE t[i - 1] + list[i].bytes
    <3> TAKE i \in 0..(n + 1)
    <3>1. CASE i = n + 1
      BY <3>1
    <3>2. CASE i # n + 1
      BY <3>2, <2>1 DEF Sums
    <3> QED
      BY <3>1, <3>2
  <2>3. t = [i \in 0..(n + 1) |-> t[i]]
    OBVIOUS
  <2> HIDE DEF t
  <2>4. Sums(t, list, n + 1)
    BY <2>2, <2>3 DEF Sums
  <2> QED
    BY <2>4
<1> HIDE DEF T
<1>3. Nat \subseteq T
  BY <1>1, <1>2, NatSetInduction
<1> QED
  BY <1>3 DEF T

\* BytesOf is the last sum.
LEMMA BytesOfIsSum ==
  ASSUME NEW list, Len(list) \in Nat
  PROVE  \E s : Sums(s, list, Len(list)) /\ BytesOf(list) = s[Len(list)]
<1> DEFINE t == CHOOSE s : Sums(s, list, Len(list))
<1>1. Sums(t, list, Len(list))
  BY SumsExist
<1>2. BytesOf(list) = t[Len(list)]
  BY DEF BytesOf, Sums
<1> QED
  BY <1>1, <1>2

\* Lists of the same length and sizes have the same sum, a natural number.
Sized(list) == Len(list) \in Nat /\ \A i \in 1..Len(list) : list[i].bytes \in Nat

LEMMA BytesOfType ==
  ASSUME NEW list, Sized(list)
  PROVE  BytesOf(list) \in Nat
<1>1. PICK s : Sums(s, list, Len(list)) /\ BytesOf(list) = s[Len(list)]
  BY BytesOfIsSum DEF Sized
<1> DEFINE T == {i \in Nat : i <= Len(list) => s[i] \in Nat}
<1>2. 0 \in T
  BY <1>1 DEF Sums, Sized
<1>3. ASSUME NEW i \in Nat, i \in T PROVE i + 1 \in T
  <2> SUFFICES ASSUME i + 1 <= Len(list) PROVE s[i + 1] \in Nat
    OBVIOUS
  <2>1. s[i + 1] = s[i] + list[i + 1].bytes
    BY <1>1 DEF Sums, Sized
  <2> QED
    BY <2>1, <1>3 DEF Sized
<1> HIDE DEF T
<1>4. Nat \subseteq T
  BY <1>2, <1>3, NatSetInduction
<1> QED
  BY <1>1, <1>4 DEF T, Sized

LEMMA BytesOfSame ==
  ASSUME NEW list, NEW other, Sized(list), Len(other) = Len(list),
         \A i \in 1..Len(list) : other[i].bytes = list[i].bytes
  PROVE  BytesOf(other) = BytesOf(list)
<1>1. PICK s : Sums(s, list, Len(list)) /\ BytesOf(list) = s[Len(list)]
  BY BytesOfIsSum DEF Sized
<1>2. PICK t : Sums(t, other, Len(list)) /\ BytesOf(other) = t[Len(list)]
  BY BytesOfIsSum DEF Sized
<1> DEFINE T == {i \in Nat : i <= Len(list) => t[i] = s[i]}
<1>3. 0 \in T
  BY <1>1, <1>2 DEF Sums, Sized
<1>4. ASSUME NEW i \in Nat, i \in T PROVE i + 1 \in T
  <2> SUFFICES ASSUME i + 1 <= Len(list) PROVE t[i + 1] = s[i + 1]
    OBVIOUS
  <2>1. s[i + 1] = s[i] + list[i + 1].bytes /\ t[i + 1] = t[i] + other[i + 1].bytes
    BY <1>1, <1>2 DEF Sums, Sized
  <2> QED
    BY <2>1, <1>4 DEF Sized
<1> HIDE DEF T
<1>5. Nat \subseteq T
  BY <1>3, <1>4, NatSetInduction
<1> QED
  BY <1>1, <1>2, <1>5 DEF T, Sized

\* The sum of a concatenation: the list all starts with one and goes on with two.
LEMMA BytesOfConcat ==
  ASSUME NEW one, NEW two, NEW all, Sized(one), Sized(two),
         Len(all) = Len(one) + Len(two),
         \A i \in 1..Len(one) : all[i].bytes = one[i].bytes,
         \A i \in 1..Len(two) : all[Len(one) + i].bytes = two[i].bytes
  PROVE  BytesOf(all) = BytesOf(one) + BytesOf(two)
<1>1. PICK s : Sums(s, one, Len(one)) /\ BytesOf(one) = s[Len(one)]
  BY BytesOfIsSum DEF Sized
<1>2. PICK t : Sums(t, two, Len(two)) /\ BytesOf(two) = t[Len(two)]
  BY BytesOfIsSum DEF Sized
<1>3. PICK u : Sums(u, all, Len(all)) /\ BytesOf(all) = u[Len(all)]
  <2>1. Len(all) \in Nat
    BY DEF Sized
  <2> QED
    BY <2>1, BytesOfIsSum, Zenon
<1> USE DEF Sized
<1> DEFINE T == {i \in Nat : i <= Len(one) => u[i] = s[i] /\ s[i] \in Nat}
<1>4. 0 \in T
  BY <1>1, <1>3 DEF Sums
<1>5. ASSUME NEW i \in Nat, i \in T PROVE i + 1 \in T
  <2> SUFFICES ASSUME i + 1 <= Len(one) PROVE u[i + 1] = s[i + 1] /\ s[i + 1] \in Nat
    OBVIOUS
  <2>1. s[i + 1] = s[i] + one[i + 1].bytes /\ u[i + 1] = u[i] + all[i + 1].bytes
    BY <1>1, <1>3 DEF Sums
  <2> QED
    BY <2>1, <1>5
<1>6. Nat \subseteq T
  <2> HIDE DEF T
  <2> QED
    BY <1>4, <1>5, NatSetInduction
<1>7. u[Len(one)] = s[Len(one)] /\ s[Len(one)] \in Nat
  BY <1>6
<1> HIDE DEF T
<1> DEFINE V == {i \in Nat : i <= Len(two) => u[Len(one) + i] = s[Len(one)] + t[i]
                                              /\ t[i] \in Nat}
<1>8. 0 \in V
  BY <1>2, <1>7 DEF Sums
<1>9. ASSUME NEW i \in Nat, i \in V PROVE i + 1 \in V
  <2> SUFFICES ASSUME i + 1 <= Len(two)
               PROVE  /\ u[Len(one) + (i + 1)] = s[Len(one)] + t[i + 1]
                      /\ t[i + 1] \in Nat
    OBVIOUS
  <2>1. t[i + 1] = t[i] + two[i + 1].bytes
    BY <1>2 DEF Sums
  <2>2. u[Len(one) + (i + 1)] = u[Len(one) + i] + all[Len(one) + (i + 1)].bytes
    BY <1>3 DEF Sums
  <2>3. all[Len(one) + (i + 1)].bytes = two[i + 1].bytes /\ two[i + 1].bytes \in Nat
    <3>1. i + 1 \in 1..Len(two)
      OBVIOUS
    <3> QED
      BY <3>1
  <2>4. u[Len(one) + i] = s[Len(one)] + t[i] /\ t[i] \in Nat
    BY <1>9
  <2> QED
    BY <2>1, <2>2, <2>3, <2>4, <1>7, SMTT(30)
<1> HIDE DEF V
<1>10. Nat \subseteq V
  BY <1>8, <1>9, NatSetInduction
<1> QED
  BY <1>1, <1>2, <1>3, <1>10 DEF V

LEMMA BytesOfFew ==
  /\ BytesOf(<<>>) = 0
  /\ \A e : e.bytes \in Nat => BytesOf(<<e>>) = e.bytes
<1>1. BytesOf(<<>>) = 0
  <2>1. PICK s : Sums(s, <<>>, Len(<<>>)) /\ BytesOf(<<>>) = s[Len(<<>>)]
    BY BytesOfIsSum
  <2> QED
    BY <2>1 DEF Sums
<1>2. ASSUME NEW e, e.bytes \in Nat PROVE BytesOf(<<e>>) = e.bytes
  <2>1. PICK s : Sums(s, <<e>>, Len(<<e>>)) /\ BytesOf(<<e>>) = s[Len(<<e>>)]
    BY BytesOfIsSum
  <2>2. Len(<<e>>) = 1 /\ <<e>>[1] = e
    OBVIOUS
  <2>3. s[0] = 0 /\ s[1] = s[0] + e.bytes
    BY <2>1, <2>2 DEF Sums
  <2> QED
    BY <2>1, <2>2, <2>3, <1>2
<1> QED
  BY <1>1, <1>2

-----------------------------------------------------------------------------
(* Lists of entries.                                                       *)

Distinct(list) == \A m, n \in DOMAIN list : list[m].key = list[n].key => m = n

Ordered(list) == \A m, n \in DOMAIN list : m < n => list[m].age <= list[n].age

\* What holds of the contents of the cache, and is passed on by its operations.
Sound(c) ==
  /\ c.list \in Seq(Entry)
  /\ Distinct(c.list)
  /\ Ordered(c.list)
  /\ c.map = KeysOf(c.list)
  /\ c.total = BytesOf(c.list)

LEMMA EntriesAreSized ==
  ASSUME NEW list \in Seq(Entry)
  PROVE  Sized(list) /\ BytesOf(list) \in Nat
<1>1. Sized(list)
  <2>1. Len(list) \in Nat
    OBVIOUS
  <2>2. ASSUME NEW i \in 1..Len(list) PROVE list[i].bytes \in Nat
    <3>1. list[i] \in Entry
      BY <2>1
    <3> QED
      BY <3>1, PCMCacheAssumption DEF Entry
  <2> QED
    BY <2>1, <2>2 DEF Sized
<1> QED
  BY <1>1, BytesOfType

\* The entries up to n, and those after it.
LEMMA ListSplit ==
  ASSUME NEW list \in Seq(Entry), NEW n \in 0..Len(list)
  PROVE  /\ SubSeq(list, 1, n) \in Seq(Entry)
         /\ Len(SubSeq(list, 1, n)) = n
         /\ \A i \in 1..n : SubSeq(list, 1, n)[i] = list[i]
         /\ SubSeq(list, n + 1, Len(list)) \in Seq(Entry)
         /\ Len(SubSeq(list, n + 1, Len(list))) = Len(list) - n
         /\ \A i \in 1..(Len(list) - n) : SubSeq(list, n + 1, Len(list))[i] = list[n + i]
         /\ BytesOf(SubSeq(list, 1, n)) \in Nat
         /\ BytesOf(SubSeq(list, n + 1, Len(list))) \in Nat
         /\ BytesOf(list) = BytesOf(SubSeq(list, 1, n)) + BytesOf(SubSeq(list, n + 1, Len(list)))
<1> DEFINE p == SubSeq(list, 1, n)
           q == SubSeq(list, n + 1, Len(list))
<1>0. Len(list) \in Nat /\ \A i \in 1..Len(list) : list[i] \in Entry
  OBVIOUS
<1>1. p \in Seq(Entry) /\ Len(p) = n /\ \A i \in 1..n : p[i] = list[i]
  BY <1>0, SubSeqProperties
<1>2. q \in Seq(Entry) /\ Len(q) = Len(list) - n /\ \A i \in 1..(Len(list) - n) : q[i] = list[n + i]
  BY <1>0, SubSeqProperties
<1> HIDE DEF p, q
<1>3. BytesOf(list) = BytesOf(p) + BytesOf(q)
  <2>1. Sized(p) /\ Sized(q)
    BY <1>1, <1>2, EntriesAreSized
  <2>2. Len(list) = Len(p) + Len(q)
    BY <1>0, <1>1, <1>2
  <2>3. \A i \in 1..Len(p) : list[i].bytes = p[i].bytes
    BY <1>0, <1>1
  <2>4. \A i \in 1..Len(q) : list[Len(p) + i].bytes = q[i].bytes
    BY <1>0, <1>1, <1>2
  <2> QED
    BY <2>1, <2>2, <2>3, <2>4, BytesOfConcat
<1>4. BytesOf(p) \in Nat /\ BytesOf(q) \in Nat
  BY <1>1, <1>2, EntriesAreSized
<1> QED
  BY <1>1, <1>2, <1>3, <1>4 DEF p, q

\* Dropping the tail keeps the contents sound.
LEMMA KeepFirstSound ==
  ASSUME NEW c, Sound(c), NEW n \in 0..Len(c.list)
  PROVE  /\ Sound(KeepFirst(n, c))
         /\ KeepFirst(n, c).list = SubSeq(c.list, 1, n)
         /\ KeepFirst(n, c).ev = c.ev + (Len(c.list) - n)
<1> DEFINE list == c.list
           p == SubSeq(list, 1, n)
           q == SubSeq(list, n + 1, Len(list))
<1>0. list \in Seq(Entry) /\ Len(list) \in Nat
  BY DEF Sound
<1>1. /\ p \in Seq(Entry) /\ Len(p) = n /\ \A i \in 1..n : p[i] = list[i]
      /\ q \in Seq(Entry) /\ Len(q) = Len(list) - n
      /\ \A i \in 1..(Len(list) - n) : q[i] = list[n + i]
      /\ BytesOf(p) \in Nat /\ BytesOf(q) \in Nat
      /\ BytesOf(list) = BytesOf(p) + BytesOf(q)
  BY <1>0, ListSplit
<1>2. KeepFirst(n, c) = [list |-> p, map |-> c.map \ KeysOf(q),
                         total |-> c.total - BytesOf(q), ev |-> c.ev + Len(q)]
  BY DEF KeepFirst
<1>3. DOMAIN list = 1..Len(list) /\ DOMAIN p = 1..n /\ DOMAIN q = 1..(Len(list) - n)
  BY <1>0, <1>1
<1>4. Distinct(p) /\ Ordered(p)
  <2>1. Distinct(list) /\ Ordered(list)
    BY DEF Sound
  <2> HIDE DEF list, p, q
  <2> QED
    BY <2>1, <1>0, <1>1, <1>3 DEF Distinct, Ordered
<1>5. KeysOf(list) \ KeysOf(q) = KeysOf(p)
  <2>1. Distinct(list)
    BY DEF Sound
  <2> HIDE DEF list, p, q
  <2>2. \A i \in 1..n : list[i].key \notin KeysOf(q)
    <3> SUFFICES ASSUME NEW i \in 1..n, NEW j \in 1..(Len(list) - n),
                        list[i].key = q[j].key
                 PROVE  FALSE
      BY <1>3 DEF KeysOf
    <3>1. list[i].key = list[n + j].key /\ i \in DOMAIN list /\ n + j \in DOMAIN list
      BY <1>0, <1>1, <1>3
    <3> QED
      BY <3>1, <2>1, <1>0 DEF Distinct
  <2>3. \A i \in 1..Len(list) : i > n => list[i].key \in KeysOf(q)
    <3> SUFFICES ASSUME NEW i \in 1..Len(list), i > n
                 PROVE  list[i].key \in KeysOf(q)
      OBVIOUS
    <3>1. i - n \in DOMAIN q /\ q[i - n] = list[i]
      BY <1>0, <1>1, <1>3
    <3> QED
      BY <3>1 DEF KeysOf
  <2>4. KeysOf(p) \subseteq KeysOf(list)
    BY <1>0, <1>1, <1>3 DEF KeysOf
  <2>5. KeysOf(p) \cap KeysOf(q) = {}
    BY <2>2, <1>1, <1>3 DEF KeysOf
  <2>6. KeysOf(list) \ KeysOf(q) \subseteq KeysOf(p)
    <3> SUFFICES ASSUME NEW i \in 1..Len(list), list[i].key \notin KeysOf(q)
                 PROVE  list[i].key \in KeysOf(p)
      BY <1>0 DEF KeysOf
    <3>1. i \in DOMAIN p /\ p[i] = list[i]
      BY <2>3, <1>0, <1>1, <1>3
    <3> QED
      BY <3>1 DEF KeysOf
  <2> QED
    BY <2>4, <2>5, <2>6
<1>6. c.map = KeysOf(list) /\ c.total = BytesOf(list)
  BY DEF Sound
<1> HIDE DEF list, p, q
<1>7. c.total - BytesOf(q) = BytesOf(p)
  BY <1>1, <1>6
<1> QED
  BY <1>1, <1>2, <1>4, <1>5, <1>6, <1>7 DEF Sound, list, p, q

\* The position of a key, in a list that has it once.
LEMMA PositionIsUnique ==
  ASSUME NEW list, Distinct(list), NEW n \in DOMAIN list
  PROVE  PositionOf(list[n].key, list) = n
BY DEF PositionOf, Distinct

LEMMA PositionIsThere ==
  ASSUME NEW list, Distinct(list), NEW k \in KeysOf(list)
  PROVE  PositionOf(k, list) \in DOMAIN list /\ list[PositionOf(k, list)].key = k
<1>1. PICK n \in DOMAIN list : list[n].key = k
  BY DEF KeysOf
<1> QED
  BY <1>1, PositionIsUnique

\* Entry n at the front, accessed now, with b bytes.
LEMMA TouchIs ==
  ASSUME NEW list \in Seq(Entry), NEW n \in 1..Len(list), NEW b \in Audio \ {0}
  PROVE  /\ Touch(list, n, b) \in Seq(Entry)
         /\ Len(Touch(list, n, b)) = Len(list)
         /\ Touch(list, n, b)[1] = [key |-> list[n].key, bytes |-> b, age |-> 0]
         /\ \A i \in 2..Len(list) :
              Touch(list, n, b)[i] = IF i <= n THEN list[i - 1] ELSE list[i]
<1> DEFINE e == [key |-> list[n].key, bytes |-> b, age |-> 0]
           p == SubSeq(list, 1, n - 1)
           q == SubSeq(list, n + 1, Len(list))
<1>0. Len(list) \in Nat /\ list[n] \in Entry
  OBVIOUS
<1>1. e = [key |-> list[n].key, bytes |-> b, age |-> 0] /\ e \in Entry
  BY <1>0, PCMCacheAssumption DEF Entry, MaxAge
<1>2. /\ p \in Seq(Entry) /\ Len(p) = n - 1 /\ \A i \in 1..(n - 1) : p[i] = list[i]
  <2>1. n - 1 \in 0..Len(list)
    BY <1>0
  <2> QED
    BY <2>1, ListSplit
<1>3. /\ q \in Seq(Entry) /\ Len(q) = Len(list) - n
      /\ \A i \in 1..(Len(list) - n) : q[i] = list[n + i]
  <2>1. n \in 0..Len(list)
    BY <1>0
  <2> QED
    BY <2>1, ListSplit, Zenon
<1>4. Touch(list, n, b) = <<e>> \o (p \o q)
  BY DEF Touch, RemoveAt
<1> HIDE DEF e, p, q
<1>5. /\ p \o q \in Seq(Entry) /\ Len(p \o q) = Len(list) - 1
      /\ \A i \in 1..(Len(list) - 1) : (p \o q)[i] = IF i <= n - 1 THEN p[i] ELSE q[i - (n - 1)]
  <2>1. p \o q \in Seq(Entry) /\ Len(p \o q) = Len(p) + Len(q)
    BY <1>2, <1>3, ConcatProperties
  <2>2. \A i \in 1..Len(p \o q) : (p \o q)[i] = IF i <= Len(p) THEN p[i] ELSE q[i - Len(p)]
    BY <1>2, <1>3, ConcatProperties
  <2> QED
    BY <2>1, <2>2, <1>0, <1>2, <1>3
<1>6. \A i \in 1..(Len(list) - 1) : (p \o q)[i] = IF i <= n - 1 THEN list[i] ELSE list[i + 1]
  <2> TAKE i \in 1..(Len(list) - 1)
  <2>1. CASE i <= n - 1
    BY <2>1, <1>0, <1>2, <1>5
  <2>2. CASE ~(i <= n - 1)
    <3>1. i - (n - 1) \in 1..(Len(list) - n) /\ n + (i - (n - 1)) = i + 1
      BY <2>2, <1>0
    <3>2. q[i - (n - 1)] = list[i + 1]
      BY <3>1, <1>3
    <3> QED
      BY <2>2, <3>2, <1>5
  <2> QED
    BY <2>1, <2>2
<1> DEFINE r == p \o q
<1> HIDE DEF r
<1>7. <<e>> \in Seq(Entry) /\ Len(<<e>>) = 1 /\ <<e>>[1] = e
  BY <1>1
<1>8. /\ <<e>> \o r \in Seq(Entry) /\ Len(<<e>> \o r) = Len(list)
      /\ \A i \in 1..Len(list) : (<<e>> \o r)[i] = IF i <= 1 THEN e ELSE r[i - 1]
  BY <1>0, <1>5, <1>7, ConcatProperties DEF r
<1>9. \A i \in 2..Len(list) : (<<e>> \o r)[i] = IF i <= n THEN list[i - 1] ELSE list[i]
  <2> TAKE i \in 2..Len(list)
  <2>1. i - 1 \in 1..(Len(list) - 1) /\ (<<e>> \o r)[i] = r[i - 1]
    BY <1>0, <1>8
  <2>2. r[i - 1] = IF i - 1 <= n - 1 THEN list[i - 1] ELSE list[(i - 1) + 1]
    BY <2>1, <1>6 DEF r
  <2>3. (i - 1) + 1 = i /\ (i - 1 <= n - 1 <=> i <= n)
    BY <1>0
  <2> QED
    BY <2>1, <2>2, <2>3
<1> QED
  BY <1>0, <1>1, <1>4, <1>8, <1>9 DEF r

LEMMA TouchSound ==
  ASSUME NEW list \in Seq(Entry), NEW n \in 1..Len(list), NEW b \in Audio \ {0},
         Distinct(list), Ordered(list)
  PROVE  /\ Distinct(Touch(list, n, b))
         /\ Ordered(Touch(list, n, b))
         /\ KeysOf(Touch(list, n, b)) = KeysOf(list)
         /\ BytesOf(Touch(list, n, b)) = BytesOf(list) - list[n].bytes + b
<1> DEFINE t == Touch(list, n, b)
           e == [key |-> list[n].key, bytes |-> b, age |-> 0]
           was == [i \in 1..Len(list) |->
                     IF i = 1 THEN n ELSE IF i <= n THEN i - 1 ELSE i]
<1>0. /\ Len(list) \in Nat /\ DOMAIN list = 1..Len(list)
      /\ \A i \in 1..Len(list) : list[i] \in Entry
  OBVIOUS
<1>1. /\ t \in Seq(Entry) /\ Len(t) = Len(list) /\ t[1] = e
      /\ \A i \in 2..Len(list) : t[i] = IF i <= n THEN list[i - 1] ELSE list[i]
  BY TouchIs
<1> HIDE DEF t
<1>2. DOMAIN t = 1..Len(list)
  BY <1>1
<1>3. \A i \in 1..Len(list) : was[i] \in 1..Len(list) /\ t[i].key = list[was[i]].key
  <2> TAKE i \in 1..Len(list)
  <2>1. CASE i = 1
    BY <2>1, <1>1
  <2>2. CASE i # 1
    <3>1. i \in 2..Len(list)
      BY <2>2, <1>0
    <3> QED
      BY <2>2, <3>1, <1>0, <1>1
  <2> QED
    BY <2>1, <2>2
<1>4. \A i, j \in 1..Len(list) : was[i] = was[j] => i = j
  BY <1>0
<1>5. \A m \in 1..Len(list) : \E i \in 1..Len(list) : was[i] = m
  <2> TAKE m \in 1..Len(list)
  <2>1. CASE m = n
    <3>1. 1 \in 1..Len(list) /\ was[1] = n
      BY <1>0
    <3> QED
      BY <2>1, <3>1
  <2>2. CASE m < n
    <3>1. m + 1 \in 1..Len(list) /\ was[m + 1] = m
      BY <2>2, <1>0
    <3> QED
      BY <3>1
  <2>3. CASE m > n
    <3>1. was[m] = m
      BY <2>3, <1>0
    <3> QED
      BY <3>1
  <2> QED
    BY <2>1, <2>2, <2>3, <1>0
<1> HIDE DEF was
<1>6. Distinct(t)
  <2> SUFFICES ASSUME NEW i \in 1..Len(list), NEW j \in 1..Len(list), t[i].key = t[j].key
               PROVE  i = j
    BY <1>2 DEF Distinct
  <2>1. list[was[i]].key = list[was[j]].key
    BY <1>3
  <2>2. was[i] = was[j]
    BY <2>1, <1>0, <1>3 DEF Distinct
  <2> QED
    BY <2>2, <1>4
<1>7. Ordered(t)
  <2> SUFFICES ASSUME NEW i \in 1..Len(list), NEW j \in 1..Len(list), i < j
               PROVE  t[i].age <= t[j].age
    BY <1>2 DEF Ordered
  <2>0. j \in 2..Len(list)
    BY <1>0
  <2>1. CASE i = 1
    <3>1. t[j] \in Entry
      BY <1>1, <1>2
    <3>2. t[i].age = 0 /\ t[j].age >= 0
      BY <3>1, <2>1, <1>1 DEF Entry
    <3> QED
      BY <3>2, <3>1 DEF Entry, MaxAge
  <2>2. CASE i # 1
    <3>1. i \in 2..Len(list)
      BY <2>2, <1>0
    <3>2. PICK x \in 1..Len(list), y \in 1..Len(list) :
             t[i] = list[x] /\ t[j] = list[y] /\ x < y
      <4>1. CASE j <= n
        <5>1. t[i] = list[i - 1] /\ t[j] = list[j - 1]
          BY <3>1, <2>0, <4>1, <1>0, <1>1
        <5>2. i - 1 \in 1..Len(list) /\ j - 1 \in 1..Len(list) /\ i - 1 < j - 1
          BY <3>1, <2>0, <1>0
        <5> QED
          BY <5>1, <5>2
      <4>2. CASE j > n /\ i <= n
        <5>1. t[i] = list[i - 1] /\ t[j] = list[j]
          BY <3>1, <2>0, <4>2, <1>0, <1>1
        <5>2. i - 1 \in 1..Len(list) /\ i - 1 < j
          BY <3>1, <1>0
        <5> QED
          BY <5>1, <5>2
      <4>3. CASE i > n
        <5>1. t[i] = list[i] /\ t[j] = list[j]
          BY <3>1, <2>0, <4>3, <1>0, <1>1
        <5> QED
          BY <5>1
      <4> QED
        BY <4>1, <4>2, <4>3, <1>0
    <3> QED
      BY <3>2, <1>0 DEF Ordered
  <2> QED
    BY <2>1, <2>2
<1>8. KeysOf(t) = KeysOf(list)
  <2>1. KeysOf(t) \subseteq KeysOf(list)
    BY <1>0, <1>2, <1>3 DEF KeysOf
  <2>2. ASSUME NEW m \in 1..Len(list) PROVE list[m].key \in KeysOf(t)
    <3>1. PICK i \in 1..Len(list) : was[i] = m
      BY <1>5
    <3>2. i \in DOMAIN t /\ t[i].key = list[m].key
      BY <3>1, <1>2, <1>3
    <3> QED
      BY <3>2 DEF KeysOf
  <2>3. KeysOf(list) \subseteq KeysOf(t)
    BY <2>2, <1>0 DEF KeysOf
  <2> QED
    BY <2>1, <2>3
<1>9. BytesOf(t) = BytesOf(list) - list[n].bytes + b
  <2> DEFINE p == SubSeq(list, 1, n - 1)
             h == SubSeq(list, 1, n)
             q == SubSeq(list, n + 1, Len(list))
             r == SubSeq(t, 1 + 1, Len(t))
  <2>0. n \in 0..Len(list) /\ n - 1 \in 0..Len(list) /\ 1 \in 0..Len(t)
    BY <1>0, <1>1
  <2>1. /\ h \in Seq(Entry) /\ Len(h) = n /\ \A i \in 1..n : h[i] = list[i]
        /\ q \in Seq(Entry) /\ Len(q) = Len(list) - n
        /\ \A i \in 1..(Len(list) - n) : q[i] = list[n + i]
        /\ BytesOf(h) \in Nat /\ BytesOf(q) \in Nat
        /\ BytesOf(list) = BytesOf(h) + BytesOf(q)
    BY <2>0, ListSplit
  <2>2. /\ p \in Seq(Entry) /\ Len(p) = n - 1 /\ \A i \in 1..(n - 1) : p[i] = list[i]
        /\ BytesOf(p) \in Nat
    BY <2>0, ListSplit
  <2>3. /\ SubSeq(t, 1, 1) \in Seq(Entry) /\ Len(SubSeq(t, 1, 1)) = 1
        /\ SubSeq(t, 1, 1)[1] = t[1]
        /\ r \in Seq(Entry) /\ Len(r) = Len(t) - 1
        /\ \A i \in 1..(Len(t) - 1) : r[i] = t[1 + i]
        /\ BytesOf(t) = BytesOf(SubSeq(t, 1, 1)) + BytesOf(r)
    <3>1. t \in Seq(Entry) /\ 1 \in 0..Len(t)
      BY <2>0, <1>1
    <3>2. /\ SubSeq(t, 1, 1) \in Seq(Entry) /\ Len(SubSeq(t, 1, 1)) = 1
          /\ \A i \in 1..1 : SubSeq(t, 1, 1)[i] = t[i]
      BY <3>1, ListSplit
    <3>3. /\ r \in Seq(Entry) /\ Len(r) = Len(t) - 1
          /\ \A i \in 1..(Len(t) - 1) : r[i] = t[1 + i]
      BY <3>1, ListSplit
    <3>4. BytesOf(t) = BytesOf(SubSeq(t, 1, 1)) + BytesOf(r)
      BY <3>1, ListSplit
    <3> QED
      BY <3>2, <3>3, <3>4
  <2> HIDE DEF p, h, q, r
  <2>4. BytesOf(h) = BytesOf(p) + list[n].bytes
    <3>1. list[n].bytes \in Nat
      BY <1>0, PCMCacheAssumption DEF Entry
    <3>2. Sized(p)
      BY <2>2, EntriesAreSized
    <3>3. Len(<<list[n]>>) = 1 /\ <<list[n]>>[1] = list[n]
      OBVIOUS
    <3>4. Sized(<<list[n]>>)
      BY <3>1, <3>3 DEF Sized
    <3>5. Len(h) = Len(p) + Len(<<list[n]>>)
      BY <2>1, <2>2, <3>3
    <3>6. \A i \in 1..Len(p) : h[i].bytes = p[i].bytes
      BY <2>1, <2>2
    <3>7. \A i \in 1..Len(<<list[n]>>) : h[Len(p) + i].bytes = <<list[n]>>[i].bytes
      BY <2>1, <2>2, <3>3
    <3>8. BytesOf(h) = BytesOf(p) + BytesOf(<<list[n]>>)
      BY <3>2, <3>4, <3>5, <3>6, <3>7, BytesOfConcat
    <3> QED
      BY <3>8, <3>1, BytesOfFew
  <2>5. BytesOf(SubSeq(t, 1, 1)) = b
    <3>1. BytesOf(<<e>>) = b
      BY PCMCacheAssumption, BytesOfFew
    <3>2. Sized(SubSeq(t, 1, 1))
      BY <2>3, EntriesAreSized
    <3>3. Len(<<e>>) = 1 /\ <<e>>[1] = e
      OBVIOUS
    <3>4. BytesOf(<<e>>) = BytesOf(SubSeq(t, 1, 1))
      <4>1. Len(<<e>>) = Len(SubSeq(t, 1, 1))
        BY <3>3, <2>3
      <4>2. \A i \in 1..Len(SubSeq(t, 1, 1)) : <<e>>[i].bytes = SubSeq(t, 1, 1)[i].bytes
        <5>1. SubSeq(t, 1, 1)[1] = <<e>>[1] /\ Len(SubSeq(t, 1, 1)) = 1
          BY <3>3, <2>3, <1>1
        <5> QED
          BY <5>1
      <4> QED
        BY <3>2, <4>1, <4>2, BytesOfSame
    <3> QED
      BY <3>1, <3>4
  <2>6. BytesOf(r) = BytesOf(p) + BytesOf(q)
    <3>1. Sized(p) /\ Sized(q)
      BY <2>1, <2>2, EntriesAreSized
    <3>2. Len(r) = Len(p) + Len(q)
      <4>1. Len(r) = Len(list) - 1
        BY <2>3, <1>1
      <4>2. Len(p) = n - 1 /\ Len(q) = Len(list) - n
        BY <2>1, <2>2
      <4> QED
        BY <4>1, <4>2, <1>0
    <3>3. ASSUME NEW i \in 1..Len(p) PROVE r[i].bytes = p[i].bytes
      <4>1. i + 1 \in 2..Len(list) /\ i + 1 <= n /\ (i + 1) - 1 = i
            /\ i \in 1..(Len(t) - 1) /\ i + 1 = 1 + i /\ i \in 1..(n - 1)
        BY <2>2, <1>0, <1>1
      <4>2. r[i] = t[i + 1] /\ t[i + 1] = list[i] /\ p[i] = list[i]
        BY <4>1, <1>1, <2>2, <2>3
      <4> QED
        BY <4>2
    <3>4. ASSUME NEW i \in 1..Len(q) PROVE r[Len(p) + i].bytes = q[i].bytes
      <4>1. /\ n + i \in 2..Len(list) /\ ~(n + i <= n) /\ 1 + (Len(p) + i) = n + i
            /\ Len(p) + i \in 1..(Len(t) - 1) /\ i \in 1..(Len(list) - n)
        BY <2>1, <2>2, <1>0, <1>1
      <4>2. r[Len(p) + i] = t[n + i] /\ t[n + i] = list[n + i] /\ q[i] = list[n + i]
        BY <4>1, <1>1, <2>1, <2>3
      <4> QED
        BY <4>2
    <3> QED
      BY <3>1, <3>2, <3>3, <3>4, BytesOfConcat
  <2>7. list[n].bytes \in Nat /\ b \in Nat
    BY <1>0, PCMCacheAssumption DEF Entry
  <2>8. BytesOf(p) \in Nat /\ BytesOf(q) \in Nat
    BY <2>1, <2>2
  <2>9. BytesOf(list) = BytesOf(h) + BytesOf(q)
    BY <2>1
  <2>10. BytesOf(t) = BytesOf(SubSeq(t, 1, 1)) + BytesOf(r)
    BY <2>3
  <2> QED
    BY <2>4, <2>5, <2>6, <2>7, <2>8, <2>9, <2>10
<1> QED
  BY <1>6, <1>7, <1>8, <1>9 DEF t

\* A new key at the front.
LEMMA InsertSound ==
  ASSUME NEW list \in Seq(Entry), NEW e \in Entry, Distinct(list), Ordered(list),
         e.key \notin KeysOf(list), e.age = 0
  PROVE  /\ <<e>> \o list \in Seq(Entry)
         /\ Len(<<e>> \o list) = Len(list) + 1
         /\ (<<e>> \o list)[1] = e
         /\ \A i \in 1..Len(list) : (<<e>> \o list)[i + 1] = list[i]
         /\ Distinct(<<e>> \o list)
         /\ Ordered(<<e>> \o list)
         /\ KeysOf(<<e>> \o list) = KeysOf(list) \cup {e.key}
         /\ BytesOf(<<e>> \o list) = e.bytes + BytesOf(list)
<1> DEFINE t == <<e>> \o list
<1>0. /\ Len(list) \in Nat /\ DOMAIN list = 1..Len(list)
      /\ \A i \in 1..Len(list) : list[i] \in Entry
      /\ <<e>> \in Seq(Entry) /\ Len(<<e>>) = 1 /\ <<e>>[1] = e
  OBVIOUS
<1>1. t \in Seq(Entry) /\ Len(t) = Len(list) + 1
  BY <1>0, ConcatProperties
<1>2. \A i \in 1..Len(t) : t[i] = IF i <= 1 THEN e ELSE list[i - 1]
  BY <1>0, ConcatProperties
<1> HIDE DEF t
<1>3. t[1] = e /\ \A i \in 1..Len(list) : t[i + 1] = list[i]
  <2>1. 1 \in 1..Len(t)
    BY <1>0, <1>1
  <2>2. ASSUME NEW i \in 1..Len(list) PROVE t[i + 1] = list[i]
    <3>1. i + 1 \in 1..Len(t) /\ ~(i + 1 <= 1) /\ (i + 1) - 1 = i
      BY <1>0, <1>1
    <3> QED
      BY <3>1, <1>2
  <2> QED
    BY <2>1, <2>2, <1>2
<1>4. DOMAIN t = 1..(Len(list) + 1)
  BY <1>1
<1>5. \A i \in DOMAIN t : i = 1 \/ \E j \in 1..Len(list) : i = j + 1
  <2> TAKE i \in DOMAIN t
  <2>1. i # 1 => i - 1 \in 1..Len(list) /\ i = (i - 1) + 1
    BY <1>0, <1>4
  <2> QED
    BY <2>1
<1>6. \A j \in 1..Len(list) : list[j].key # e.key /\ list[j].age >= e.age
  BY <1>0 DEF KeysOf, Entry, MaxAge
<1>7. Distinct(t)
  <2> SUFFICES ASSUME NEW i \in DOMAIN t, NEW j \in DOMAIN t, t[i].key = t[j].key
               PROVE  i = j
    BY DEF Distinct
  <2>1. CASE i = 1
    BY <2>1, <1>3, <1>5, <1>6
  <2>2. CASE j = 1
    BY <2>2, <1>3, <1>5, <1>6
  <2>3. CASE i # 1 /\ j # 1
    <3>1. PICK x \in 1..Len(list) : i = x + 1
      BY <2>3, <1>5
    <3>2. PICK y \in 1..Len(list) : j = y + 1
      BY <2>3, <1>5
    <3>3. list[x].key = list[y].key
      BY <3>1, <3>2, <1>3
    <3> QED
      BY <3>1, <3>2, <3>3, <1>0 DEF Distinct
  <2> QED
    BY <2>1, <2>2, <2>3
<1>8. Ordered(t)
  <2> SUFFICES ASSUME NEW i \in DOMAIN t, NEW j \in DOMAIN t, i < j
               PROVE  t[i].age <= t[j].age
    BY DEF Ordered
  <2>1. j # 1
    BY <1>0, <1>4
  <2>2. PICK y \in 1..Len(list) : j = y + 1
    BY <2>1, <1>5
  <2>3. CASE i = 1
    BY <2>2, <2>3, <1>3, <1>6
  <2>4. CASE i # 1
    <3>1. PICK x \in 1..Len(list) : i = x + 1
      BY <2>4, <1>5
    <3>2. x < y
      BY <2>2, <3>1, <1>0
    <3>3. t[i] = list[x] /\ t[j] = list[y]
      BY <2>2, <3>1, <1>3
    <3>4. x \in DOMAIN list /\ y \in DOMAIN list
      BY <1>0
    <3>5. list[x].age <= list[y].age
      BY <3>2, <3>4, <1>0 DEF Ordered
    <3> QED
      BY <3>3, <3>5
  <2> QED
    BY <2>3, <2>4
<1>9. KeysOf(t) = KeysOf(list) \cup {e.key}
  <2>1. ASSUME NEW i \in DOMAIN t PROVE t[i].key \in KeysOf(list) \cup {e.key}
    <3>1. i = 1 \/ \E x \in 1..Len(list) : i = x + 1
      BY <2>1, <1>5
    <3>2. CASE i = 1
      BY <3>2, <1>3
    <3>3. ASSUME NEW x \in 1..Len(list), i = x + 1
          PROVE t[i].key \in KeysOf(list)
      <4>1. x \in DOMAIN list /\ t[i] = list[x]
        BY <3>3, <1>0, <1>3
      <4> QED
        BY <4>1 DEF KeysOf
    <3> QED
      BY <3>1, <3>2, <3>3
  <2>2. 1 \in DOMAIN t /\ \A j \in 1..Len(list) : j + 1 \in DOMAIN t
    BY <1>0, <1>4
  <2>3. e.key \in KeysOf(t)
    BY <2>2, <1>3 DEF KeysOf
  <2>4. KeysOf(list) \subseteq KeysOf(t)
    BY <2>2, <1>0, <1>3 DEF KeysOf
  <2>5. KeysOf(t) \subseteq KeysOf(list) \cup {e.key}
    BY <2>1 DEF KeysOf
  <2> QED
    BY <2>3, <2>4, <2>5
<1>10. BytesOf(t) = e.bytes + BytesOf(list)
  <2>1. e.bytes \in Nat
    BY PCMCacheAssumption DEF Entry
  <2>2. Sized(<<e>>) /\ Sized(list)
    BY <1>0, EntriesAreSized
  <2>3. Len(t) = Len(<<e>>) + Len(list)
    BY <1>0, <1>1
  <2>4. \A i \in 1..Len(<<e>>) : t[i].bytes = <<e>>[i].bytes
    BY <1>0, <1>3
  <2>5. \A i \in 1..Len(list) : t[Len(<<e>>) + i].bytes = list[i].bytes
    <3> TAKE i \in 1..Len(list)
    <3>1. Len(<<e>>) + i = i + 1
      BY <1>0
    <3> QED
      BY <3>1, <1>3
  <2>6. BytesOf(t) = BytesOf(<<e>>) + BytesOf(list)
    BY <2>2, <2>3, <2>4, <2>5, BytesOfConcat
  <2> QED
    BY <2>1, <2>6, BytesOfFew
<1> QED
  BY <1>1, <1>3, <1>7, <1>8, <1>9, <1>10 DEF t

\* The sweep keeps the entries up to the last that is young enough.
LEMMA SweepKeeps ==
  ASSUME NEW c, Sound(c), NEW ttl \in Nat
  PROVE  \E p \in 0..Len(c.list) :
            /\ SweepExpired(c, ttl) = KeepFirst(p, c)
            /\ p # 0 => ttl = 0 \/ c.list[p].age <= ttl
            /\ \A n \in 1..Len(c.list) : ttl = 0 \/ c.list[n].age <= ttl => n <= p
<1> DEFINE recent == {n \in 1..Len(c.list) : ttl = 0 \/ c.list[n].age <= ttl}
           p == Max(recent \cup {0})
<1>0. Len(c.list) \in Nat
  BY DEF Sound
<1>1. p \in recent \cup {0} /\ \A y \in recent \cup {0} : y <= p
  <2>1. recent \cup {0} \subseteq 0..Len(c.list) /\ recent \cup {0} # {}
    BY <1>0
  <2> HIDE DEF recent
  <2> QED
    BY <1>0, <2>1, MaxOfNumbers
<1>2. SweepExpired(c, ttl) = KeepFirst(p, c)
  BY DEF SweepExpired
<1> HIDE DEF p
<1> QED
  BY <1>0, <1>1, <1>2

\* Enforcing the cap keeps as many entries as fit.
LEMMA CapKeeps ==
  ASSUME NEW c, Sound(c), NEW maxBytes \in Nat
  PROVE  \E q \in 0..Len(c.list) :
            /\ EnforceByteCap(c, maxBytes) = KeepFirst(q, c)
            /\ BytesOf(SubSeq(c.list, 1, q)) <= maxBytes
            /\ \A n \in 0..Len(c.list) : BytesOf(SubSeq(c.list, 1, n)) <= maxBytes => n <= q
<1> DEFINE left(n) == c.total - BytesOf(SubSeq(c.list, n + 1, Len(c.list)))
           fits == {n \in 0..Len(c.list) : left(n) <= maxBytes}
           q == Max(fits \cup {0})
<1>0. c.list \in Seq(Entry) /\ Len(c.list) \in Nat /\ c.total = BytesOf(c.list)
  BY DEF Sound
<1>1. \A n \in 0..Len(c.list) : left(n) = BytesOf(SubSeq(c.list, 1, n))
  <2> TAKE n \in 0..Len(c.list)
  <2>1. /\ BytesOf(SubSeq(c.list, 1, n)) \in Nat
        /\ BytesOf(SubSeq(c.list, n + 1, Len(c.list))) \in Nat
        /\ BytesOf(c.list) = BytesOf(SubSeq(c.list, 1, n))
                               + BytesOf(SubSeq(c.list, n + 1, Len(c.list)))
    BY <1>0, ListSplit
  <2> QED
    BY <2>1, <1>0
<1>2. EnforceByteCap(c, maxBytes) = KeepFirst(q, c)
  BY DEF EnforceByteCap
<1> HIDE DEF left
<1>3. 0 \in fits
  <2>1. 0 \in 0..Len(c.list)
    BY <1>0
  <2>2. SubSeq(c.list, 1, 0) = <<>>
    BY <1>0
  <2>3. left(0) = 0
    BY <2>1, <2>2, <1>1, BytesOfFew
  <2> QED
    BY <2>1, <2>3
<1>4. q \in fits /\ \A y \in fits : y <= q
  <2>1. fits \cup {0} \subseteq 0..Len(c.list) /\ fits \cup {0} # {} /\ fits \cup {0} = fits
    BY <1>0, <1>3
  <2> HIDE DEF fits
  <2> QED
    BY <1>0, <2>1, MaxOfNumbers
<1> HIDE DEF q
<1> QED
  BY <1>1, <1>2, <1>4

-----------------------------------------------------------------------------
(* The books.                                                              *)

\* What every reachable state of the cache satisfies.  Besides the books, the
\* list is in the order of use, evictions and entries together never exceed
\* insertions, and a cache that is disabled or not configured is empty.
BookInv ==
  /\ Sound(Contents)
  /\ config \in [loaded : BOOLEAN, enabled : BOOLEAN, maxBytes : Nat, ttl : 0..ConfigTTL]
  /\ insertions \in 0..MaxInsertions
  /\ evictions \in Nat
  /\ evictions + Len(lru) <= insertions
  /\ answer \in {<<>>} \cup (Keys \X (Audio \cup {NoAudio}))
  /\ ~(config.loaded /\ config.enabled) => lru = <<>>

\* One conjunct of the invariant, for what an operation makes of the contents.
Counts(c, ins) == c.ev \in Nat /\ c.ev + Len(c.list) <= ins

LEMMA EnsuredType ==
  ASSUME BookInv
  PROVE  Ensured \in [loaded : BOOLEAN, enabled : BOOLEAN, maxBytes : Nat, ttl : 0..ConfigTTL]
BY PCMCacheAssumption DEF BookInv, Ensured

LEMMA ContentsSound ==
  ASSUME BookInv
  PROVE  /\ Sound(Contents) /\ Counts(Contents, insertions)
         /\ Contents.list = lru /\ Contents.map = map
         /\ Contents.total = totalBytes /\ Contents.ev = evictions
         /\ lru \in Seq(Entry) /\ Len(lru) \in Nat /\ DOMAIN lru = 1..Len(lru)
         /\ Distinct(lru) /\ Ordered(lru)
         /\ map = KeysOf(lru) /\ totalBytes = BytesOf(lru)
<1>1. /\ Contents.list = lru /\ Contents.map = map
      /\ Contents.total = totalBytes /\ Contents.ev = evictions
  BY DEF Contents
<1>2. Sound(Contents) /\ evictions \in Nat /\ evictions + Len(lru) <= insertions
  BY DEF BookInv
<1> QED
  BY <1>1, <1>2 DEF Sound, Counts

LEMMA KeepFirstCounts ==
  ASSUME NEW c, Sound(c), NEW n \in 0..Len(c.list), NEW ins \in Nat, Counts(c, ins)
  PROVE  Counts(KeepFirst(n, c), ins)
<1>1. c.list \in Seq(Entry) /\ Len(c.list) \in Nat
  BY DEF Sound
<1>2. Len(SubSeq(c.list, 1, n)) = n
  BY <1>1, ListSplit
<1>3. KeepFirst(n, c).list = SubSeq(c.list, 1, n) /\ KeepFirst(n, c).ev = c.ev + (Len(c.list) - n)
  BY KeepFirstSound
<1> QED
  BY <1>1, <1>2, <1>3 DEF Counts

\* The list, the map and the counters after a lookup's sweep.
LEMMA SweptSound ==
  ASSUME BookInv, NEW ttl \in Nat
  PROVE  /\ Sound(SweepExpired(Contents, ttl))
         /\ Counts(SweepExpired(Contents, ttl), insertions)
         /\ \E p \in 0..Len(lru) :
              /\ SweepExpired(Contents, ttl) = KeepFirst(p, Contents)
              /\ SweepExpired(Contents, ttl).list = SubSeq(lru, 1, p)
              /\ SweepExpired(Contents, ttl).ev = evictions + (Len(lru) - p)
              /\ p # 0 => ttl = 0 \/ lru[p].age <= ttl
              /\ \A n \in 1..Len(lru) : ttl = 0 \/ lru[n].age <= ttl => n <= p
<1>1. PICK p \in 0..Len(lru) :
         /\ SweepExpired(Contents, ttl) = KeepFirst(p, Contents)
         /\ p # 0 => ttl = 0 \/ lru[p].age <= ttl
         /\ \A n \in 1..Len(lru) : ttl = 0 \/ lru[n].age <= ttl => n <= p
  BY ContentsSound, SweepKeeps
<1>2. Sound(KeepFirst(p, Contents)) /\ Counts(KeepFirst(p, Contents), insertions)
      /\ KeepFirst(p, Contents).list = SubSeq(lru, 1, p)
      /\ KeepFirst(p, Contents).ev = evictions + (Len(lru) - p)
  <2>1. insertions \in Nat
    BY DEF BookInv
  <2> QED
    BY <2>1, ContentsSound, KeepFirstSound, KeepFirstCounts
<1> QED
  BY <1>1, <1>2

\* The contents after entry k has been touched.
LEMMA TouchedSound ==
  ASSUME NEW c, Sound(c), NEW k \in c.map, NEW b \in Audio \ {0},
         NEW ins \in Nat, Counts(c, ins),
         NEW d, d.list = Touch(c.list, PositionOf(k, c.list), b),
         d.map = c.map, d.total = c.total - c.list[PositionOf(k, c.list)].bytes + b,
         d.ev = c.ev
  PROVE  Sound(d) /\ Counts(d, ins)
<1>1. c.list \in Seq(Entry) /\ Distinct(c.list) /\ Ordered(c.list) /\ k \in KeysOf(c.list)
      /\ c.map = KeysOf(c.list) /\ c.total = BytesOf(c.list)
  BY DEF Sound
<1>2. PositionOf(k, c.list) \in 1..Len(c.list)
  BY <1>1, PositionIsThere
<1> DEFINE list == c.list
           n == PositionOf(k, list)
<1> HIDE DEF list, n
<1>3. Touch(list, n, b) \in Seq(Entry) /\ Len(Touch(list, n, b)) = Len(list)
  BY <1>1, <1>2, TouchIs DEF list, n
<1>4. /\ Distinct(Touch(list, n, b)) /\ Ordered(Touch(list, n, b))
      /\ KeysOf(Touch(list, n, b)) = KeysOf(list)
      /\ BytesOf(Touch(list, n, b)) = BytesOf(list) - list[n].bytes + b
  BY <1>1, <1>2, TouchSound DEF list, n
<1>5. d.list = Touch(list, n, b) /\ d.map = KeysOf(list)
      /\ d.total = BytesOf(list) - list[n].bytes + b
  BY <1>1 DEF list, n
<1> QED
  BY <1>3, <1>4, <1>5 DEF Sound, Counts, list

\* The contents after a new entry has been inserted into c.
LEMMA InsertedSound ==
  ASSUME NEW c, Sound(c), NEW e \in Entry, e.key \notin c.map, e.age = 0,
         NEW ins \in Nat, Counts(c, ins),
         NEW d, d.list = <<e>> \o c.list, d.map = c.map \cup {e.key},
         d.total = c.total + e.bytes, d.ev = c.ev
  PROVE  Sound(d) /\ Counts(d, ins + 1)
<1>1. c.list \in Seq(Entry) /\ Distinct(c.list) /\ Ordered(c.list)
      /\ c.map = KeysOf(c.list) /\ c.total = BytesOf(c.list) /\ Len(c.list) \in Nat
  BY DEF Sound
<1>2. e.bytes \in Nat /\ BytesOf(c.list) \in Nat
  BY <1>1, PCMCacheAssumption, EntriesAreSized DEF Entry
<1>3. /\ d.list \in Seq(Entry) /\ Len(d.list) = Len(c.list) + 1
      /\ Distinct(d.list) /\ Ordered(d.list) /\ KeysOf(d.list) = c.map \cup {e.key}
      /\ BytesOf(d.list) = e.bytes + BytesOf(c.list)
  BY <1>1, InsertSound
<1> QED
  BY <1>1, <1>2, <1>3, SMTT(30) DEF Sound, Counts

\* What an operation leaves behind when it becomes the contents c.
LEMMA BecomesBookInv ==
  ASSUME BookInv, NEW c, Sound(c), Counts(c, insertions'), Becomes(c),
         config' \in [loaded : BOOLEAN, enabled : BOOLEAN, maxBytes : Nat, ttl : 0..ConfigTTL],
         insertions' \in 0..MaxInsertions,
         answer' \in {<<>>} \cup (Keys \X (Audio \cup {NoAudio})),
         ~(config'.loaded /\ config'.enabled) => c.list = <<>>
  PROVE  BookInv'
<1>1. Sound(Contents)'
  BY DEF Sound, Contents, Becomes
<1>2. evictions' \in Nat /\ evictions' + Len(lru') <= insertions'
  BY DEF Counts, Becomes
<1>3. lru' = c.list
  BY DEF Becomes
<1> QED
  BY <1>1, <1>2, <1>3 DEF BookInv

\* What PutNew hands to the cap: the swept list with the new entry in front.
Inserted(k, a) ==
  LET swept == SweepExpired(Contents, Ensured.ttl)
      e == [key |-> k, bytes |-> a, age |-> 0]
  IN  [list |-> <<e>> \o swept.list, map |-> swept.map \cup {k},
       total |-> swept.total + a, ev |-> swept.ev]

LEMMA InsertedIs ==
  ASSUME BookInv, NEW k \in Keys, NEW a \in Audio, a # 0, k \notin map
  PROVE  /\ Sound(Inserted(k, a))
         /\ Counts(Inserted(k, a), insertions + 1)
<1> DEFINE swept == SweepExpired(Contents, Ensured.ttl)
           e == [key |-> k, bytes |-> a, age |-> 0]
<1>1. Ensured.ttl \in Nat /\ insertions \in Nat
  BY EnsuredType, PCMCacheAssumption DEF BookInv
<1>2. PICK p \in 0..Len(lru) : swept = KeepFirst(p, Contents)
  BY <1>1, SweptSound
<1>3. swept.map \subseteq map
  BY <1>2, ContentsSound DEF KeepFirst
<1>4. Sound(swept) /\ Counts(swept, insertions)
  BY <1>1, SweptSound
<1>5. Inserted(k, a) = [list |-> <<e>> \o swept.list, map |-> swept.map \cup {k},
                        total |-> swept.total + a, ev |-> swept.ev]
  BY DEF Inserted
<1>6. e \in Entry /\ e.key = k /\ e.age = 0 /\ e.bytes = a
  BY PCMCacheAssumption DEF Entry, MaxAge
<1> HIDE DEF swept, e
<1> QED
  BY <1>1, <1>3, <1>4, <1>5, <1>6, InsertedSound

LEMMA EmptiedSound ==
  ASSUME NEW ev
  PROVE  Sound(Emptied(ev))
BY BytesOfFew DEF Emptied, Sound, Distinct, Ordered, KeysOf

\* The books hold at the start: the cache is empty.
LEMMA BookInit == Init => BookInv
<1> SUFFICES ASSUME Init PROVE BookInv
  OBVIOUS
<1>1. Contents = Emptied(0)
  BY DEF Init, Contents, Emptied
<1> QED
  BY <1>1, EmptiedSound, PCMCacheAssumption DEF Init, BookInv

\* A look at the cache sweeps it first; what is left is the cache, or the cache
\* once the entry that was looked for has been moved to the front.
LEMMA GetKeepsBooks ==
  ASSUME BookInv, NEW k \in Keys, GetDisabled(k) \/ GetMiss(k) \/ GetHit(k)
  PROVE  BookInv'
<1> DEFINE swept == SweepExpired(Contents, Ensured.ttl)
<1>1. config' = Ensured /\ insertions' = insertions
  BY DEF GetDisabled, GetMiss, GetHit
<1>2. /\ config' \in [loaded : BOOLEAN, enabled : BOOLEAN, maxBytes : Nat, ttl : 0..ConfigTTL]
      /\ config'.loaded /\ Ensured.ttl \in Nat
      /\ insertions' \in 0..MaxInsertions /\ insertions \in Nat
  BY <1>1, EnsuredType, PCMCacheAssumption DEF BookInv, Ensured
<1>3. Sound(swept) /\ Counts(swept, insertions)
  BY <1>2, SweptSound
<1> HIDE DEF swept
<1>4. CASE GetDisabled(k)
  <2>1. Becomes(Contents) /\ answer' \in Keys \X (Audio \cup {NoAudio})
    BY <1>4, ContentsSound DEF GetDisabled, Becomes
  <2>2. lru = <<>>
    BY <1>4, <1>2 DEF GetDisabled, BookInv, Ensured
  <2> QED
    BY <2>1, <2>2, <1>1, <1>2, ContentsSound, BecomesBookInv
<1>5. CASE GetMiss(k)
  <2>1. Becomes(swept) /\ answer' \in Keys \X (Audio \cup {NoAudio}) /\ config'.enabled
    BY <1>1, <1>5 DEF GetMiss, swept
  <2> QED
    BY <2>1, <1>1, <1>2, <1>3, BecomesBookInv
<1>6. CASE GetHit(k)
  <2> DEFINE n == PositionOf(k, swept.list)
             b == swept.list[n].bytes
             d == [list |-> Touch(swept.list, n, b), map |-> swept.map,
                   total |-> swept.total, ev |-> swept.ev]
  <2>1. k \in swept.map /\ Becomes(d) /\ answer' = <<k, b>> /\ config'.enabled
    BY <1>1, <1>6 DEF GetHit, swept
  <2>2. n \in DOMAIN swept.list /\ swept.list \in Seq(Entry) /\ swept.total \in Nat
    <3>1. Distinct(swept.list) /\ k \in KeysOf(swept.list) /\ swept.list \in Seq(Entry)
          /\ swept.total = BytesOf(swept.list)
      BY <2>1, <1>3 DEF Sound
    <3> QED
      BY <3>1, PositionIsThere, EntriesAreSized
  <2>3. swept.list[n] \in Entry
    <3> HIDE DEF n
    <3> QED
      BY <2>2
  <2>4. b \in Audio \ {0} /\ b \in Nat
    <3> HIDE DEF n
    <3> QED
      BY <2>3, PCMCacheAssumption DEF Entry
  <2>5. swept.total = swept.total - b + b
    <3> HIDE DEF b
    <3> QED
      BY <2>2, <2>4
  <2>6. /\ d.list = Touch(swept.list, n, b) /\ d.map = swept.map
        /\ d.total = swept.total - b + b /\ d.ev = swept.ev
    BY <2>5
  <2>7. Sound(d) /\ Counts(d, insertions)
    <3> HIDE DEF d
    <3> QED
      BY <2>1, <2>4, <2>6, <1>2, <1>3, TouchedSound
  <2>8. answer' \in Keys \X (Audio \cup {NoAudio})
    BY <2>1, <2>4
  <2> HIDE DEF d
  <2> QED
    BY <2>1, <2>7, <2>8, <1>1, <1>2, BecomesBookInv
<1> QED
  BY <1>4, <1>5, <1>6

LEMMA PutKeepsBooks ==
  ASSUME BookInv, NEW k \in Keys, NEW a \in Audio,
         PutRejected(k, a) \/ PutReplace(k, a) \/ PutNew(k, a)
  PROVE  BookInv'
<1>1. /\ answer' = answer
      /\ answer \in {<<>>} \cup (Keys \X (Audio \cup {NoAudio}))
      /\ Ensured \in [loaded : BOOLEAN, enabled : BOOLEAN, maxBytes : Nat, ttl : 0..ConfigTTL]
      /\ Ensured.loaded
  BY EnsuredType DEF PutRejected, PutReplace, PutNew, BookInv, Ensured
<1>2. insertions \in 0..MaxInsertions /\ insertions \in Nat /\ Ensured.ttl \in Nat
  BY <1>1, PCMCacheAssumption DEF BookInv
<1>3. CASE PutRejected(k, a)
  <2>1. Becomes(Contents) /\ insertions' = insertions
    BY <1>3, ContentsSound DEF PutRejected, Becomes
  <2>2. config' = config \/ config' = Ensured
    BY <1>3 DEF PutRejected
  <2>3. config \in [loaded : BOOLEAN, enabled : BOOLEAN, maxBytes : Nat, ttl : 0..ConfigTTL]
        /\ (~(config.loaded /\ config.enabled) => lru = <<>>)
    BY DEF BookInv
  <2>4. ~(config'.loaded /\ config'.enabled) => lru = <<>>
    BY <2>2, <2>3 DEF Ensured
  <2> QED
    BY <2>1, <2>2, <2>3, <2>4, <1>1, <1>2, ContentsSound, BecomesBookInv
<1>4. CASE PutReplace(k, a)
  <2> DEFINE n == PositionOf(k, lru)
             d == [list |-> Touch(lru, n, a), map |-> map,
                   total |-> totalBytes - lru[n].bytes + a, ev |-> evictions]
  <2>1. /\ Becomes(d) /\ insertions' = insertions /\ config' = Ensured
        /\ Ensured.enabled /\ k \in map /\ a # 0
    BY <1>4 DEF PutReplace
  <2>2. /\ d.list = Touch(Contents.list, PositionOf(k, Contents.list), a)
        /\ d.map = Contents.map /\ d.ev = Contents.ev
        /\ d.total = Contents.total - Contents.list[PositionOf(k, Contents.list)].bytes + a
    BY ContentsSound
  <2>3. k \in Contents.map
    BY <2>1, ContentsSound
  <2> HIDE DEF d
  <2>4. Sound(d) /\ Counts(d, insertions)
    BY <2>1, <2>2, <2>3, <1>2, ContentsSound, TouchedSound
  <2> QED
    BY <2>1, <2>4, <1>1, <1>2, BecomesBookInv
<1>5. CASE PutNew(k, a)
  <2> DEFINE d == EnforceByteCap(Inserted(k, a), Ensured.maxBytes)
  <2>1. /\ Becomes(d) /\ insertions' = insertions + 1 /\ config' = Ensured
        /\ Ensured.enabled /\ k \notin map /\ a # 0 /\ insertions < MaxInsertions
    BY <1>5 DEF PutNew, Inserted
  <2>2. Sound(Inserted(k, a)) /\ Counts(Inserted(k, a), insertions + 1)
    BY <2>1, InsertedIs
  <2>3. PICK q \in 0..Len(Inserted(k, a).list) : d = KeepFirst(q, Inserted(k, a))
    BY <2>2, <1>1, CapKeeps
  <2>4. Sound(d) /\ Counts(d, insertions + 1)
    BY <2>2, <2>3, <1>2, KeepFirstSound, KeepFirstCounts
  <2>5. insertions' \in 0..MaxInsertions
    BY <2>1, <1>2, PCMCacheAssumption
  <2> HIDE DEF d
  <2> QED
    BY <2>1, <2>4, <2>5, <1>1, BecomesBookInv
<1> QED
  BY <1>3, <1>4, <1>5

\* A tick ages the entries and leaves their order.
LEMMA TickedSound ==
  ASSUME BookInv, Tick
  PROVE  Sound(Contents)' /\ Len(lru') = Len(lru)
<1>0. lru \in Seq(Entry) /\ Len(lru) \in Nat /\ DOMAIN lru = 1..Len(lru)
      /\ \A n \in 1..Len(lru) : lru[n] \in Entry
  BY ContentsSound
<1> DEFINE aged(n) == [lru[n] EXCEPT !.age = IF @ < MaxAge THEN @ + 1 ELSE @]
<1>1. \A n \in 1..Len(lru) :
        /\ aged(n) \in Entry /\ aged(n).key = lru[n].key /\ aged(n).bytes = lru[n].bytes
        /\ aged(n).age = IF lru[n].age < MaxAge THEN lru[n].age + 1 ELSE lru[n].age
  <2> TAKE n \in 1..Len(lru)
  <2>1. lru[n] \in Entry
    BY <1>0
  <2>2. MaxAge \in Nat
    BY PCMCacheAssumption DEF MaxAge
  <2> QED
    BY <2>1, <2>2 DEF Entry
<1>2. lru' = [n \in 1..Len(lru) |-> aged(n)]
  BY <1>0 DEF Tick
<1> HIDE DEF aged
<1>3. lru' \in Seq(Entry) /\ Len(lru') = Len(lru) /\ DOMAIN lru' = 1..Len(lru)
      /\ \A n \in 1..Len(lru) : lru'[n] = aged(n)
  <2>1. \A n \in 1..Len(lru) : lru'[n] = aged(n)
    BY <1>2
  <2>2. lru' \in [1..Len(lru) -> Entry]
    BY <1>1, <1>2
  <2>3. lru' \in Seq(Entry) /\ DOMAIN lru' = 1..Len(lru)
    BY <2>2, <1>0
  <2> QED
    BY <2>1, <2>3, <1>0
<1>4. Distinct(lru')
  BY <1>0, <1>1, <1>3, ContentsSound DEF Distinct
<1>5. Ordered(lru')
  <2> SUFFICES ASSUME NEW m \in 1..Len(lru), NEW n \in 1..Len(lru), m < n
               PROVE  lru'[m].age <= lru'[n].age
    BY <1>3 DEF Ordered
  <2>1. lru[m].age <= lru[n].age
    BY <1>0, ContentsSound DEF Ordered
  <2>2. lru[m].age \in 0..MaxAge /\ lru[n].age \in 0..MaxAge /\ MaxAge \in Nat
    BY <1>0, PCMCacheAssumption DEF Entry, MaxAge
  <2> QED
    BY <2>1, <2>2, <1>1, <1>3
<1>6. KeysOf(lru') = KeysOf(lru)
  BY <1>0, <1>1, <1>3 DEF KeysOf
<1>7. BytesOf(lru') = BytesOf(lru)
  BY <1>0, <1>1, <1>3, EntriesAreSized, BytesOfSame
<1>8. map' = map /\ totalBytes' = totalBytes /\ map = KeysOf(lru) /\ totalBytes = BytesOf(lru)
  BY ContentsSound DEF Tick
<1> QED
  BY <1>3, <1>4, <1>5, <1>6, <1>7, <1>8 DEF Sound, Contents

\* Clearing, the setters, the clock, and steps that leave the cache alone.
LEMMA OthersKeepBooks ==
  ASSUME BookInv,
         \/ Clear
         \/ \E b \in Audio : SetMaxBytes(b)
         \/ \E t \in 0..ConfigTTL : SetTTL(t)
         \/ \E on \in BOOLEAN : SetEnabled(on)
         \/ Tick
         \/ UNCHANGED vars
  PROVE  BookInv'
<1>1. /\ config \in [loaded : BOOLEAN, enabled : BOOLEAN, maxBytes : Nat, ttl : 0..ConfigTTL]
      /\ insertions \in 0..MaxInsertions /\ 0 \in 0..MaxInsertions
      /\ evictions \in Nat /\ evictions + Len(lru) <= insertions
      /\ answer \in {<<>>} \cup (Keys \X (Audio \cup {NoAudio}))
      /\ ~(config.loaded /\ config.enabled) => lru = <<>>
  BY PCMCacheAssumption DEF BookInv
<1>2. Sound(Contents) /\ Counts(Contents, insertions) /\ Len(lru) \in Nat
      /\ Contents.list = lru /\ insertions \in Nat
  BY <1>1, ContentsSound
<1>3. CASE Clear
  <2>1. /\ Becomes(Emptied(0)) /\ insertions' = 0 /\ answer' = answer /\ config' = config
    BY <1>3 DEF Clear
  <2>2. Sound(Emptied(0)) /\ Counts(Emptied(0), 0) /\ Emptied(0).list = <<>>
    BY EmptiedSound DEF Counts, Emptied
  <2> QED
    BY <2>1, <2>2, <1>1, BecomesBookInv
<1>4. ASSUME NEW b \in Audio, SetMaxBytes(b) PROVE BookInv'
  <2> DEFINE d == EnforceByteCap(Contents, b)
  <2>1. /\ Becomes(d) /\ insertions' = insertions /\ answer' = answer
        /\ config' = [config EXCEPT !.maxBytes = b]
    BY <1>4 DEF SetMaxBytes
  <2>2. b \in Nat
    BY PCMCacheAssumption
  <2>3. PICK q \in 0..Len(lru) : d = KeepFirst(q, Contents)
    BY <2>2, <1>2, CapKeeps
  <2>4. Sound(d) /\ Counts(d, insertions) /\ d.list = SubSeq(lru, 1, q)
    BY <2>3, <1>2, KeepFirstSound, KeepFirstCounts
  <2>5. /\ config' \in [loaded : BOOLEAN, enabled : BOOLEAN, maxBytes : Nat, ttl : 0..ConfigTTL]
        /\ config'.loaded = config.loaded /\ config'.enabled = config.enabled
    BY <2>1, <2>2, <1>1
  <2>6. lru = <<>> => d.list = <<>>
    BY <2>4
  <2> HIDE DEF d
  <2> QED
    BY <2>1, <2>4, <2>5, <2>6, <1>1, BecomesBookInv
<1>5. ASSUME NEW t \in 0..ConfigTTL, SetTTL(t) PROVE BookInv'
  <2>1. /\ Becomes(Contents) /\ insertions' = insertions /\ answer' = answer
        /\ config' = [config EXCEPT !.ttl = t]
    BY <1>5, ContentsSound DEF SetTTL, Becomes
  <2>2. /\ config' \in [loaded : BOOLEAN, enabled : BOOLEAN, maxBytes : Nat, ttl : 0..ConfigTTL]
        /\ config'.loaded = config.loaded /\ config'.enabled = config.enabled
    BY <2>1, <1>1
  <2> QED
    BY <2>1, <2>2, <1>1, <1>2, BecomesBookInv
<1>6. ASSUME NEW on \in BOOLEAN, SetEnabled(on) PROVE BookInv'
  <2>1. /\ insertions' = insertions /\ answer' = answer
        /\ config' = [config EXCEPT !.enabled = on]
        /\ (on => Becomes(Contents)) /\ (~on => Becomes(Emptied(evictions)))
    BY <1>6 DEF SetEnabled
  <2>2. /\ config' \in [loaded : BOOLEAN, enabled : BOOLEAN, maxBytes : Nat, ttl : 0..ConfigTTL]
        /\ config'.loaded = config.loaded /\ config'.enabled = on
    BY <2>1, <1>1
  <2>3. /\ Sound(Emptied(evictions)) /\ Counts(Emptied(evictions), insertions)
        /\ Emptied(evictions).list = <<>>
    BY <1>1, <1>2, EmptiedSound DEF Counts, Emptied
  <2>4. CASE on
    <3>1. ~(config'.loaded /\ config'.enabled) => lru = <<>>
      BY <2>2, <2>4, <1>1
    <3> QED
      BY <2>1, <2>2, <2>4, <3>1, <1>1, <1>2, BecomesBookInv
  <2>5. CASE ~on
    BY <2>1, <2>2, <2>3, <2>5, <1>1, BecomesBookInv
  <2> QED
    BY <2>4, <2>5
<1>7. CASE Tick
  <2>1. /\ UNCHANGED <<config, insertions, evictions, answer>>
        /\ Sound(Contents)' /\ Len(lru') = Len(lru)
    BY <1>7, TickedSound DEF Tick
  <2>2. lru = <<>> => lru' = <<>>
    <3>1. ASSUME lru = <<>> PROVE lru' = <<>>
      <4>1. DOMAIN lru = {} /\ DOMAIN lru' = DOMAIN lru
        BY <3>1, <1>7 DEF Tick
      <4>2. lru' = [n \in {} |-> 0]
        BY <4>1, <1>7 DEF Tick
      <4>3. <<>> = [n \in {} |-> 0]
        OBVIOUS
      <4> QED
        BY <4>2, <4>3
    <3> QED
      BY <3>1
  <2> QED
    BY <2>1, <2>2, <1>1 DEF BookInv
<1>8. CASE UNCHANGED vars
  BY <1>1, <1>2, <1>8 DEF vars, BookInv, Contents, Sound
<1> QED
  BY <1>3, <1>4, <1>5, <1>6, <1>7, <1>8

\* Every step keeps the books.
LEMMA BookStep == BookInv /\ [Next]_vars => BookInv'
<1> SUFFICES ASSUME BookInv, [Next]_vars PROVE BookInv'
  OBVIOUS
<1>1. ASSUME NEW k \in Keys, GetDisabled(k) \/ GetMiss(k) \/ GetHit(k) PROVE BookInv'
  BY <1>1, GetKeepsBooks
<1>2. ASSUME NEW k \in Keys, NEW a \in Audio,
             PutRejected(k, a) \/ PutReplace(k, a) \/ PutNew(k, a)
      PROVE  BookInv'
  BY <1>2, PutKeepsBooks
<1>3. CASE \/ Clear
           \/ \E b \in Audio : SetMaxBytes(b)
           \/ \E t \in 0..ConfigTTL : SetTTL(t)
           \/ \E on \in BOOLEAN : SetEnabled(on)
           \/ Tick
           \/ UNCHANGED vars
  BY <1>3, OthersKeepBooks
<1> QED
  BY <1>1, <1>2, <1>3 DEF Next

LEMMA BookAlways == Spec => []BookInv
BY BookInit, BookStep, PTL DEF Spec

\* A list without a key twice has as many keys as entries.
LEMMA KeysCounted ==
  ASSUME NEW list \in Seq(Entry), Distinct(list)
  PROVE  Cardinality(KeysOf(list)) = Len(list)
<1> DEFINE f == [i \in 1..Len(list) |-> list[i].key]
<1>0. Len(list) \in Nat /\ DOMAIN list = 1..Len(list)
  OBVIOUS
<1>1. f \in Bijection(1..Len(list), KeysOf(list))
  <2>1. f \in [1..Len(list) -> KeysOf(list)]
    BY <1>0 DEF KeysOf
  <2>2. \A i, j \in 1..Len(list) : f[i] = f[j] => i = j
    BY <1>0 DEF Distinct
  <2>3. \A k \in KeysOf(list) : \E i \in 1..Len(list) : f[i] = k
    BY <1>0 DEF KeysOf
  <2> HIDE DEF f
  <2> QED
    BY <2>1, <2>2, <2>3, Fun_IsBij
<1> HIDE DEF f
<1>2. ExistsBijection(1..Len(list), KeysOf(list))
  BY <1>1 DEF ExistsBijection
<1>3. IsFiniteSet(1..Len(list)) /\ Cardinality(1..Len(list)) = Len(list)
  BY <1>0, FS_Interval
<1> QED
  BY <1>2, <1>3, FS_Bijection

\* For any keys, sizes, limits and operations: the map and the list have the
\* same keys, none twice, and totalBytes_ is the sum of the buffers in the list
\* (pcm_cache.cpp:145-173, 232-255); each of them has its type.
THEOREM BooksBalanceAlways == Spec => []BooksBalance
<1>1. BookInv => BooksBalance
  <2> SUFFICES ASSUME BookInv PROVE BooksBalance
    OBVIOUS
  <2>1. /\ lru \in Seq(Entry) /\ Len(lru) \in Nat /\ DOMAIN lru = 1..Len(lru)
        /\ map = KeysOf(lru) /\ totalBytes = BytesOf(lru) /\ Distinct(lru)
    BY ContentsSound
  <2>2. Cardinality(map) = Len(lru) /\ totalBytes \in Nat
    BY <2>1, KeysCounted, EntriesAreSized
  <2>3. map \subseteq Keys
    <3>1. \A i \in 1..Len(lru) : lru[i] \in Entry
      BY <2>1
    <3> QED
      BY <2>1, <3>1 DEF KeysOf, Entry
  <2>4. /\ config \in [loaded : BOOLEAN, enabled : BOOLEAN, maxBytes : Nat, ttl : 0..ConfigTTL]
        /\ insertions \in 0..MaxInsertions
        /\ answer \in {<<>>} \cup (Keys \X (Audio \cup {NoAudio}))
    BY DEF BookInv
  <2>5. evictions \in 0..MaxInsertions
    BY <2>1, PCMCacheAssumption DEF BookInv
  <2> QED
    BY <2>1, <2>2, <2>3, <2>4, <2>5 DEF BooksBalance, TypeOK
<1> QED
  BY <1>1, BookAlways, PTL

\* The list is in the order of last access at all times, which is what lets the
\* sweep stop at the first entry that is young enough (pcm_cache.cpp:235).
THEOREM NewestFirstAlways == Spec => []NewestFirst
<1>1. BookInv => NewestFirst
  BY ContentsSound DEF Ordered, NewestFirst
<1> QED
  BY <1>1, BookAlways, PTL

-----------------------------------------------------------------------------
(* Hits and evictions.                                                     *)

\* A hit never hands out a buffer that was last used longer ago than the TTL:
\* what the sweep before it leaves is the part of the list up to an entry that
\* is young enough, and in that part nothing is older (pcm_cache.cpp:113, 232-242).
THEOREM HitsAreFreshAlways == Spec => HitsAreFresh
<1>1. ASSUME BookInv, NEW k \in Keys, GetHit(k), config'.ttl # 0
      PROVE  lru[PositionOf(k, lru)].age <= config'.ttl
  <2>1. config' = Ensured /\ k \in SweepExpired(Contents, Ensured.ttl).map
    BY <1>1 DEF GetHit
  <2>2. Ensured.ttl \in Nat
    BY <1>1, EnsuredType, PCMCacheAssumption
  <2>3. PICK p \in 0..Len(lru) :
           /\ SweepExpired(Contents, Ensured.ttl).list = SubSeq(lru, 1, p)
           /\ p # 0 => Ensured.ttl = 0 \/ lru[p].age <= Ensured.ttl
    BY <1>1, <2>2, SweptSound
  <2>4. k \in KeysOf(SubSeq(lru, 1, p))
    BY <1>1, <2>1, <2>2, <2>3, SweptSound DEF Sound
  <2>5. lru \in Seq(Entry) /\ Len(lru) \in Nat /\ DOMAIN lru = 1..Len(lru)
        /\ Distinct(lru) /\ Ordered(lru)
    BY <1>1, ContentsSound
  <2>6. PICK i \in 1..p : lru[i].key = k
    <3>1. SubSeq(lru, 1, p) \in Seq(Entry) /\ Len(SubSeq(lru, 1, p)) = p
          /\ \A i \in 1..p : SubSeq(lru, 1, p)[i] = lru[i]
      BY <2>5, ListSplit
    <3> QED
      BY <2>4, <3>1 DEF KeysOf
  <2>7. i \in DOMAIN lru /\ p \in DOMAIN lru /\ p # 0
    BY <2>5
  <2>8. PositionOf(k, lru) = i
    BY <2>5, <2>6, <2>7, PositionIsUnique
  <2>9. lru[p].age <= config'.ttl
    BY <1>1, <2>1, <2>3, <2>7
  <2>10. lru[i].age <= lru[p].age
    <3>1. CASE i = p
      <4>1. lru[i] \in Entry
        BY <2>5, <2>7
      <4> QED
        BY <3>1, <4>1, PCMCacheAssumption DEF Entry, MaxAge
    <3>2. CASE i # p
      <4>1. i < p
        BY <3>2
      <4> QED
        BY <4>1, <2>5, <2>7 DEF Ordered
    <3> QED
      BY <3>1, <3>2
  <2>11. lru[i].age \in Int /\ lru[p].age \in Int /\ config'.ttl \in Int
    <3>1. lru[i] \in Entry /\ lru[p] \in Entry
      BY <2>5, <2>7
    <3> QED
      BY <3>1, <2>1, <2>2, PCMCacheAssumption DEF Entry, MaxAge
  <2> QED
    BY <2>8, <2>9, <2>10, <2>11
<1>2. BookInv /\ [Next]_vars =>
        [\A k \in Keys : GetHit(k) /\ config'.ttl # 0
            => lru[PositionOf(k, lru)].age <= config'.ttl]_vars
  BY <1>1
<1> QED
  BY <1>2, BookAlways, PTL DEF Spec, HitsAreFresh

\* What an insertion promises of one step.
EvictsEnough ==
  /\ totalBytes' <= config'.maxBytes
  /\ lru' # <<>> /\ lru'[1].age = 0
  /\ Len(lru') - Len(lru) = 1 - (evictions' - evictions)
  /\ \A n \in DOMAIN lru :
        lru[n].key \notin map' =>
           \/ config'.ttl # 0 /\ lru[n].age > config'.ttl
           \/ BytesOf(SubSeq(lru, 1, n)) + lru'[1].bytes > config'.maxBytes

LEMMA PutNewEvicts ==
  ASSUME BookInv, NEW k \in Keys, NEW a \in Audio, PutNew(k, a)
  PROVE  EvictsEnough
<1> DEFINE swept == SweepExpired(Contents, Ensured.ttl)
           e == [key |-> k, bytes |-> a, age |-> 0]
           list == <<e>> \o swept.list
           max == Ensured.maxBytes
<1>1. /\ Becomes(EnforceByteCap(Inserted(k, a), max)) /\ config' = Ensured
      /\ k \notin map /\ a # 0 /\ a <= max
  BY DEF PutNew, Inserted
<1>2. max \in Nat /\ Ensured.ttl \in Nat /\ a \in Nat /\ e \in Entry
  BY <1>1, EnsuredType, PCMCacheAssumption DEF Entry, MaxAge
<1>3. lru \in Seq(Entry) /\ Len(lru) \in Nat /\ DOMAIN lru = 1..Len(lru)
      /\ evictions \in Nat /\ map = KeysOf(lru)
  BY ContentsSound DEF BookInv
<1>4. PICK p \in 0..Len(lru) :
         /\ swept.list = SubSeq(lru, 1, p)
         /\ swept.ev = evictions + (Len(lru) - p)
         /\ swept = KeepFirst(p, Contents)
         /\ \A n \in 1..Len(lru) : Ensured.ttl = 0 \/ lru[n].age <= Ensured.ttl => n <= p
  BY <1>2, SweptSound
<1>5. /\ swept.list \in Seq(Entry) /\ Len(swept.list) = p
      /\ \A i \in 1..p : swept.list[i] = lru[i]
  BY <1>3, <1>4, ListSplit
<1>6. /\ Sound(Inserted(k, a)) /\ Inserted(k, a).list = list /\ Inserted(k, a).ev = swept.ev
      /\ Sound(swept)
  BY <1>1, <1>2, InsertedIs, SweptSound DEF Inserted
<1> HIDE DEF swept
<1>7. /\ list \in Seq(Entry) /\ Len(list) = p + 1 /\ list[1] = e
      /\ \A i \in 1..p : list[i + 1] = lru[i]
  <2>1. e.key \notin KeysOf(swept.list)
    <3>1. swept.map \subseteq map
      BY <1>4, ContentsSound DEF KeepFirst
    <3> QED
      BY <3>1, <1>1, <1>6 DEF Sound
  <2>2. Distinct(swept.list) /\ Ordered(swept.list)
    BY <1>6 DEF Sound
  <2>3. e.age = 0
    OBVIOUS
  <2> HIDE DEF e
  <2>4. /\ list \in Seq(Entry) /\ Len(list) = Len(swept.list) + 1 /\ list[1] = e
        /\ \A i \in 1..Len(swept.list) : list[i + 1] = swept.list[i]
    BY <1>2, <1>5, <2>1, <2>2, <2>3, InsertSound
  <2> HIDE DEF list
  <2> QED
    BY <2>4, <1>5
<1> HIDE DEF list, max
<1>8. PICK q \in 0..Len(list) :
         /\ EnforceByteCap(Inserted(k, a), max) = KeepFirst(q, Inserted(k, a))
         /\ BytesOf(SubSeq(list, 1, q)) <= max
         /\ \A n \in 0..Len(list) : BytesOf(SubSeq(list, 1, n)) <= max => n <= q
  BY <1>2, <1>6, CapKeeps
<1>9. /\ lru' = SubSeq(list, 1, q) /\ map' = KeysOf(lru') /\ totalBytes' = BytesOf(lru')
      /\ evictions' = swept.ev + (Len(list) - q)
  <2>1. /\ Sound(KeepFirst(q, Inserted(k, a)))
        /\ KeepFirst(q, Inserted(k, a)).list = SubSeq(list, 1, q)
        /\ KeepFirst(q, Inserted(k, a)).ev = swept.ev + (Len(list) - q)
    BY <1>6, <1>8, KeepFirstSound
  <2> QED
    BY <2>1, <1>1, <1>8 DEF Becomes, Sound
<1>10. /\ lru' \in Seq(Entry) /\ Len(lru') = q /\ \A i \in 1..q : lru'[i] = list[i]
  BY <1>7, <1>8, <1>9, ListSplit
\* The buffers up to entry n of lru and the new one.
<1>11. ASSUME NEW n \in 0..p
       PROVE  BytesOf(SubSeq(list, 1, n + 1)) = BytesOf(SubSeq(lru, 1, n)) + a
  <2> DEFINE all == SubSeq(list, 1, n + 1)
             two == SubSeq(lru, 1, n)
  <2>1. n + 1 \in 0..Len(list) /\ n \in 0..Len(lru)
    BY <1>3, <1>7
  <2>2. all \in Seq(Entry) /\ Len(all) = n + 1 /\ \A i \in 1..(n + 1) : all[i] = list[i]
    BY <2>1, <1>7, ListSplit
  <2>3. two \in Seq(Entry) /\ Len(two) = n /\ (\A i \in 1..n : two[i] = lru[i])
        /\ BytesOf(two) \in Nat
    BY <2>1, <1>3, ListSplit
  <2> HIDE DEF all, two
  <2>4. Len(<<e>>) = 1 /\ <<e>>[1] = e /\ e.bytes = a /\ <<e>> \in Seq(Entry)
    BY <1>2
  <2>5. Sized(<<e>>) /\ Sized(two)
    BY <2>3, <2>4, EntriesAreSized
  <2>6. Len(all) = Len(<<e>>) + Len(two)
    BY <2>2, <2>3, <2>4
  <2>7. \A i \in 1..Len(<<e>>) : all[i].bytes = <<e>>[i].bytes
    <3>1. 1 \in 1..(n + 1) /\ all[1] = e
      BY <2>2, <1>7
    <3> QED
      BY <3>1, <2>4
  <2>8. \A i \in 1..Len(two) : all[Len(<<e>>) + i].bytes = two[i].bytes
    <3> TAKE i \in 1..Len(two)
    <3>1. Len(<<e>>) + i = i + 1 /\ i + 1 \in 1..(n + 1) /\ i \in 1..n /\ i \in 1..p
      BY <2>3, <2>4
    <3>2. all[i + 1] = list[i + 1] /\ list[i + 1] = lru[i] /\ two[i] = lru[i]
      BY <3>1, <2>2, <2>3, <1>7
    <3> QED
      BY <3>1, <3>2
  <2>9. BytesOf(all) = BytesOf(<<e>>) + BytesOf(two)
    BY <2>5, <2>6, <2>7, <2>8, BytesOfConcat
  <2>10. BytesOf(<<e>>) = a
    BY <2>4, <1>2, BytesOfFew
  <2> QED
    BY <2>3, <2>9, <2>10, <1>2 DEF all, two
\* The new entry itself is kept.
<1>12. 1 <= q
  <2>1. SubSeq(lru, 1, 0) = <<>>
    BY <1>3
  <2>2. BytesOf(SubSeq(list, 1, 0 + 1)) = a
    <3>1. 0 \in 0..p
      OBVIOUS
    <3>2. BytesOf(SubSeq(list, 1, 0 + 1)) = BytesOf(SubSeq(lru, 1, 0)) + a
      BY <3>1, <1>11
    <3>3. BytesOf(SubSeq(lru, 1, 0)) = 0
      BY <2>1, BytesOfFew
    <3> QED
      BY <3>2, <3>3, <1>2
  <2>3. 0 + 1 \in 0..Len(list)
    BY <1>7
  <2> QED
    BY <2>2, <2>3, <1>1, <1>8 DEF max
<1>13. lru'[1] = e /\ lru' # <<>>
  <2>1. 1 \in 1..q
    BY <1>12
  <2>2. Len(<<>>) = 0
    OBVIOUS
  <2> QED
    BY <2>1, <2>2, <1>7, <1>10, <1>12
<1>14. ASSUME NEW n \in 1..Len(lru), lru[n].key \notin map'
       PROVE  \/ Ensured.ttl # 0 /\ lru[n].age > Ensured.ttl
              \/ BytesOf(SubSeq(lru, 1, n)) + a > max
  <2>0. lru[n] \in Entry
    BY <1>3
  <2>1. lru[n].age \in Int
    BY <2>0, PCMCacheAssumption DEF Entry, MaxAge
  <2>2. CASE n > p
    BY <2>1, <2>2, <1>2, <1>4
  <2>3. CASE n <= p
    <3>1. n \in 1..p /\ n + 1 \in 0..Len(list) /\ n \in 0..p
      BY <2>3, <1>7
    <3>2. ~(n + 1 <= q)
      <4> SUFFICES ASSUME n + 1 <= q PROVE FALSE
        OBVIOUS
      <4>1. n + 1 \in 1..q
        BY <3>1
      <4>2. lru'[n + 1] = lru[n] /\ n + 1 \in DOMAIN lru'
        BY <3>1, <4>1, <1>7, <1>10
      <4> QED
        BY <4>2, <1>9, <1>14 DEF KeysOf
    <3>3. ~(BytesOf(SubSeq(list, 1, n + 1)) <= max)
      BY <3>1, <3>2, <1>8
    <3>4. BytesOf(SubSeq(list, 1, n + 1)) = BytesOf(SubSeq(lru, 1, n)) + a
      BY <3>1, <1>11
    <3>5. BytesOf(SubSeq(lru, 1, n)) \in Nat
      <4>1. n \in 0..Len(lru)
        OBVIOUS
      <4> QED
        BY <4>1, <1>3, ListSplit
    <3> QED
      BY <3>3, <3>4, <3>5, <1>2
  <2> QED
    BY <2>2, <2>3
<1>15. Len(lru') - Len(lru) = 1 - (evictions' - evictions)
  BY <1>3, <1>4, <1>7, <1>8, <1>9, <1>10
<1>16. e.bytes = a /\ e.age = 0
  OBVIOUS
<1> HIDE DEF e
<1> QED
  BY <1>1, <1>3, <1>8, <1>9, <1>13, <1>14, <1>15, <1>16 DEF EvictsEnough, max

\* What a step promises that makes the cache grow beyond its cap.
GrowsByReplacement ==
  totalBytes' > totalBytes /\ totalBytes' > config'.maxBytes =>
     /\ map' = map /\ evictions' = evictions
     /\ lru' # <<>> /\ lru'[1].bytes <= config'.maxBytes

\* Dropping the tail adds no bytes.
LEMMA KeepFirstShrinks ==
  ASSUME BookInv, NEW n \in 0..Len(lru)
  PROVE  KeepFirst(n, Contents).total \in Int /\ KeepFirst(n, Contents).total <= totalBytes
<1> DEFINE gone == SubSeq(lru, n + 1, Len(lru))
<1>1. BytesOf(gone) \in Nat /\ totalBytes \in Nat
  BY ContentsSound, ListSplit, EntriesAreSized
<1>2. KeepFirst(n, Contents).total = totalBytes - BytesOf(gone)
  BY ContentsSound DEF KeepFirst
<1> HIDE DEF gone
<1> QED
  BY <1>1, <1>2

LEMMA GetShrinks ==
  ASSUME BookInv, NEW k \in Keys, GetDisabled(k) \/ GetMiss(k) \/ GetHit(k)
  PROVE  totalBytes' \in Int /\ totalBytes' <= totalBytes
<1>1. totalBytes \in Nat /\ Ensured.ttl \in Nat
  BY ContentsSound, EntriesAreSized, EnsuredType, PCMCacheAssumption
<1>2. CASE GetDisabled(k)
  BY <1>1, <1>2 DEF GetDisabled
<1>3. CASE GetMiss(k) \/ GetHit(k)
  <2>1. totalBytes' = SweepExpired(Contents, Ensured.ttl).total
    BY <1>3 DEF GetMiss, GetHit, Becomes
  <2>2. PICK p \in 0..Len(lru) : SweepExpired(Contents, Ensured.ttl) = KeepFirst(p, Contents)
    BY <1>1, SweptSound
  <2> QED
    BY <2>1, <2>2, KeepFirstShrinks
<1> QED
  BY <1>2, <1>3

LEMMA PutReplaceGrows ==
  ASSUME BookInv, NEW k \in Keys, NEW a \in Audio, PutReplace(k, a)
  PROVE  GrowsByReplacement
<1> DEFINE n == PositionOf(k, lru)
<1>1. /\ lru' = Touch(lru, n, a) /\ map' = map /\ evictions' = evictions
      /\ config' = Ensured /\ a # 0 /\ a <= Ensured.maxBytes /\ k \in map
  BY DEF PutReplace, Becomes
<1>2. n \in 1..Len(lru) /\ lru \in Seq(Entry)
  BY <1>1, ContentsSound, PositionIsThere
<1> HIDE DEF n
<1>3. Len(lru') = Len(lru) /\ lru'[1].bytes = a
  <2> DEFINE list == Touch(lru, n, a)
  <2>1. Len(list) = Len(lru) /\ list[1] = [key |-> lru[n].key, bytes |-> a, age |-> 0]
    BY <1>1, <1>2, TouchIs
  <2>2. lru' = list
    BY <1>1
  <2> HIDE DEF list
  <2> QED
    BY <2>1, <2>2
<1>4. lru' # <<>>
  <2>1. Len(<<>>) = 0
    OBVIOUS
  <2> QED
    BY <2>1, <1>2, <1>3
<1> QED
  BY <1>1, <1>3, <1>4 DEF GrowsByReplacement

LEMMA OthersShrink ==
  ASSUME BookInv,
         \/ Clear
         \/ \E b \in Audio : SetMaxBytes(b)
         \/ \E t \in 0..ConfigTTL : SetTTL(t)
         \/ \E on \in BOOLEAN : SetEnabled(on)
         \/ Tick
         \/ UNCHANGED vars
  PROVE  totalBytes' \in Int /\ totalBytes' <= totalBytes
<1>1. totalBytes \in Nat
  BY ContentsSound, EntriesAreSized
<1>2. CASE Clear \/ \E on \in BOOLEAN : SetEnabled(on)
  <2>1. totalBytes' \in {0, totalBytes}
    BY <1>2, ContentsSound DEF Clear, SetEnabled, Becomes, Emptied
  <2> QED
    BY <2>1, <1>1
<1>3. CASE \E b \in Audio : SetMaxBytes(b)
  <2>1. PICK b \in Audio : SetMaxBytes(b)
    BY <1>3
  <2>2. b \in Nat /\ Contents.list = lru
    BY PCMCacheAssumption, ContentsSound
  <2>3. totalBytes' = EnforceByteCap(Contents, b).total
    BY <2>1 DEF SetMaxBytes, Becomes
  <2>4. PICK q \in 0..Len(lru) : EnforceByteCap(Contents, b) = KeepFirst(q, Contents)
    BY <2>2, ContentsSound, CapKeeps
  <2> QED
    BY <2>3, <2>4, KeepFirstShrinks
<1>4. CASE (\E t \in 0..ConfigTTL : SetTTL(t)) \/ Tick \/ UNCHANGED vars
  BY <1>1, <1>4 DEF SetTTL, Tick, vars
<1> QED
  BY <1>2, <1>3, <1>4

\* Whatever makes no new entry leaves the cache no larger, or replaces a buffer.
LEMMA StepGrows ==
  ASSUME BookInv, [Next]_vars
  PROVE  GrowsByReplacement
<1>0. totalBytes \in Nat
  BY ContentsSound, EntriesAreSized
<1>1. ASSUME totalBytes' \in Int, totalBytes' <= totalBytes PROVE GrowsByReplacement
  BY <1>0, <1>1 DEF GrowsByReplacement
<1>2. ASSUME NEW k \in Keys, GetDisabled(k) \/ GetMiss(k) \/ GetHit(k)
      PROVE  GrowsByReplacement
  BY <1>1, <1>2, GetShrinks
<1>3. ASSUME NEW k \in Keys, NEW a \in Audio,
             PutRejected(k, a) \/ PutReplace(k, a) \/ PutNew(k, a)
      PROVE  GrowsByReplacement
  <2>1. CASE PutRejected(k, a)
    BY <2>1, <1>0, <1>1 DEF PutRejected
  <2>2. CASE PutReplace(k, a)
    BY <2>2, PutReplaceGrows
  <2>3. CASE PutNew(k, a)
    <3>1. totalBytes' <= config'.maxBytes
      BY <2>3, PutNewEvicts DEF EvictsEnough
    <3>2. BookInv'
      BY <2>3, PutKeepsBooks
    <3>3. totalBytes' \in Nat /\ config'.maxBytes \in Nat
      <4>1. Sound(Contents)' /\ Contents'.total = totalBytes' /\ config'.maxBytes \in Nat
        BY <3>2 DEF BookInv, Contents
      <4> QED
        BY <4>1, EntriesAreSized DEF Sound
    <3> QED
      BY <3>1, <3>3 DEF GrowsByReplacement
  <2> QED
    BY <1>3, <2>1, <2>2, <2>3
<1>4. CASE \/ Clear
           \/ \E b \in Audio : SetMaxBytes(b)
           \/ \E t \in 0..ConfigTTL : SetTTL(t)
           \/ \E on \in BOOLEAN : SetEnabled(on)
           \/ Tick
           \/ UNCHANGED vars
  BY <1>1, <1>4, OthersShrink
<1> QED
  BY <1>2, <1>3, <1>4 DEF Next

\* A new entry evicts exactly enough: the cache is within its cap and keeps what
\* was inserted, what it evicts is too old or would not have fitted before
\* anything kept, and each eviction is counted once (pcm_cache.cpp:158-173).  A
\* step that makes the cache grow beyond its cap has replaced a buffer by one
\* that alone fits, and has evicted nothing for it (145-156).
THEOREM EvictsExactlyEnoughAlways == Spec => EvictsExactlyEnough
<1>1. ASSUME BookInv, [Next]_vars, insertions' = insertions + 1 PROVE EvictsEnough
  <2>0. insertions \in Nat
    BY <1>1 DEF BookInv
  <2>1. insertions' # insertions /\ insertions' # 0
    BY <1>1, <2>0
  <2>2. ASSUME NEW k \in Keys, GetDisabled(k) \/ GetMiss(k) \/ GetHit(k) PROVE FALSE
    BY <2>1, <2>2 DEF GetDisabled, GetMiss, GetHit
  <2>3. ASSUME NEW k \in Keys, NEW a \in Audio, PutRejected(k, a) \/ PutReplace(k, a)
        PROVE  FALSE
    BY <2>1, <2>3 DEF PutRejected, PutReplace
  <2>4. ASSUME NEW k \in Keys, NEW a \in Audio, PutNew(k, a) PROVE EvictsEnough
    BY <1>1, <2>4, PutNewEvicts
  <2>5. CASE \/ Clear
             \/ \E b \in Audio : SetMaxBytes(b)
             \/ \E t \in 0..ConfigTTL : SetTTL(t)
             \/ \E on \in BOOLEAN : SetEnabled(on)
             \/ Tick
             \/ UNCHANGED vars
    BY <2>1, <2>5 DEF Clear, SetMaxBytes, SetTTL, SetEnabled, Tick, vars
  <2> QED
    BY <1>1, <2>2, <2>3, <2>4, <2>5 DEF Next
<1>2. BookInv /\ [Next]_vars =>
        [(insertions' = insertions + 1 => EvictsEnough) /\ GrowsByReplacement]_vars
  BY <1>1, StepGrows
<1> QED
  BY <1>2, BookAlways, PTL DEF Spec, EvictsExactlyEnough, EvictsEnough, GrowsByReplacement

-----------------------------------------------------------------------------
(* The promise of AudioCache.                                              *)

\* What the contents c hold under each key: StoredUnder, for any contents.
Held(c) == [k \in Keys |-> IF k \in c.map THEN c.list[PositionOf(k, c.list)].bytes ELSE NoAudio]

LEMMA HeldIs ==
  ASSUME NEW c, Sound(c)
  PROVE  /\ \A i \in 1..Len(c.list) : c.list[i].key \in Keys
              /\ Held(c)[c.list[i].key] = c.list[i].bytes
         /\ \A k \in Keys \ c.map : Held(c)[k] = NoAudio
         /\ \A k \in c.map : \E i \in 1..Len(c.list) : c.list[i].key = k
         /\ Len(c.list) \in Nat
<1>1. /\ c.list \in Seq(Entry) /\ Distinct(c.list) /\ c.map = KeysOf(c.list)
      /\ Len(c.list) \in Nat /\ DOMAIN c.list = 1..Len(c.list)
  BY DEF Sound
<1>2. ASSUME NEW i \in 1..Len(c.list)
      PROVE  c.list[i].key \in Keys /\ Held(c)[c.list[i].key] = c.list[i].bytes
  <2>1. c.list[i] \in Entry /\ c.list[i].key \in c.map
    BY <1>1 DEF KeysOf
  <2>2. PositionOf(c.list[i].key, c.list) = i
    BY <1>1, PositionIsUnique
  <2> QED
    BY <2>1, <2>2 DEF Held, Entry
<1> QED
  BY <1>1, <1>2 DEF Held, KeysOf

\* Entry i of d is one of c, or is the one of key k, which has b bytes.
ComesFrom(c, d, i, k, b) ==
  \/ d.list[i].key = k /\ d.list[i].bytes = b
  \/ \E j \in 1..Len(c.list) : /\ c.list[j].key = d.list[i].key
                              /\ c.list[j].bytes = d.list[i].bytes
                              /\ c.list[j].key # k

LEMMA HeldSame ==
  ASSUME NEW c, Sound(c), NEW d, Sound(d), NEW k, NEW b,
         \A i \in 1..Len(d.list) : ComesFrom(c, d, i, k, b)
  PROVE  \A x \in Keys : Held(d)[x] = IF x \in d.map THEN IF x = k THEN b ELSE Held(c)[x]
                                      ELSE NoAudio
<1> TAKE x \in Keys
<1>1. CASE x \notin d.map
  BY <1>1, HeldIs
<1>2. CASE x \in d.map
  <2>1. PICK i \in 1..Len(d.list) : d.list[i].key = x
    BY <1>2, HeldIs
  <2>2. Held(d)[x] = d.list[i].bytes
    BY <2>1, HeldIs
  <2>3. CASE d.list[i].key = k /\ d.list[i].bytes = b
    BY <2>1, <2>2, <2>3, <1>2
  <2>4. ASSUME NEW j \in 1..Len(c.list), c.list[j].key = d.list[i].key,
               c.list[j].bytes = d.list[i].bytes, c.list[j].key # k
        PROVE  x # k /\ Held(d)[x] = Held(c)[x]
    BY <2>1, <2>2, <2>4, HeldIs
  <2>5. ComesFrom(c, d, i, k, b)
    OBVIOUS
  <2> QED
    BY <2>3, <2>4, <2>5, <1>2 DEF ComesFrom
<1> QED
  BY <1>1, <1>2

\* After evictions every key that is left holds what it held.
LEMMA HeldAfterKeepFirst ==
  ASSUME NEW c, Sound(c), NEW n \in 0..Len(c.list)
  PROVE  \A x \in Keys : Held(KeepFirst(n, c))[x] =
            IF x \in KeepFirst(n, c).map THEN Held(c)[x] ELSE NoAudio
<1> DEFINE d == KeepFirst(n, c)
<1>0. c.list \in Seq(Entry) /\ Len(c.list) \in Nat
  BY DEF Sound
<1>1. Sound(d) /\ d.list = SubSeq(c.list, 1, n)
  BY KeepFirstSound
<1>2. Len(d.list) = n /\ \A i \in 1..n : d.list[i] = c.list[i]
  BY <1>0, <1>1, ListSplit
<1> HIDE DEF d
<1>3. PICK k : k \notin Keys
  <2>1. \E k : k \notin Keys
    BY NoSetContainsEverything
  <2> QED
    BY <2>1
<1>4. \A i \in 1..Len(d.list) : ComesFrom(c, d, i, k, k)
  <2> TAKE i \in 1..Len(d.list)
  <2>1. i \in 1..Len(c.list) /\ d.list[i] = c.list[i]
    BY <1>0, <1>2
  <2>2. c.list[i].key \in Keys
    BY <2>1, HeldIs
  <2> QED
    BY <2>1, <2>2, <1>3 DEF ComesFrom
<1>5. \A x \in Keys : Held(d)[x] = IF x \in d.map THEN IF x = k THEN k ELSE Held(c)[x]
                                   ELSE NoAudio
  BY <1>1, <1>4, HeldSame
<1> QED
  BY <1>3, <1>5 DEF d

\* After a touch every key holds what it held, but the entry that was touched.
LEMMA HeldAfterTouch ==
  ASSUME NEW c, Sound(c), NEW k \in c.map, NEW b \in Audio \ {0},
         NEW d, Sound(d), d.list = Touch(c.list, PositionOf(k, c.list), b), d.map = c.map
  PROVE  \A x \in Keys : Held(d)[x] = IF x = k THEN b ELSE Held(c)[x]
<1> DEFINE list == c.list
           n == PositionOf(k, list)
<1>1. list \in Seq(Entry) /\ Distinct(list) /\ k \in KeysOf(list) /\ Len(list) \in Nat
      /\ DOMAIN list = 1..Len(list)
  BY DEF Sound
<1>2. n \in 1..Len(list) /\ list[n].key = k
  BY <1>1, PositionIsThere
<1> HIDE DEF list, n
<1>3. /\ Len(Touch(list, n, b)) = Len(list)
      /\ Touch(list, n, b)[1] = [key |-> list[n].key, bytes |-> b, age |-> 0]
      /\ \A i \in 2..Len(list) :
            Touch(list, n, b)[i] = IF i <= n THEN list[i - 1] ELSE list[i]
  BY <1>1, <1>2, TouchIs
<1>4. d.list = Touch(list, n, b)
  BY DEF list, n
<1>5. ASSUME NEW i \in 1..Len(d.list)
      PROVE  ComesFrom(c, d, i, k, b)
  <2>1. CASE i = 1
    BY <2>1, <1>2, <1>3, <1>4 DEF ComesFrom
  <2>2. CASE i # 1
    <3>1. i \in 2..Len(list)
      BY <2>2, <1>1, <1>3, <1>4
    <3>2. PICK j \in 1..Len(list) : d.list[i] = list[j] /\ j # n
      <4>1. CASE i <= n
        <5>1. i - 1 \in 1..Len(list) /\ i - 1 # n
          BY <4>1, <3>1, <1>1, <1>2
        <5> QED
          BY <5>1, <4>1, <3>1, <1>3, <1>4
      <4>2. CASE ~(i <= n)
        <5>1. i \in 1..Len(list) /\ i # n
          BY <4>2, <3>1, <1>1, <1>2
        <5> QED
          BY <5>1, <4>2, <3>1, <1>3, <1>4
      <4> QED
        BY <4>1, <4>2
    <3>3. list[j].key # k
      BY <3>2, <1>1, <1>2 DEF Distinct
    <3> QED
      BY <3>2, <3>3 DEF ComesFrom, list
  <2> QED
    BY <2>1, <2>2
<1>6. \A x \in Keys : Held(d)[x] = IF x \in d.map THEN IF x = k THEN b ELSE Held(c)[x]
                                   ELSE NoAudio
  BY <1>5, HeldSame
<1>7. \A x \in Keys \ c.map : Held(c)[x] = NoAudio
  BY HeldIs
<1> QED
  BY <1>6, <1>7

\* After an insertion every key holds what it held, and the new one its buffer.
LEMMA HeldAfterInsert ==
  ASSUME NEW c, Sound(c), NEW e \in Entry, e.key \notin c.map, e.age = 0,
         NEW d, Sound(d), d.list = <<e>> \o c.list, d.map = c.map \cup {e.key}
  PROVE  \A x \in Keys : Held(d)[x] = IF x = e.key THEN e.bytes ELSE Held(c)[x]
<1>1. /\ c.list \in Seq(Entry) /\ Distinct(c.list) /\ Ordered(c.list)
      /\ e.key \notin KeysOf(c.list) /\ Len(c.list) \in Nat
      /\ DOMAIN c.list = 1..Len(c.list)
  BY DEF Sound
<1>2. /\ Len(d.list) = Len(c.list) + 1 /\ d.list[1] = e
      /\ \A i \in 1..Len(c.list) : d.list[i + 1] = c.list[i]
  BY <1>1, InsertSound
<1>3. ASSUME NEW i \in 1..Len(d.list)
      PROVE  ComesFrom(c, d, i, e.key, e.bytes)
  <2>1. CASE i = 1
    BY <2>1, <1>2 DEF ComesFrom
  <2>2. CASE i # 1
    <3>1. i - 1 \in 1..Len(c.list) /\ (i - 1) + 1 = i
      BY <2>2, <1>1, <1>2
    <3>2. d.list[i] = c.list[i - 1]
      BY <3>1, <1>2
    <3>3. c.list[i - 1].key # e.key
      BY <3>1, <1>1 DEF KeysOf
    <3> QED
      BY <3>1, <3>2, <3>3 DEF ComesFrom
  <2> QED
    BY <2>1, <2>2
<1>4. \A x \in Keys : Held(d)[x] = IF x \in d.map THEN IF x = e.key THEN e.bytes
                                                      ELSE Held(c)[x]
                                   ELSE NoAudio
  BY <1>3, HeldSame
<1>5. \A x \in Keys \ c.map : Held(c)[x] = NoAudio
  BY HeldIs
<1> QED
  BY <1>4, <1>5

\* What the promise is about is what the contents hold.
Stored == [k \in Keys |-> StoredUnder(k)]

LEMMA StoredIsHeld ==
  ASSUME BookInv
  PROVE  /\ Stored = Held(Contents)
         /\ Stored' = [k \in Keys |-> IF k \in map' THEN lru'[PositionOf(k, lru')].bytes
                                     ELSE NoAudio]
BY ContentsSound DEF Stored, StoredUnder, Held

LEMMA StoredBecomes ==
  ASSUME NEW c, Becomes(c)
  PROVE  Stored' = Held(c)
BY DEF Stored, StoredUnder, Held, Becomes

\* Lookups of the cache are lookups of AudioCache.
LEMMA GetKeepsPromise ==
  ASSUME BookInv, NEW k \in Keys, GetDisabled(k) \/ GetMiss(k) \/ GetHit(k)
  PROVE  /\ \E S \in SUBSET Keys : Stored' = Promise!Without(Stored, S)
         /\ answer' = <<k, Stored'[k]>>
<1> DEFINE swept == SweepExpired(Contents, Ensured.ttl)
<1>1. Ensured.ttl \in Nat /\ insertions \in Nat
  BY EnsuredType, PCMCacheAssumption DEF BookInv
<1>2. Stored = Held(Contents) /\ Sound(Contents)
  BY StoredIsHeld, ContentsSound
<1>3. Sound(swept) /\ \A x \in Keys : Held(swept)[x] =
                           IF x \in swept.map THEN Stored[x] ELSE NoAudio
  <2>1. PICK p \in 0..Len(lru) : swept = KeepFirst(p, Contents)
    BY <1>1, SweptSound
  <2>2. Sound(swept)
    BY <1>1, SweptSound
  <2> HIDE DEF swept
  <2>3. \A x \in Keys : Held(swept)[x] =
           IF x \in swept.map THEN Held(Contents)[x] ELSE NoAudio
    BY <2>1, <1>2, ContentsSound, HeldAfterKeepFirst
  <2> QED
    BY <2>2, <2>3, <1>2
<1>4. CASE GetDisabled(k)
  <2>1. lru = <<>> /\ Becomes(Contents) /\ answer' = <<k, NoAudio>>
    BY <1>4, ContentsSound DEF GetDisabled, BookInv, Ensured, Becomes
  <2>2. map = {}
    BY <2>1, ContentsSound DEF KeysOf
  <2>3. Stored' = Stored /\ Stored = [x \in Keys |-> NoAudio]
    BY <2>1, <2>2, <1>2, StoredBecomes DEF Stored, StoredUnder
  <2>4. Stored' = Promise!Without(Stored, {})
    BY <2>3 DEF Promise!Without
  <2> QED
    BY <2>1, <2>3, <2>4
<1>5. CASE GetMiss(k)
  <2>1. Becomes(swept) /\ k \notin swept.map /\ answer' = <<k, NoAudio>>
    BY <1>5 DEF GetMiss
  <2> HIDE DEF swept
  <2>2. Stored' = Held(swept)
    BY <2>1, StoredBecomes
  <2>3. Stored' = Promise!Without(Stored, Keys \ swept.map)
    <3>1. Held(swept) = [x \in Keys |-> Held(swept)[x]]
      BY DEF Held
    <3> QED
      BY <3>1, <2>2, <1>3 DEF Promise!Without
  <2> QED
    BY <2>1, <2>2, <2>3, <1>3
<1>6. CASE GetHit(k)
  <2> DEFINE n == PositionOf(k, swept.list)
             b == swept.list[n].bytes
             d == [list |-> Touch(swept.list, n, b), map |-> swept.map,
                   total |-> swept.total, ev |-> swept.ev]
  <2>1. k \in swept.map /\ Becomes(d) /\ answer' = <<k, b>>
    BY <1>6 DEF GetHit
  <2>2. Sound(d)
    <3>1. BookInv'
      BY <1>6, GetKeepsBooks
    <3>2. Contents' = d
      BY <2>1 DEF Contents, Becomes
    <3>3. Sound(Contents')
      BY <3>1 DEF BookInv
    <3> HIDE DEF d
    <3> QED
      BY <3>2, <3>3
  <2> HIDE DEF swept
  <2>3. swept.list \in Seq(Entry) /\ Distinct(swept.list) /\ k \in KeysOf(swept.list)
    BY <2>1, <1>3 DEF Sound
  <2>4. n \in DOMAIN swept.list /\ swept.list[n].key = k
    BY <2>3, PositionIsThere
  <2>5. b \in Audio \ {0} /\ Held(swept)[k] = b
    <3> HIDE DEF n
    <3>1. n \in 1..Len(swept.list) /\ swept.list[n] \in Entry
      BY <2>3, <2>4
    <3>2. Held(swept)[swept.list[n].key] = swept.list[n].bytes
      BY <3>1, <1>3, HeldIs
    <3> QED
      BY <3>1, <3>2, <2>4 DEF Entry
  <2>6. d.list = Touch(swept.list, PositionOf(k, swept.list), b) /\ d.map = swept.map
    OBVIOUS
  <2> HIDE DEF b, d
  <2>7. \A x \in Keys : Held(d)[x] = IF x = k THEN b ELSE Held(swept)[x]
    BY <2>1, <2>2, <2>5, <2>6, <1>3, HeldAfterTouch
  <2>8. Stored' = Held(d)
    BY <2>1, StoredBecomes
  <2>9. Stored' = Promise!Without(Stored, Keys \ swept.map)
    <3>1. \A x \in Keys : Held(d)[x] = IF x \in Keys \ swept.map THEN NoAudio ELSE Stored[x]
      BY <2>5, <2>7, <1>3
    <3>2. Held(d) = [x \in Keys |-> Held(d)[x]]
      BY DEF Held
    <3> QED
      BY <3>1, <3>2, <2>8 DEF Promise!Without
  <2> QED
    BY <2>1, <2>5, <2>7, <2>8, <2>9
<1> QED
  BY <1>4, <1>5, <1>6

LEMMA InsertedHolds ==
  ASSUME BookInv, NEW k \in Keys, NEW a \in Audio, a # 0, k \notin map
  PROVE  \A x \in Keys : Held(Inserted(k, a))[x] =
            IF x = k THEN a ELSE Held(SweepExpired(Contents, Ensured.ttl))[x]
<1> DEFINE swept == SweepExpired(Contents, Ensured.ttl)
           e == [key |-> k, bytes |-> a, age |-> 0]
<1>1. Ensured.ttl \in Nat
  BY EnsuredType, PCMCacheAssumption
<1>2. PICK p \in 0..Len(lru) : swept = KeepFirst(p, Contents)
  BY <1>1, SweptSound
<1>3. swept.map \subseteq map
  BY <1>2, ContentsSound DEF KeepFirst
<1>4. Sound(swept) /\ Sound(Inserted(k, a))
  BY <1>1, SweptSound, InsertedIs
<1>5. Inserted(k, a) = [list |-> <<e>> \o swept.list, map |-> swept.map \cup {k},
                        total |-> swept.total + a, ev |-> swept.ev]
  BY DEF Inserted
<1>6. e \in Entry /\ e.key = k /\ e.age = 0 /\ e.bytes = a
  BY PCMCacheAssumption DEF Entry, MaxAge
<1> HIDE DEF swept, e
<1>7. Inserted(k, a).list = <<e>> \o swept.list /\ Inserted(k, a).map = swept.map \cup {e.key}
      /\ e.key \notin swept.map
  BY <1>3, <1>5, <1>6
<1>8. \A x \in Keys : Held(Inserted(k, a))[x] = IF x = e.key THEN e.bytes ELSE Held(swept)[x]
  BY <1>4, <1>6, <1>7, HeldAfterInsert
<1> QED
  BY <1>6, <1>8 DEF swept

\* Insertions into the cache store, or leave it as it is.
LEMMA PutKeepsPromise ==
  ASSUME BookInv, NEW k \in Keys, NEW a \in Audio,
         PutRejected(k, a) \/ PutReplace(k, a) \/ PutNew(k, a)
  PROVE  /\ \/ Stored' = Stored
            \/ \E S \in SUBSET Keys : Stored' = Promise!Without([Stored EXCEPT ![k] = a], S)
         /\ answer' = answer
<1>1. /\ answer' = answer /\ Stored = Held(Contents) /\ Sound(Contents)
      /\ Ensured.ttl \in Nat /\ Ensured.maxBytes \in Nat
  BY StoredIsHeld, ContentsSound, EnsuredType, PCMCacheAssumption
     DEF PutRejected, PutReplace, PutNew
<1>2. CASE PutRejected(k, a)
  <2>1. Becomes(Contents)
    BY <1>2, ContentsSound DEF PutRejected, Becomes
  <2> QED
    BY <2>1, <1>1, StoredBecomes
<1>3. CASE PutReplace(k, a)
  <2> DEFINE d == [list |-> Touch(lru, PositionOf(k, lru), a), map |-> map,
                   total |-> totalBytes - lru[PositionOf(k, lru)].bytes + a,
                   ev |-> evictions]
  <2>1. Becomes(d) /\ k \in map /\ a # 0
    BY <1>3 DEF PutReplace
  <2>2. Sound(d)
    <3>1. BookInv'
      BY <1>3, PutKeepsBooks
    <3>2. Contents' = d
      BY <2>1 DEF Contents, Becomes
    <3>3. Sound(Contents')
      BY <3>1 DEF BookInv
    <3> HIDE DEF d
    <3> QED
      BY <3>2, <3>3
  <2>3. d.list = Touch(Contents.list, PositionOf(k, Contents.list), a) /\ d.map = Contents.map
        /\ k \in Contents.map
    BY <2>1, ContentsSound
  <2> HIDE DEF d
  <2>4. \A x \in Keys : Held(d)[x] = IF x = k THEN a ELSE Stored[x]
    BY <2>1, <2>2, <2>3, <1>1, HeldAfterTouch
  <2>5. Stored' = Held(d) /\ Held(d) = [x \in Keys |-> Held(d)[x]]
    BY <2>1, StoredBecomes DEF Held
  <2>6. Stored' = Promise!Without([Stored EXCEPT ![k] = a], {})
    BY <2>4, <2>5 DEF Promise!Without, Stored
  <2> QED
    BY <2>6, <1>1
<1>4. CASE PutNew(k, a)
  <2> DEFINE swept == SweepExpired(Contents, Ensured.ttl)
             e == [key |-> k, bytes |-> a, age |-> 0]
             c == Inserted(k, a)
             d == EnforceByteCap(c, Ensured.maxBytes)
  <2>1. Becomes(d) /\ k \notin map /\ a # 0
    BY <1>4 DEF PutNew, Inserted
  <2>2. Sound(swept) /\ Sound(c)
    BY <2>1, <1>1, SweptSound, InsertedIs
  <2>3. PICK p \in 0..Len(lru) : swept = KeepFirst(p, Contents)
    BY <1>1, SweptSound
  <2>4. swept.map \subseteq map
    BY <2>3, ContentsSound DEF KeepFirst
  <2>5. \A x \in Keys : Held(swept)[x] = IF x \in swept.map THEN Stored[x] ELSE NoAudio
    BY <2>3, <1>1, ContentsSound, HeldAfterKeepFirst
  <2>6. c.list = <<e>> \o swept.list /\ c.map = swept.map \cup {e.key}
        /\ e \in Entry /\ e.key = k /\ e.age = 0 /\ e.bytes = a
    BY <2>1, PCMCacheAssumption DEF Inserted, Entry, MaxAge
  <2> HIDE DEF swept, e
  <2>7. \A x \in Keys : Held(c)[x] = IF x = k THEN a ELSE Held(swept)[x]
    BY <2>1, InsertedHolds DEF swept
  <2>8. PICK q \in 0..Len(c.list) : d = KeepFirst(q, c)
    BY <2>2, <1>1, CapKeeps
  <2> HIDE DEF c
  <2>9. \A x \in Keys : Held(d)[x] = IF x \in d.map THEN Held(c)[x] ELSE NoAudio
    <3> HIDE DEF d
    <3> QED
      BY <2>2, <2>8, HeldAfterKeepFirst
  <2>10. d.map \subseteq c.map
    BY <2>8 DEF KeepFirst
  <2> HIDE DEF d
  <2>11. \A x \in Keys : Held(d)[x] = IF x \in Keys \ d.map THEN NoAudio
                                      ELSE IF x = k THEN a ELSE Stored[x]
    BY <2>5, <2>6, <2>7, <2>9, <2>10
  <2>12. Stored' = Held(d) /\ Held(d) = [x \in Keys |-> Held(d)[x]]
    BY <2>1, StoredBecomes DEF Held
  <2>13. Stored' = Promise!Without([Stored EXCEPT ![k] = a], Keys \ d.map)
    BY <2>11, <2>12 DEF Promise!Without, Stored
  <2> QED
    BY <2>13, <1>1
<1> QED
  BY <1>2, <1>3, <1>4

\* Clearing and the setters forget; the clock changes nothing that is stored.
LEMMA OthersKeepPromise ==
  ASSUME BookInv,
         \/ Clear
         \/ \E b \in Audio : SetMaxBytes(b)
         \/ \E t \in 0..ConfigTTL : SetTTL(t)
         \/ \E on \in BOOLEAN : SetEnabled(on)
         \/ Tick
         \/ UNCHANGED vars
  PROVE  (\E S \in SUBSET Keys : Stored' = Promise!Without(Stored, S)) /\ answer' = answer
<1>1. Stored = Held(Contents) /\ Sound(Contents)
  BY StoredIsHeld, ContentsSound
<1>2. Stored = [x \in Keys |-> Stored[x]]
  BY DEF Stored
<1>3. ASSUME Stored' = Stored
      PROVE  \E S \in SUBSET Keys : Stored' = Promise!Without(Stored, S)
  <2>1. Stored' = Promise!Without(Stored, {})
    BY <1>2, <1>3 DEF Promise!Without
  <2> QED
    BY <2>1
<1>4. ASSUME NEW ev, Becomes(Emptied(ev))
      PROVE  \E S \in SUBSET Keys : Stored' = Promise!Without(Stored, S)
  <2>1. Stored' = Held(Emptied(ev))
    BY <1>4, StoredBecomes
  <2>2. Stored' = Promise!Without(Stored, Keys)
    BY <2>1 DEF Promise!Without, Held, Emptied
  <2> QED
    BY <2>2
<1>5. CASE Clear
  BY <1>4, <1>5 DEF Clear
<1>6. ASSUME NEW b \in Audio, SetMaxBytes(b)
      PROVE  (\E S \in SUBSET Keys : Stored' = Promise!Without(Stored, S)) /\ answer' = answer
  <2> DEFINE d == EnforceByteCap(Contents, b)
  <2>1. Becomes(d) /\ answer' = answer /\ b \in Nat
    BY <1>6, PCMCacheAssumption DEF SetMaxBytes
  <2>2. PICK q \in 0..Len(Contents.list) : d = KeepFirst(q, Contents)
    BY <2>1, <1>1, CapKeeps
  <2> HIDE DEF d
  <2>3. \A x \in Keys : Held(d)[x] = IF x \in d.map THEN Stored[x] ELSE NoAudio
    BY <2>2, <1>1, HeldAfterKeepFirst
  <2>4. Stored' = Held(d) /\ Held(d) = [x \in Keys |-> Held(d)[x]]
    BY <2>1, StoredBecomes DEF Held
  <2>5. Stored' = Promise!Without(Stored, Keys \ d.map)
    BY <2>3, <2>4 DEF Promise!Without
  <2> QED
    BY <2>1, <2>5
<1>7. ASSUME NEW t \in 0..ConfigTTL, SetTTL(t) PROVE Stored' = Stored /\ answer' = answer
  BY <1>7 DEF SetTTL, Stored, StoredUnder
<1>8. ASSUME NEW on \in BOOLEAN, SetEnabled(on)
      PROVE  (\E S \in SUBSET Keys : Stored' = Promise!Without(Stored, S)) /\ answer' = answer
  <2>1. answer' = answer /\ (on => Becomes(Contents)) /\ (~on => Becomes(Emptied(evictions)))
    BY <1>8 DEF SetEnabled
  <2> QED
    BY <2>1, <1>1, <1>3, <1>4, StoredBecomes
<1>9. CASE Tick
  <2>1. answer' = answer /\ map' = map
    BY <1>9 DEF Tick
  <2>2. DOMAIN lru' = DOMAIN lru
    BY <1>9 DEF Tick
  <2>3. \A n \in DOMAIN lru : lru'[n].key = lru[n].key /\ lru'[n].bytes = lru[n].bytes
    <3> TAKE n \in DOMAIN lru
    <3>1. lru[n] \in Entry
      BY ContentsSound
    <3>2. lru'[n] = [lru[n] EXCEPT !.age = IF @ < MaxAge THEN @ + 1 ELSE @]
      BY <1>9 DEF Tick
    <3> QED
      BY <3>1, <3>2 DEF Entry
  <2>4. ASSUME NEW k \in map PROVE lru'[PositionOf(k, lru')].bytes = lru[PositionOf(k, lru)].bytes
    <3>1. PICK n \in DOMAIN lru : lru[n].key = k
      BY ContentsSound DEF KeysOf
    <3>2. PositionOf(k, lru) = n
      BY <3>1, ContentsSound, PositionIsUnique
    <3>3. Distinct(lru')
      BY <2>2, <2>3, ContentsSound DEF Distinct
    <3>4. n \in DOMAIN lru' /\ lru'[n].key = k
      BY <3>1, <2>2, <2>3
    <3>5. PositionOf(k, lru') = n
      BY <3>3, <3>4, PositionIsUnique
    <3> QED
      BY <3>2, <3>5, <2>3
  <2>5. Stored' = Stored
    BY <2>1, <2>4 DEF Stored, StoredUnder
  <2> QED
    BY <2>1, <2>5, <1>3
<1>10. CASE UNCHANGED vars
  <2>1. Stored' = Stored /\ answer' = answer
    BY <1>10 DEF vars, Stored, StoredUnder
  <2> QED
    BY <2>1, <1>3
<1>11. Clear => answer' = answer
  BY DEF Clear
<1> QED
  BY <1>3, <1>5, <1>6, <1>7, <1>8, <1>9, <1>10, <1>11

\* Whatever its policy, the cache keeps the promise its users rely on: a lookup
\* answers nothing or the audio last stored under that key.  Every operation is
\* a lookup, a store or a forgetting of AudioCache, and a tick is none.
THEOREM PromiseKept == Spec => KeepsPromise
<1>1. Init => Promise!CacheInit
  BY DEF Init, Promise!CacheInit, StoredUnder
<1>2. BookInv /\ [Next]_vars => [Promise!CacheNext]_Promise!cacheVars
  <2> SUFFICES ASSUME BookInv, [Next]_vars
               PROVE  Promise!CacheNext \/ (Stored' = Stored /\ answer' = answer)
    BY DEF Promise!cacheVars, Stored
  <2>1. ASSUME NEW k \in Keys, GetDisabled(k) \/ GetMiss(k) \/ GetHit(k)
        PROVE  Promise!Lookup(k)
    BY <2>1, GetKeepsPromise DEF Promise!Lookup, Stored
  <2>2. ASSUME NEW k \in Keys, NEW a \in Audio,
               PutRejected(k, a) \/ PutReplace(k, a) \/ PutNew(k, a)
        PROVE  Promise!Store(k, a) \/ (Stored' = Stored /\ answer' = answer)
    BY <2>2, PutKeepsPromise DEF Promise!Store, Stored
  <2>3. CASE \/ Clear
             \/ \E b \in Audio : SetMaxBytes(b)
             \/ \E t \in 0..ConfigTTL : SetTTL(t)
             \/ \E on \in BOOLEAN : SetEnabled(on)
             \/ Tick
             \/ UNCHANGED vars
    <3>1. Promise!Forget
      BY <2>3, OthersKeepPromise DEF Promise!Forget, Stored
    <3> QED
      BY <3>1 DEF Promise!CacheNext
  <2> QED
    BY <2>1, <2>2, <2>3 DEF Next, Promise!CacheNext
<1> QED
  BY <1>1, <1>2, BookAlways, PTL DEF Spec, KeepsPromise, Promise!CacheSpec

=============================================================================
