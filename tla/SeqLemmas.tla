----------------------------- MODULE SeqLemmas -----------------------------
(***************************************************************************)
(* Facts about minima, about the waiting queues (deques without            *)
(* duplicates) and about sequences that rise, which the proofs of this     *)
(* project share.                                                          *)
(***************************************************************************)
EXTENDS Integers, SequencesExt, Filters, TLAPS, WellFoundedInduction, SequenceTheorems

\* A nonempty set of naturals has a minimum, and Min is one.
LEMMA NatMin ==
  ASSUME NEW T, T \subseteq Nat, T # {}
  PROVE  Min(T) \in T /\ \A y \in T : Min(T) <= y
<1> DEFINE R == {ss \in Nat \X Nat : ss[1] < ss[2]}
<1>1. IsWellFoundedOn(R, Nat)
  BY NatLessThanWellFounded, Zenon DEF OpToRel
<1>2. PICK x \in T : \A y \in T : ~ (<<y, x>> \in R)
  <2> HIDE DEF R
  <2> QED  BY <1>1, WFMin
<1>3. \A y \in T : (<<y, x>> \in R) <=> y < x
  OBVIOUS
<1>4. \A y \in T : x <= y
  <2> HIDE DEF R
  <2>1. \A y \in T : ~ (y < x)
    BY <1>2, <1>3, Zenon
  <2>2. x \in Nat /\ \A y \in T : y \in Nat
    OBVIOUS
  <2>3. QED
    BY <2>1, <2>2
<1>5. QED
  BY <1>4 DEF Min

\* A nonempty set of numbers up to n has a maximum, and Max is it.
LEMMA BoundedMax ==
  ASSUME NEW n \in Nat, NEW K, K \subseteq 1 .. n, K # {}
  PROVE  /\ \E k \in K : \A j \in K : k >= j
         /\ Max(K) \in K /\ \A j \in K : Max(K) >= j
<1> DEFINE L == {n - k : k \in K}
<1>1. L \subseteq Nat /\ L # {}
  <2>1. \A k \in 1 .. n : n - k \in Nat
    OBVIOUS
  <2>2. \A k \in K : n - k \in Nat
    BY <2>1
  <2>3. QED
    BY <2>2
<1>2. PICK m \in L : \A j \in L : m <= j
  <2> HIDE DEF L
  <2> QED  BY <1>1, NatMin
<1>3. PICK k \in K : m = n - k
  BY <1>2
<1>4. ASSUME NEW j \in K PROVE k >= j
  <2>1. n - j \in L
    OBVIOUS
  <2>2. n - k <= n - j
    BY <1>2, <1>3, <2>1
  <2>3. j \in 1 .. n /\ k \in 1 .. n
    OBVIOUS
  <2>4. QED
    BY <2>2, <2>3
<1>5. QED
  BY <1>4 DEF Max

\* Where the elements go when one of them is removed.
LEMMA RemoveFirstIs ==
  ASSUME NEW S, NEW s \in Seq(S), IsInjective(s), NEW k \in 1 .. Len(s)
  PROVE  /\ RemoveFirst(s, s[k]) \in Seq(S)
         /\ Len(RemoveFirst(s, s[k])) = Len(s) - 1
         /\ \A i \in 1 .. Len(RemoveFirst(s, s[k])) :
              RemoveFirst(s, s[k])[i] = IF i < k THEN s[i] ELSE s[i + 1]
<1> DEFINE e == s[k]
<1>1. \E i \in 1 .. Len(s) : s[i] = e
  OBVIOUS
<1>2. {i \in 1 .. Len(s) : s[i] = e} = {k}
  BY DEF IsInjective
<1>3. SelectInSeq(s, LAMBDA v : v = e) = k
  BY <1>2 DEF SelectInSeq, Min
<1> DEFINE r == RemoveAt(s, k)
<1>4. RemoveFirst(s, e) = r
  BY <1>1, <1>3 DEF RemoveFirst
<1> DEFINE p == SubSeq(s, 1, k - 1)
           q == SubSeq(s, k + 1, Len(s))
<1>5. /\ p \in Seq(S) /\ Len(p) = k - 1
      /\ \A i \in 1 .. k - 1 : p[i] = s[i]
  BY SubSeqProperties
<1>6. /\ q \in Seq(S) /\ Len(q) = Len(s) - k
      /\ \A i \in 1 .. Len(s) - k : q[i] = s[i + k]
  BY SubSeqProperties
<1>7. /\ r \in Seq(S)
      /\ Len(r) = Len(s) - 1
      /\ \A i \in 1 .. Len(r) : r[i] = IF i < k THEN s[i] ELSE s[i + 1]
  <2>1. r = p \o q
    BY DEF RemoveAt
  <2> HIDE DEF p, q, r
  <2>0. p \in Seq(S) /\ q \in Seq(S)
    BY <1>5, <1>6
  <2>2. r \in Seq(S) /\ Len(r) = Len(p) + Len(q)
    BY <2>0, <2>1, ConcatProperties
  <2>3. \A i \in 1 .. Len(r) : r[i] = IF i <= Len(p) THEN p[i] ELSE q[i - Len(p)]
    BY <1>5, <1>6, <2>1
  <2>4. ASSUME NEW i \in 1 .. Len(r), i < k
        PROVE  r[i] = s[i]
    BY <1>5, <2>3, <2>4
  <2>5. ASSUME NEW i \in 1 .. Len(r), ~(i < k)
        PROVE  r[i] = s[i + 1]
    <3>1. i - Len(p) \in 1 .. Len(s) - k /\ r[i] = q[i - Len(p)]
      BY <1>5, <1>6, <2>2, <2>3, <2>5
    <3>2. (i - Len(p)) + k = i + 1
      BY <1>5
    <3>3. QED
      BY <1>6, <3>1, <3>2
  <2>6. QED
    BY <1>5, <1>6, <2>2, <2>4, <2>5
<1>8. QED
  BY <1>4, <1>7

\* RemoveFirst takes exactly the one occurrence out of a duplicate-free queue.
LEMMA RemoveFirstFromDistinct ==
  ASSUME NEW S, NEW s \in Seq(S), NEW e, IsInjective(s)
  PROVE  /\ RemoveFirst(s, e) \in Seq(S)
         /\ IsInjective(RemoveFirst(s, e))
         /\ \A i \in 1 .. Len(RemoveFirst(s, e)) :
              /\ RemoveFirst(s, e)[i] # e
              /\ \E j \in 1 .. Len(s) : RemoveFirst(s, e)[i] = s[j]
         /\ \A j \in 1 .. Len(s) : s[j] # e =>
              \E i \in 1 .. Len(RemoveFirst(s, e)) : RemoveFirst(s, e)[i] = s[j]
<1>1. CASE ~ \E i \in 1 .. Len(s) : s[i] = e
  BY <1>1 DEF RemoveFirst
<1>2. CASE \E i \in 1 .. Len(s) : s[i] = e
  <2>1. PICK k \in 1 .. Len(s) : s[k] = e
    BY <1>2
  <2> DEFINE r == RemoveFirst(s, e)
  <2>2. \A i, j \in 1 .. Len(s) : s[i] = s[j] => i = j
    BY DEF IsInjective
  <2>3. /\ r \in Seq(S)
        /\ Len(r) = Len(s) - 1
        /\ \A i \in 1 .. Len(r) : r[i] = IF i < k THEN s[i] ELSE s[i + 1]
    BY <2>1, RemoveFirstIs
  <2>4. IsInjective(r)
    <3> HIDE DEF r
    <3>1. SUFFICES ASSUME NEW i \in 1 .. Len(r), NEW j \in 1 .. Len(r), r[i] = r[j]
                   PROVE  i = j
      BY <2>3 DEF IsInjective
    <3> DEFINE at(n) == IF n < k THEN n ELSE n + 1
    <3>2. /\ at(i) \in 1 .. Len(s) /\ r[i] = s[at(i)]
          /\ at(j) \in 1 .. Len(s) /\ r[j] = s[at(j)]
      BY <2>3
    <3>3. at(i) = at(j)
      <4> HIDE DEF at
      <4> QED  BY <2>2, <3>1, <3>2
    <3>4. QED
      BY <3>3
  <2>5. \A i \in 1 .. Len(r) : r[i] # e /\ \E j \in 1 .. Len(s) : r[i] = s[j]
    <3> HIDE DEF r
    <3> QED  BY <2>1, <2>3, <2>2
  <2>6. ASSUME NEW j \in 1 .. Len(s), s[j] # e
        PROVE  \E i \in 1 .. Len(r) : r[i] = s[j]
    <3> HIDE DEF r
    <3>1. CASE j < k
      <4>1. j \in 1 .. Len(r) /\ r[j] = s[j]
        BY <2>3, <3>1
      <4>2. QED
        BY <4>1
    <3>2. CASE j > k
      <4>1. j - 1 \in 1 .. Len(r) /\ r[j - 1] = s[j]
        <5>1. j - 1 \in 1 .. Len(r) /\ ~(j - 1 < k) /\ (j - 1) + 1 = j
          BY <2>3, <3>2
        <5>2. QED
          BY <2>3, <5>1
      <4>2. QED
        BY <4>1
    <3>3. QED
      BY <2>1, <2>6, <3>1, <3>2
  <2>7. QED
    BY <2>3, <2>4, <2>5, <2>6
<1>3. QED
  BY <1>1, <1>2

\* A suffix of a duplicate-free queue is duplicate-free.
LEMMA SuffixOfDistinct ==
  ASSUME NEW S, NEW s \in Seq(S), NEW k \in 0 .. Len(s), IsInjective(s)
  PROVE  /\ SubSeq(s, k + 1, Len(s)) \in Seq(S)
         /\ IsInjective(SubSeq(s, k + 1, Len(s)))
         /\ \A i \in 1 .. Len(SubSeq(s, k + 1, Len(s))) :
              \E j \in 1 .. Len(s) : SubSeq(s, k + 1, Len(s))[i] = s[j]
<1> DEFINE r == SubSeq(s, k + 1, Len(s))
<1>1. r \in Seq(S) /\ Len(r) = Len(s) - k /\ \A i \in 1 .. Len(r) : r[i] = s[i + k]
  OBVIOUS
<1>2. IsInjective(r)
  BY <1>1 DEF IsInjective
<1>3. \A i \in 1 .. Len(r) : i + k \in 1 .. Len(s)
  BY <1>1
<1>4. QED
  <2> HIDE DEF r
  <2> QED  BY <1>1, <1>2, <1>3 DEF r
  
\* Appending a newcomer to a duplicate-free queue keeps it so.
LEMMA AppendToDistinct ==
  ASSUME NEW S, NEW s \in Seq(S), NEW e \in S, IsInjective(s),
         \A i \in 1 .. Len(s) : s[i] # e
  PROVE  Append(s, e) \in Seq(S) /\ IsInjective(Append(s, e))
  BY DEF IsInjective

\* The set of the elements of a sequence, through the operators on queues.
LEMMA ToSetEmpty == ToSet(<<>>) = {}
  BY DEF ToSet

LEMMA ToSetAppend ==
  ASSUME NEW S, NEW s \in Seq(S), NEW e \in S
  PROVE  ToSet(Append(s, e)) = ToSet(s) \cup {e}
<1>1. Append(s, e) \in Seq(S) /\ Len(Append(s, e)) = Len(s) + 1
  OBVIOUS
<1>2. Append(s, e)[Len(s) + 1] = e /\ \A i \in 1 .. Len(s) : Append(s, e)[i] = s[i]
  OBVIOUS
<1>3. DOMAIN s = 1 .. Len(s) /\ DOMAIN Append(s, e) = 1 .. Len(s) + 1
  BY <1>1
<1>4. 1 .. Len(s) + 1 = (1 .. Len(s)) \cup {Len(s) + 1}
  OBVIOUS
<1>5. QED
  BY <1>2, <1>3, <1>4, Zenon DEF ToSet

LEMMA ToSetConcat ==
  ASSUME NEW S, NEW s \in Seq(S), NEW t \in Seq(S)
  PROVE  ToSet(s \o t) = ToSet(s) \cup ToSet(t)
<1>1. s \o t \in Seq(S) /\ Len(s \o t) = Len(s) + Len(t)
  OBVIOUS
<1>2. \A i \in 1 .. Len(s) : (s \o t)[i] = s[i]
  OBVIOUS
<1>3. \A j \in 1 .. Len(t) : (s \o t)[Len(s) + j] = t[j] /\ Len(s) + j \in 1 .. Len(s \o t)
  OBVIOUS
<1>4. \A i \in 1 .. Len(s \o t) : i \in 1 .. Len(s) \/ \E j \in 1 .. Len(t) : i = Len(s) + j
  <2>1. ASSUME NEW i \in 1 .. Len(s \o t), i \notin 1 .. Len(s)
        PROVE  i - Len(s) \in 1 .. Len(t) /\ i = Len(s) + (i - Len(s))
    BY <1>1, <2>1
  <2>2. QED
    BY <2>1
<1>5. DOMAIN s = 1 .. Len(s) /\ DOMAIN t = 1 .. Len(t) /\ DOMAIN (s \o t) = 1 .. Len(s \o t)
  BY <1>1
<1>6. 1 .. Len(s) \subseteq 1 .. Len(s \o t)
  BY <1>1
<1>7. ASSUME NEW i \in 1 .. Len(s \o t)
      PROVE  (s \o t)[i] \in ToSet(s) \cup ToSet(t)
  <2>1. CASE i \in 1 .. Len(s)
    BY <2>1, <1>2, <1>5, Zenon DEF ToSet
  <2>2. CASE \E j \in 1 .. Len(t) : i = Len(s) + j
    BY <2>2, <1>3, <1>5, Zenon DEF ToSet
  <2>3. QED
    BY <2>1, <2>2, <1>4
<1>8. \A i \in 1 .. Len(s) : s[i] \in ToSet(s \o t)
  BY <1>2, <1>5, <1>6, Zenon DEF ToSet
<1>9. \A j \in 1 .. Len(t) : t[j] \in ToSet(s \o t)
  BY <1>3, <1>5, Zenon DEF ToSet
<1>10. ToSet(s \o t) \subseteq ToSet(s) \cup ToSet(t)
  <2>1. ToSet(s \o t) = {(s \o t)[i] : i \in 1 .. Len(s \o t)}
    BY <1>5 DEF ToSet
  <2>2. QED
    BY <2>1, <1>7
<1>11. ToSet(s) \cup ToSet(t) \subseteq ToSet(s \o t)
  <2>1. ToSet(s) = {s[i] : i \in 1 .. Len(s)} /\ ToSet(t) = {t[i] : i \in 1 .. Len(t)}
    BY <1>5 DEF ToSet
  <2>2. QED
    BY <2>1, <1>8, <1>9
<1>12. QED
  BY <1>10, <1>11

LEMMA ToSetWithin ==
  ASSUME NEW S, NEW s \in Seq(S)
  PROVE  ToSet(s) \subseteq S
<1>1. DOMAIN s = 1 .. Len(s) /\ \A i \in 1 .. Len(s) : s[i] \in S
  OBVIOUS
<1>2. QED
  BY <1>1, Zenon DEF ToSet

LEMMA ToSetHeadTail ==
  ASSUME NEW S, NEW s \in Seq(S), s # <<>>
  PROVE  /\ Head(s) \in S /\ Tail(s) \in Seq(S) /\ Len(Tail(s)) = Len(s) - 1
         /\ ToSet(s) = {Head(s)} \cup ToSet(Tail(s))
<1>1. Head(s) = s[1] /\ Head(s) \in S /\ Tail(s) \in Seq(S) /\ Len(Tail(s)) = Len(s) - 1 /\ Len(s) > 0
  OBVIOUS
<1>2. \A i \in 1 .. Len(Tail(s)) : Tail(s)[i] = s[i + 1] /\ i + 1 \in 1 .. Len(s)
  OBVIOUS
<1>3. \A i \in 1 .. Len(s) : i = 1 \/ \E j \in 1 .. Len(Tail(s)) : i = j + 1
  <2>1. ASSUME NEW i \in 1 .. Len(s), i # 1
        PROVE  i - 1 \in 1 .. Len(Tail(s)) /\ i = (i - 1) + 1
    BY <1>1, <2>1
  <2>2. QED
    BY <2>1
<1>4. DOMAIN s = 1 .. Len(s) /\ DOMAIN Tail(s) = 1 .. Len(Tail(s)) /\ 1 \in 1 .. Len(s)
  BY <1>1
<1>5. /\ ToSet(s) = {s[i] : i \in 1 .. Len(s)}
      /\ ToSet(Tail(s)) = {Tail(s)[j] : j \in 1 .. Len(Tail(s))}
  BY <1>4 DEF ToSet
<1>6. ASSUME NEW i \in 1 .. Len(s)
      PROVE  s[i] \in {Head(s)} \cup ToSet(Tail(s))
  <2>1. CASE i = 1
    BY <2>1, <1>1
  <2>2. CASE \E j \in 1 .. Len(Tail(s)) : i = j + 1
    BY <2>2, <1>2, <1>5, Zenon
  <2>3. QED
    BY <2>1, <2>2, <1>3
<1>7. \A j \in 1 .. Len(Tail(s)) : Tail(s)[j] \in ToSet(s)
  BY <1>2, <1>5, Zenon
<1>8. Head(s) \in ToSet(s)
  BY <1>1, <1>4, <1>5, Zenon
<1>9. ToSet(s) \subseteq {Head(s)} \cup ToSet(Tail(s))
  BY <1>5, <1>6
<1>10. {Head(s)} \cup ToSet(Tail(s)) \subseteq ToSet(s)
  BY <1>5, <1>7, <1>8
<1>11. QED
  BY <1>1, <1>9, <1>10

\* The head of a queue without duplicates is not among the rest.
LEMMA TailOfDistinct ==
  ASSUME NEW S, NEW s \in Seq(S), s # <<>>, IsInjective(s)
  PROVE  /\ IsInjective(Tail(s))
         /\ Head(s) \notin ToSet(Tail(s))
<1>1. Head(s) = s[1] /\ Tail(s) \in Seq(S) /\ Len(Tail(s)) = Len(s) - 1 /\ Len(s) > 0
  OBVIOUS
<1>2. \A i \in 1 .. Len(Tail(s)) : Tail(s)[i] = s[i + 1] /\ i + 1 \in 1 .. Len(s) /\ i + 1 # 1
  OBVIOUS
<1>3. DOMAIN s = 1 .. Len(s) /\ DOMAIN Tail(s) = 1 .. Len(Tail(s)) /\ 1 \in 1 .. Len(s)
  BY <1>1
<1>4. \A i, j \in 1 .. Len(s) : s[i] = s[j] => i = j
  BY <1>3 DEF IsInjective
<1>5. \A i, j \in 1 .. Len(Tail(s)) : Tail(s)[i] = Tail(s)[j] => i = j
  <2>1. ASSUME NEW i \in 1 .. Len(Tail(s)), NEW j \in 1 .. Len(Tail(s)), Tail(s)[i] = Tail(s)[j]
        PROVE  i + 1 = j + 1
    BY <2>1, <1>2, <1>4
  <2>2. QED
    BY <2>1
<1>6. \A i \in 1 .. Len(Tail(s)) : Tail(s)[i] # Head(s)
  BY <1>1, <1>2, <1>3, <1>4
<1>7. QED
  BY <1>3, <1>5, <1>6 DEF IsInjective, ToSet

\* A queue stays without duplicates when a newcomer joins it.
LEMMA AppendNewcomer ==
  ASSUME NEW S, NEW s \in Seq(S), NEW e \in S, IsInjective(s), e \notin ToSet(s)
  PROVE  IsInjective(Append(s, e))
<1>1. \A i \in 1 .. Len(s) : s[i] # e
  BY DEF ToSet
<1>2. QED
  BY <1>1, AppendToDistinct

-----------------------------------------------------------------------------
(* Sequences of numbers that rise *)

Rising(s) == \A i, j \in 1 .. Len(s) : i < j => s[i] < s[j]

\* A number above all the others may come last.
LEMMA RisingAppend ==
  ASSUME NEW S, S \subseteq Nat, NEW s \in Seq(S), NEW e \in S, Rising(s), \A x \in ToSet(s) : x < e
  PROVE  Rising(Append(s, e))
<1>1. /\ Append(s, e) \in Seq(S) /\ Len(Append(s, e)) = Len(s) + 1 /\ Append(s, e)[Len(s) + 1] = e
      /\ \A i \in 1 .. Len(s) : Append(s, e)[i] = s[i]
  OBVIOUS
<1>2. DOMAIN s = 1 .. Len(s) /\ Len(s) \in Nat
  OBVIOUS
<1>3. \A i \in 1 .. Len(s) : s[i] < e
  BY <1>2, Zenon DEF ToSet
<1>4. SUFFICES ASSUME NEW i \in 1 .. Len(s) + 1, NEW j \in 1 .. Len(s) + 1, i < j
               PROVE  Append(s, e)[i] < Append(s, e)[j]
  BY <1>1 DEF Rising
<1>5. CASE j = Len(s) + 1
  <2>1. i \in 1 .. Len(s)
    BY <1>2, <1>4, <1>5
  <2>2. QED
    BY <1>1, <1>3, <1>5, <2>1
<1>6. CASE j # Len(s) + 1
  <2>1. i \in 1 .. Len(s) /\ j \in 1 .. Len(s)
    BY <1>2, <1>4, <1>6
  <2>2. QED
    BY <1>1, <1>4, <2>1 DEF Rising
<1>7. QED
  BY <1>5, <1>6

\* Two that rise make one, when the second is above the first.
LEMMA RisingConcat ==
  ASSUME NEW S, S \subseteq Nat, NEW s \in Seq(S), NEW t \in Seq(S), Rising(s), Rising(t),
         \A x \in ToSet(s), y \in ToSet(t) : x < y
  PROVE  Rising(s \o t)
<1>1. /\ s \o t \in Seq(S) /\ Len(s \o t) = Len(s) + Len(t) /\ Len(s) \in Nat /\ Len(t) \in Nat
      /\ \A i \in 1 .. Len(s) : (s \o t)[i] = s[i]
      /\ \A i \in Len(s) + 1 .. Len(s) + Len(t) : (s \o t)[i] = t[i - Len(s)]
  OBVIOUS
<1>2. DOMAIN s = 1 .. Len(s) /\ DOMAIN t = 1 .. Len(t)
  OBVIOUS
<1>3. \A i \in 1 .. Len(s), j \in 1 .. Len(t) : s[i] < t[j]
  BY <1>2, Zenon DEF ToSet
<1>4. SUFFICES ASSUME NEW i \in 1 .. Len(s) + Len(t), NEW j \in 1 .. Len(s) + Len(t), i < j
               PROVE  (s \o t)[i] < (s \o t)[j]
  BY <1>1 DEF Rising
<1>5. CASE j \in 1 .. Len(s)
  <2>1. i \in 1 .. Len(s)
    BY <1>1, <1>4, <1>5
  <2>2. s[i] < s[j]
    BY <1>4, <1>5, <2>1 DEF Rising
  <2>3. QED
    BY <1>1, <1>5, <2>1, <2>2
<1>6. CASE j \notin 1 .. Len(s)
  <2> DEFINE k == j - Len(s)
  <2>1. k \in 1 .. Len(t) /\ (s \o t)[j] = t[k]
    BY <1>1, <1>4, <1>6
  <2>2. CASE i \in 1 .. Len(s)
    <3> HIDE DEF k
    <3> QED  BY <1>1, <1>3, <2>1, <2>2
  <2>3. CASE i \notin 1 .. Len(s)
    <3>1. i - Len(s) \in 1 .. Len(t) /\ (s \o t)[i] = t[i - Len(s)] /\ i - Len(s) < k
      BY <1>1, <1>4, <2>3
    <3> HIDE DEF k
    <3>2. t[i - Len(s)] < t[k]
      BY <2>1, <3>1 DEF Rising
    <3>3. QED
      BY <2>1, <3>1, <3>2
  <2>4. QED
    BY <2>2, <2>3
<1>7. QED
  BY <1>5, <1>6

\* The head is below all that follow, and those rise.
LEMMA RisingTail ==
  ASSUME NEW S, S \subseteq Nat, NEW s \in Seq(S), s # <<>>, Rising(s)
  PROVE  Rising(Tail(s)) /\ \A x \in ToSet(Tail(s)) : Head(s) < x
<1>1. /\ Head(s) = s[1] /\ Tail(s) \in Seq(S) /\ Len(Tail(s)) = Len(s) - 1 /\ Len(s) > 0 /\ Len(s) \in Nat
      /\ DOMAIN Tail(s) = 1 .. Len(Tail(s))
  OBVIOUS
<1>2. \A i \in 1 .. Len(Tail(s)) : Tail(s)[i] = s[i + 1] /\ i + 1 \in 1 .. Len(s)
  OBVIOUS
<1>3. Rising(Tail(s))
  <2>1. SUFFICES ASSUME NEW i \in 1 .. Len(Tail(s)), NEW j \in 1 .. Len(Tail(s)), i < j
                 PROVE  Tail(s)[i] < Tail(s)[j]
    BY DEF Rising
  <2>2. i + 1 < j + 1 /\ i + 1 \in 1 .. Len(s) /\ j + 1 \in 1 .. Len(s)
    BY <1>2, <2>1
  <2>3. s[i + 1] < s[j + 1]
    BY <2>2 DEF Rising
  <2>4. QED
    BY <1>2, <2>3
<1>4. ASSUME NEW i \in 1 .. Len(Tail(s)) PROVE Head(s) < Tail(s)[i]
  <2>1. 1 < i + 1 /\ 1 \in 1 .. Len(s) /\ i + 1 \in 1 .. Len(s)
    BY <1>1, <1>2
  <2>2. s[1] < s[i + 1]
    BY <2>1 DEF Rising
  <2>3. QED
    BY <1>1, <1>2, <2>2
<1>5. \A x \in ToSet(Tail(s)) : Head(s) < x
  BY <1>1, <1>4, Zenon DEF ToSet
<1>6. QED
  BY <1>3, <1>5

-----------------------------------------------------------------------------
(* What is done a number of times *)

\* A set that holds 0, and with a number the next one up to N, holds all up to N.
LEMMA Climb ==
  ASSUME NEW N \in Nat, NEW P, 0 \in P, \A n \in 1 .. N : n - 1 \in P => n \in P
  PROVE  \A n \in 0 .. N : n \in P
<1> DEFINE Bad == {n \in 0 .. N : n \notin P}
<1>1. Bad \subseteq Nat
  OBVIOUS
<1>2. SUFFICES ASSUME Bad # {} PROVE FALSE
  OBVIOUS
<1>3. PICK n \in Bad : \A m \in Bad : n <= m
  <2> HIDE DEF Bad
  <2> QED  BY <1>1, <1>2, NatMin
<1>4. n \in 1 .. N /\ n \notin P
  OBVIOUS
<1>5. n - 1 \notin Bad
  <2>1. n - 1 \in Nat /\ ~(n <= n - 1)
    BY <1>4
  <2> HIDE DEF Bad
  <2> QED  BY <1>3, <2>1
<1>6. QED
  BY <1>4, <1>5

\* g goes from base up to N, a step at a time.
Iterates(g, base, step, N) == g = [n \in 0 .. N |-> IF n = 0 THEN base ELSE step[n][g[n - 1]]]

\* Such a g exists.
LEMMA IterationExists ==
  ASSUME NEW N \in Nat, NEW A, NEW base \in A, NEW step \in [1 .. N -> [A -> A]]
  PROVE  \E g \in [0 .. N -> A] : Iterates(g, base, step, N)
<1> DEFINE Good == {n \in 0 .. N : \E g \in [0 .. n -> A] : Iterates(g, base, step, n)}
<1>1. 0 \in Good
  <2> DEFINE g == [n \in 0 .. 0 |-> base]
  <2>1. g \in [0 .. 0 -> A]
    OBVIOUS
  <2>2. g = [n \in 0 .. 0 |-> IF n = 0 THEN base ELSE step[n][g[n - 1]]]
    OBVIOUS
  <2> HIDE DEF g
  <2>3. QED
    BY <2>1, <2>2 DEF Iterates
<1>2. ASSUME NEW n \in 1 .. N, n - 1 \in Good PROVE n \in Good
  <2>1. PICK g \in [0 .. n - 1 -> A] : Iterates(g, base, step, n - 1)
    BY <1>2
  <2> DEFINE h == [m \in 0 .. n |-> IF m < n THEN g[m] ELSE step[n][g[n - 1]]]
  <2>2. g = [m \in 0 .. n - 1 |-> IF m = 0 THEN base ELSE step[m][g[m - 1]]]
    BY <2>1 DEF Iterates
  <2>3. g[n - 1] \in A /\ step[n] \in [A -> A]
    OBVIOUS
  <2>4. step[n][g[n - 1]] \in A
    BY <2>3
  <2>5. h \in [0 .. n -> A]
    BY <2>4
  <2>6. \A m \in 0 .. n : h[m] = IF m = 0 THEN base ELSE step[m][h[m - 1]]
    <3> SUFFICES ASSUME NEW m \in 0 .. n PROVE h[m] = IF m = 0 THEN base ELSE step[m][h[m - 1]]
      OBVIOUS
    <3>1. CASE m = 0
      BY <2>2, <3>1
    <3>2. CASE m # 0
      <4>1. h[m - 1] = g[m - 1] /\ m - 1 \in 0 .. n - 1
        BY <3>2
      <4>2. CASE m < n
        <5>1. h[m] = g[m] /\ m \in 0 .. n - 1
          BY <4>2
        <5>2. g[m] = step[m][g[m - 1]]
          BY <2>2, <3>2, <5>1
        <5> HIDE DEF h
        <5>3. QED
          BY <3>2, <4>1, <5>1, <5>2
      <4>3. CASE m = n
        <5>1. h[m] = step[n][g[n - 1]]
          BY <4>3
        <5> HIDE DEF h
        <5>2. QED
          BY <3>2, <4>1, <4>3, <5>1
      <4>4. QED
        BY <4>2, <4>3
    <3>3. QED
      BY <3>1, <3>2
  <2> HIDE DEF h
  <2>7. h = [m \in 0 .. n |-> IF m = 0 THEN base ELSE step[m][h[m - 1]]]
    BY <2>5, <2>6
  <2>8. \E f \in [0 .. n -> A] : Iterates(f, base, step, n)
    BY <2>5, <2>7 DEF Iterates
  <2>9. n \in 0 .. N
    OBVIOUS
  <2>10. QED
    BY <2>8, <2>9
<1>3. N \in 0 .. N
  OBVIOUS
<1>4. N \in Good
  <2> HIDE DEF Good
  <2>1. \A n \in 0 .. N : n \in Good
    BY <1>1, <1>2, Climb
  <2>2. QED
    BY <1>3, <2>1
<1>5. QED
  BY <1>4

-----------------------------------------------------------------------------
(* What of a sequence is in a set *)

\* f[n] is what of the first n elements is in S.
Collects(f, seq, S) ==
  /\ f[0] = <<>>
  /\ \A n \in 1 .. Len(seq) : /\ seq[n] \in S => f[n] = Append(f[n - 1], seq[n])
                              /\ seq[n] \notin S => f[n] = f[n - 1]

\* What of a sequence is in a set, found an element after the other.
LEMMA AmongIs ==
  ASSUME NEW A, NEW seq \in Seq(A), NEW S
  PROVE  \E f \in [0 .. Len(seq) -> Seq(A)] : Collects(f, seq, S) /\ Among(seq, S) = f[Len(seq)]
<1> DEFINE N == Len(seq)
           step == [n \in 1 .. N |-> [x \in Seq(A) |-> IF seq[n] \in S THEN Append(x, seq[n]) ELSE x]]
           Runs(f) == f = [n \in 0 .. N |-> IF n = 0 THEN <<>>
                                            ELSE IF seq[n] \in S THEN Append(f[n - 1], seq[n]) ELSE f[n - 1]]
           ch == CHOOSE f : Runs(f)
<1>1. N \in Nat /\ \A n \in 1 .. N : seq[n] \in A
  OBVIOUS
<1>2. <<>> \in Seq(A) /\ \A x \in Seq(A), n \in 1 .. N : Append(x, seq[n]) \in Seq(A)
  BY <1>1
<1>3. step \in [1 .. N -> [Seq(A) -> Seq(A)]]
  BY <1>2
<1>4. \A n \in 1 .. N, x \in Seq(A) : step[n][x] = IF seq[n] \in S THEN Append(x, seq[n]) ELSE x
  OBVIOUS
<1> HIDE DEF N, step
<1>5. PICK g \in [0 .. N -> Seq(A)] : Iterates(g, <<>>, step, N)
  BY <1>1, <1>2, <1>3, IterationExists
<1>6. \A n \in 0 .. N : g[n] = IF n = 0 THEN <<>> ELSE IF seq[n] \in S THEN Append(g[n - 1], seq[n]) ELSE g[n - 1]
  <2> SUFFICES ASSUME NEW n \in 0 .. N
               PROVE  g[n] = IF n = 0 THEN <<>> ELSE IF seq[n] \in S THEN Append(g[n - 1], seq[n]) ELSE g[n - 1]
    OBVIOUS
  <2>1. g[n] = IF n = 0 THEN <<>> ELSE step[n][g[n - 1]]
    BY <1>5 DEF Iterates
  <2>2. CASE n = 0
    BY <2>1, <2>2
  <2>3. CASE n # 0
    <3>1. n \in 1 .. N /\ n - 1 \in 0 .. N
      BY <1>1, <2>3
    <3>2. g[n - 1] \in Seq(A)
      BY <3>1
    <3>3. QED
      BY <1>4, <2>1, <2>3, <3>1, <3>2
  <2>4. QED
    BY <2>2, <2>3
<1>7. Runs(g)
  BY <1>6
<1>8. Runs(ch)
  <2> HIDE DEF Runs
  <2> QED  BY <1>7
<1>9. Among(seq, S) = ch[N]
  BY DEF Among, N
<1> HIDE DEF ch
<1>10. /\ Collects(ch, seq, S)
       /\ ch = [n \in 0 .. N |-> ch[n]]
  <2>1. ch = [n \in 0 .. N |-> IF n = 0 THEN <<>>
                               ELSE IF seq[n] \in S THEN Append(ch[n - 1], seq[n]) ELSE ch[n - 1]]
    BY <1>8
  <2>2. 0 \in 0 .. N /\ \A n \in 1 .. N : n \in 0 .. N /\ n # 0
    BY <1>1
  <2>3. /\ ch[0] = <<>>
        /\ \A n \in 1 .. N : ch[n] = IF seq[n] \in S THEN Append(ch[n - 1], seq[n]) ELSE ch[n - 1]
    BY <2>1, <2>2
  <2>4. \A n \in 1 .. N : /\ seq[n] \in S => ch[n] = Append(ch[n - 1], seq[n])
                         /\ seq[n] \notin S => ch[n] = ch[n - 1]
    BY <2>3
  <2>5. ch = [n \in 0 .. N |-> ch[n]]
    BY <2>1
  <2>6. QED
    BY <2>3, <2>4, <2>5 DEF Collects, N
<1>11. \A n \in 0 .. N : ch[n] \in Seq(A)
  <2> DEFINE P == {n \in 0 .. N : ch[n] \in Seq(A)}
  <2>1. 0 \in P
    <3>1. ch[0] \in Seq(A)
      BY <1>2, <1>10, Zenon DEF Collects
    <3>2. QED
      BY <1>1, <3>1
  <2>2. ASSUME NEW n \in 1 .. N, n - 1 \in P  PROVE n \in P
    <3>1. n \in 0 .. N /\ ch[n - 1] \in Seq(A) /\ Append(ch[n - 1], seq[n]) \in Seq(A)
      BY <1>1, <1>2, <2>2
    <3>2. ch[n] = Append(ch[n - 1], seq[n]) \/ ch[n] = ch[n - 1]
      BY <1>10 DEF Collects, N
    <3>3. QED
      BY <3>1, <3>2
  <2> HIDE DEF P
  <2>3. \A n \in 0 .. N : n \in P
    BY <1>1, <2>1, <2>2, Climb
  <2>4. QED
    BY <2>3 DEF P
<1>12. ch \in [0 .. N -> Seq(A)]
  BY <1>10, <1>11
<1>13. QED
  BY <1>9, <1>10, <1>12 DEF N

LEMMA AmongEmpty == ASSUME NEW S PROVE Among(<<>>, S) = <<>>
<1>1. <<>> \in Seq({}) /\ Len(<<>>) = 0
  OBVIOUS
<1>2. PICK f \in [0 .. Len(<<>>) -> Seq({})] : Collects(f, <<>>, S) /\ Among(<<>>, S) = f[Len(<<>>)]
  BY <1>1, AmongIs
<1>3. QED
  BY <1>1, <1>2 DEF Collects

\* One element more.
LEMMA AmongAppend ==
  ASSUME NEW A, NEW seq \in Seq(A), NEW x \in A, NEW S
  PROVE  Among(Append(seq, x), S) = IF x \in S THEN Append(Among(seq, S), x) ELSE Among(seq, S)
<1> DEFINE new == Append(seq, x)
           N == Len(seq)
<1>1. new \in Seq(A) /\ Len(new) = N + 1 /\ new[N + 1] = x /\ N \in Nat /\ \A i \in 1 .. N : new[i] = seq[i]
  OBVIOUS
<1> HIDE DEF new
<1>2. PICK f \in [0 .. N -> Seq(A)] : Collects(f, seq, S) /\ Among(seq, S) = f[N]
  BY AmongIs
<1>3. PICK g \in [0 .. N + 1 -> Seq(A)] : Collects(g, new, S) /\ Among(new, S) = g[N + 1]
  BY <1>1, AmongIs
<1>4. \A n \in 0 .. N : f[n] = g[n]
  <2> DEFINE P == {n \in 0 .. N : f[n] = g[n]}
  <2>1. 0 \in P
    BY <1>1, <1>2, <1>3 DEF Collects
  <2>2. ASSUME NEW n \in 1 .. N, n - 1 \in P  PROVE n \in P
    <3>1. n \in 1 .. N + 1 /\ new[n] = seq[n] /\ f[n - 1] = g[n - 1]
      BY <1>1, <2>2
    <3>2. n \in 1 .. Len(new) /\ n \in 0 .. N
      BY <1>1, <3>1
    <3>3. f[n] = g[n]
      BY <1>2, <1>3, <3>1, <3>2 DEF Collects
    <3>4. QED
      BY <3>2, <3>3
  <2> HIDE DEF P
  <2>3. \A n \in 0 .. N : n \in P
    BY <1>1, <2>1, <2>2, Climb
  <2>4. QED
    BY <2>3 DEF P
<1>5. N + 1 \in 1 .. N + 1 /\ (N + 1) - 1 = N /\ N \in 0 .. N
  BY <1>1
<1>6. /\ x \in S => g[N + 1] = Append(g[N], x)
      /\ x \notin S => g[N + 1] = g[N]
  BY <1>1, <1>3, <1>5 DEF Collects
<1>7. QED
  BY <1>2, <1>3, <1>4, <1>5, <1>6 DEF new

\* Nothing is made up and nothing of the set is lost, and what differed differs.
LEMMA AmongSound ==
  ASSUME NEW A, NEW seq \in Seq(A), NEW S
  PROVE  /\ Among(seq, S) \in Seq(A)
         /\ ToSet(Among(seq, S)) = ToSet(seq) \cap S
         /\ IsInjective(seq) => IsInjective(Among(seq, S))
<1> DEFINE N == Len(seq)
<1>1. N \in Nat /\ \A n \in 1 .. N : seq[n] \in A
  OBVIOUS
<1>2. PICK f \in [0 .. N -> Seq(A)] : Collects(f, seq, S) /\ Among(seq, S) = f[N]
  BY AmongIs
<1> DEFINE Upto(n) == {seq[i] : i \in 1 .. n} \cap S
           Sound(n) == ToSet(f[n]) = Upto(n) /\ (IsInjective(seq) => IsInjective(f[n]))
           P == {n \in 0 .. N : Sound(n)}
<1>3. 0 \in P
  <2>1. Upto(0) = {}
    OBVIOUS
  <2>2. IsInjective(<<>>)
    BY DEF IsInjective
  <2> HIDE DEF Upto
  <2>3. QED
    <3>1. ToSet(f[0]) = Upto(0) /\ IsInjective(f[0])
      BY <1>2, <2>1, <2>2, ToSetEmpty, Zenon DEF Collects
    <3>2. QED
      BY <1>1, <3>1
<1>4. ASSUME NEW n \in 1 .. N, n - 1 \in P  PROVE n \in P
  <2>1. /\ n - 1 \in 0 .. N /\ n \in 0 .. N /\ f[n - 1] \in Seq(A) /\ seq[n] \in A
        /\ ToSet(f[n - 1]) = Upto(n - 1) /\ (IsInjective(seq) => IsInjective(f[n - 1]))
    BY <1>1, <1>4
  <2>2. /\ seq[n] \in S => f[n] = Append(f[n - 1], seq[n])
        /\ seq[n] \notin S => f[n] = f[n - 1]
    BY <1>2 DEF Collects
  <2>3. {seq[i] : i \in 1 .. n} = {seq[i] : i \in 1 .. n - 1} \cup {seq[n]}
    <3>1. 1 .. n = (1 .. n - 1) \cup {n}
      BY <1>1
    <3>2. QED
      BY <3>1
  <2>4. Upto(n) = IF seq[n] \in S THEN Upto(n - 1) \cup {seq[n]} ELSE Upto(n - 1)
    BY <2>3
  <2>5. CASE seq[n] \notin S
    <3> HIDE DEF Upto
    <3> QED  BY <2>1, <2>2, <2>4, <2>5
  <2>6. CASE seq[n] \in S
    <3>1. ToSet(f[n]) = Upto(n)
      <4> HIDE DEF Upto
      <4> QED  BY <2>1, <2>2, <2>4, <2>6, ToSetAppend
    <3>2. ASSUME IsInjective(seq) PROVE IsInjective(f[n])
      <4>1. \A i \in 1 .. Len(f[n - 1]) : f[n - 1][i] \in ToSet(f[n - 1])
        BY <2>1 DEF ToSet
      <4>2. \A i \in 1 .. n - 1 : seq[i] # seq[n]
        BY <1>1, <3>2 DEF IsInjective
      <4>3. seq[n] \notin ToSet(f[n - 1])
        BY <2>1, <4>2
      <4>4. \A i \in 1 .. Len(f[n - 1]) : f[n - 1][i] # seq[n]
        BY <4>1, <4>3
      <4>5. QED
        BY <2>1, <2>2, <2>6, <3>2, <4>4, AppendToDistinct
    <3>3. QED
      BY <2>1, <3>1, <3>2
  <2>7. QED
    BY <2>5, <2>6
<1>5. \A n \in 0 .. N : n \in P
  <2> HIDE DEF P
  <2> QED  BY <1>1, <1>3, <1>4, Climb
<1>6. N \in 0 .. N /\ f[N] \in Seq(A) /\ Upto(N) = ToSet(seq) \cap S
  BY <1>1 DEF ToSet
<1>7. Sound(N)
  BY <1>5, <1>6
<1>8. QED
  <2> HIDE DEF Upto
  <2> QED  BY <1>2, <1>6, <1>7

\* What two sets that share nothing take of a sequence they hold all of.
LEMMA AmongParts ==
  ASSUME NEW A, NEW seq \in Seq(A), NEW S, NEW T, ToSet(seq) \subseteq S \cup T, S \cap T = {}
  PROVE  Len(Among(seq, S)) + Len(Among(seq, T)) = Len(seq)
<1> DEFINE N == Len(seq)
<1>1. N \in Nat /\ \A n \in 1 .. N : seq[n] \in A /\ (seq[n] \in S <=> seq[n] \notin T)
  BY DEF ToSet
<1>2. PICK f \in [0 .. N -> Seq(A)] : Collects(f, seq, S) /\ Among(seq, S) = f[N]
  BY AmongIs
<1>3. PICK g \in [0 .. N -> Seq(A)] : Collects(g, seq, T) /\ Among(seq, T) = g[N]
  BY AmongIs
<1> DEFINE P == {n \in 0 .. N : Len(f[n]) + Len(g[n]) = n}
<1>4. 0 \in P
  BY <1>1, <1>2, <1>3 DEF Collects
<1>5. ASSUME NEW n \in 1 .. N, n - 1 \in P  PROVE n \in P
  <2>1. /\ n - 1 \in 0 .. N /\ n \in 0 .. N /\ f[n - 1] \in Seq(A) /\ g[n - 1] \in Seq(A)
        /\ seq[n] \in A /\ Len(f[n - 1]) + Len(g[n - 1]) = n - 1
    <3>1. n - 1 \in 0 .. N /\ n \in 0 .. N /\ seq[n] \in A
      BY <1>1
    <3>2. Len(f[n - 1]) + Len(g[n - 1]) = n - 1
      BY <1>5
    <3>3. QED
      BY <3>1, <3>2
  <2> HIDE DEF P
  <2>2. /\ Len(Append(f[n - 1], seq[n])) = Len(f[n - 1]) + 1 /\ Len(f[n - 1]) \in Nat
        /\ Len(Append(g[n - 1], seq[n])) = Len(g[n - 1]) + 1 /\ Len(g[n - 1]) \in Nat
    BY <2>1
  <2>3. Len(f[n]) + Len(g[n]) = n
    <3>1. CASE seq[n] \in S
      <4>1. f[n] = Append(f[n - 1], seq[n]) /\ g[n] = g[n - 1]
        BY <1>1, <1>2, <1>3, <3>1 DEF Collects
      <4>2. QED
        BY <2>1, <2>2, <4>1
    <3>2. CASE seq[n] \notin S
      <4>1. f[n] = f[n - 1] /\ g[n] = Append(g[n - 1], seq[n])
        BY <1>1, <1>2, <1>3, <3>2 DEF Collects
      <4>2. QED
        BY <2>1, <2>2, <4>1
    <3>3. QED
      BY <3>1, <3>2
  <2>4. QED
    BY <2>1, <2>3 DEF P
<1>6. \A n \in 0 .. N : n \in P
  <2> HIDE DEF P
  <2> QED  BY <1>1, <1>4, <1>5, Climb
<1>7. QED
  BY <1>1, <1>2, <1>3, <1>6

\* What is of a set in a sequence without its first element.
LEMMA AmongTail ==
  ASSUME NEW A, NEW seq \in Seq(A), seq # <<>>, NEW S
  PROVE  Among(seq, S) = IF Head(seq) \in S THEN <<Head(seq)>> \o Among(Tail(seq), S) ELSE Among(Tail(seq), S)
<1> DEFINE N == Len(seq)
           h == Head(seq)
           From(n) == SubSeq(seq, 1, n)
           Rest(n) == SubSeq(seq, 2, n)
           Good(n) == Among(From(n + 1), S) = IF h \in S THEN <<h>> \o Among(Rest(n + 1), S) ELSE Among(Rest(n + 1), S)
           P == {n \in 0 .. N - 1 : Good(n)}
<1>1. N \in Nat \ {0} /\ h = seq[1] /\ h \in A /\ N - 1 \in Nat
  OBVIOUS
<1>2. \A n \in 1 .. N - 1 : /\ From(n) \in Seq(A) /\ Rest(n) \in Seq(A) /\ seq[n + 1] \in A
                            /\ From(n + 1) = Append(From(n), seq[n + 1])
                            /\ Rest(n + 1) = Append(Rest(n), seq[n + 1])
  <2> SUFFICES ASSUME NEW n \in 1 .. N - 1
               PROVE  /\ From(n) \in Seq(A) /\ Rest(n) \in Seq(A) /\ seq[n + 1] \in A
                      /\ From(n + 1) = Append(From(n), seq[n + 1])
                      /\ Rest(n + 1) = Append(Rest(n), seq[n + 1])
    OBVIOUS
  <2>1. n \in Nat \ {0} /\ n + 1 \in 1 .. N /\ n \in 1 .. N
    BY <1>1
  <2>2. From(n) \in Seq(A) /\ Rest(n) \in Seq(A) /\ seq[n + 1] \in A
    BY <1>1, <2>1
  <2>3. /\ Len(From(n)) = n /\ Len(From(n + 1)) = n + 1 /\ From(n + 1) \in Seq(A)
        /\ Len(Rest(n)) = n - 1 /\ Len(Rest(n + 1)) = n /\ Rest(n + 1) \in Seq(A)
        /\ \A i \in 1 .. n : From(n)[i] = seq[i] /\ From(n + 1)[i] = seq[i]
        /\ From(n + 1)[n + 1] = seq[n + 1]
        /\ \A i \in 1 .. n - 1 : Rest(n)[i] = seq[i + 1] /\ Rest(n + 1)[i] = seq[i + 1]
        /\ Rest(n + 1)[n] = seq[n + 1]
    BY <1>1, <2>1
  <2> HIDE DEF From, Rest, N
  <2>4. From(n + 1) = Append(From(n), seq[n + 1])
    <3>1. Len(Append(From(n), seq[n + 1])) = n + 1 /\ Append(From(n), seq[n + 1])[n + 1] = seq[n + 1]
      BY <2>1, <2>2, <2>3
    <3>2. \A i \in 1 .. n : Append(From(n), seq[n + 1])[i] = seq[i]
      BY <2>1, <2>2, <2>3
    <3>3. \A i \in 1 .. n + 1 : i = n + 1 \/ i \in 1 .. n
      BY <2>1
    <3>4. Append(From(n), seq[n + 1]) \in Seq(A)
      BY <2>2
    <3>5. QED
      BY <2>3, <3>1, <3>2, <3>3, <3>4
  <2>5. Rest(n + 1) = Append(Rest(n), seq[n + 1])
    <3>1. Len(Append(Rest(n), seq[n + 1])) = n /\ Append(Rest(n), seq[n + 1])[n] = seq[n + 1]
      BY <2>1, <2>2, <2>3
    <3>2. \A i \in 1 .. n - 1 : Append(Rest(n), seq[n + 1])[i] = seq[i + 1]
      BY <2>1, <2>2, <2>3
    <3>3. \A i \in 1 .. n : i = n \/ i \in 1 .. n - 1
      BY <2>1
    <3>4. Append(Rest(n), seq[n + 1]) \in Seq(A)
      BY <2>2
    <3>5. QED
      BY <2>3, <3>1, <3>2, <3>3, <3>4
  <2>6. QED
    BY <2>2, <2>4, <2>5
<1>3. 0 \in P
  <2>1. From(1) = Append(<<>>, h) /\ Rest(1) = <<>> /\ <<>> \in Seq(A)
    <3>1. SubSeq(seq, 1, 1) \in Seq(A) /\ Len(SubSeq(seq, 1, 1)) = 1 /\ SubSeq(seq, 1, 1)[1] = seq[1]
      BY <1>1
    <3>2. SubSeq(seq, 1, 1) = <<seq[1]>>
      <4>1. <<seq[1]>> \in Seq(A) /\ Len(<<seq[1]>>) = 1 /\ <<seq[1]>>[1] = seq[1]
        BY <1>1
      <4>2. \A i \in 1 .. 1 : SubSeq(seq, 1, 1)[i] = <<seq[1]>>[i]
        BY <3>1, <4>1
      <4> HIDE DEF N
      <4>3. QED
        BY <3>1, <4>1, <4>2, SeqEqual
    <3>3. SubSeq(seq, 2, 1) = <<>>
      BY <1>1
    <3>4. QED
      BY <1>1, <3>2, <3>3
  <2> HIDE DEF From, Rest, h, N
  <2>2. Among(<<>>, S) = <<>> /\ Among(Append(<<>>, h), S) = IF h \in S THEN Append(<<>>, h) ELSE <<>>
    <3>1. Among(<<>>, S) = <<>>
      BY AmongEmpty
    <3>2. Among(Append(<<>>, h), S) = IF h \in S THEN Append(Among(<<>>, S), h) ELSE Among(<<>>, S)
      <4> DEFINE none == <<>>
      <4>1. none \in Seq(A) /\ h \in A
        BY <1>1, <2>1
      <4> HIDE DEF none
      <4>2. Among(Append(none, h), S) = IF h \in S THEN Append(Among(none, S), h) ELSE Among(none, S)
        BY <4>1, AmongAppend
      <4>3. QED
        BY <4>2 DEF none
    <3>3. QED
      BY <3>1, <3>2
  <2>3. Append(<<>>, h) = <<h>> \o <<>>
    BY <1>1
  <2>4. Good(0)
    <3>1. 0 + 1 = 1
      OBVIOUS
    <3>2. Among(From(1), S) = IF h \in S THEN <<h>> \o Among(Rest(1), S) ELSE Among(Rest(1), S)
      BY <2>1, <2>2, <2>3
    <3>3. QED
      BY <3>1, <3>2
  <2>5. QED
    BY <1>1, <2>4
<1>4. ASSUME NEW n \in 1 .. N - 1, n - 1 \in P PROVE n \in P
  <2>1. Good(n - 1) /\ (n - 1) + 1 = n /\ n \in 0 .. N - 1
    BY <1>1, <1>4
  <2>2. /\ Among(From(n), S) \in Seq(A) /\ Among(Rest(n), S) \in Seq(A)
        /\ Among(From(n + 1), S) = IF seq[n + 1] \in S THEN Append(Among(From(n), S), seq[n + 1]) ELSE Among(From(n), S)
        /\ Among(Rest(n + 1), S) = IF seq[n + 1] \in S THEN Append(Among(Rest(n), S), seq[n + 1]) ELSE Among(Rest(n), S)
    <3>1. From(n) \in Seq(A) /\ Rest(n) \in Seq(A) /\ seq[n + 1] \in A
      BY <1>2
    <3> DEFINE f == From(n)
               q == Rest(n)
               y == seq[n + 1]
    <3>2. /\ Among(From(n), S) \in Seq(A) /\ Among(Rest(n), S) \in Seq(A)
          /\ Among(Append(From(n), seq[n + 1]), S) =
               IF seq[n + 1] \in S THEN Append(Among(From(n), S), seq[n + 1]) ELSE Among(From(n), S)
          /\ Among(Append(Rest(n), seq[n + 1]), S) =
               IF seq[n + 1] \in S THEN Append(Among(Rest(n), S), seq[n + 1]) ELSE Among(Rest(n), S)
      <4>1. f \in Seq(A) /\ q \in Seq(A) /\ y \in A
        BY <3>1
      <4> HIDE DEF f, q, y
      <4>2. Among(f, S) \in Seq(A) /\ Among(q, S) \in Seq(A)
        BY <4>1, AmongSound
      <4>3. /\ Among(Append(f, y), S) = IF y \in S THEN Append(Among(f, S), y) ELSE Among(f, S)
            /\ Among(Append(q, y), S) = IF y \in S THEN Append(Among(q, S), y) ELSE Among(q, S)
        BY <4>1, AmongAppend
      <4>4. QED
        BY <4>2, <4>3 DEF f, q, y
    <3> HIDE DEF From, Rest
    <3>3. QED
      BY <1>2, <3>2
  <2>3. Among(From(n), S) = IF h \in S THEN <<h>> \o Among(Rest(n), S) ELSE Among(Rest(n), S)
    BY <2>1
  <2> DEFINE a == Among(Rest(n), S)
             x == seq[n + 1]
  <2>4. \A t \in Seq(A) : Append(<<h>> \o t, x) = <<h>> \o Append(t, x)
    <3>1. x \in A /\ h \in A
      BY <1>1, <1>2
    <3> HIDE DEF x, h
    <3>2. QED
      BY <3>1
  <2> HIDE DEF From, Rest, h, x
  <2>5. Among(From(n + 1), S) = IF h \in S THEN <<h>> \o Among(Rest(n + 1), S) ELSE Among(Rest(n + 1), S)
    <3>1. CASE x \in S
      BY <2>2, <2>3, <2>4, <3>1 DEF x
    <3>2. CASE x \notin S
      BY <2>2, <2>3, <3>2 DEF x
    <3>3. QED
      BY <3>1, <3>2
  <2>6. QED
    BY <2>1, <2>5
<1>5. \A n \in 0 .. N - 1 : n \in P
  <2> HIDE DEF P, N
  <2> QED  BY <1>1, <1>3, <1>4, Climb
<1>6. Good(N - 1) /\ (N - 1) + 1 = N
  <2>1. N - 1 \in 0 .. N - 1 /\ (N - 1) + 1 = N
    BY <1>1
  <2>2. N - 1 \in P
    <3> HIDE DEF P, N
    <3> QED  BY <1>5, <2>1
  <2>3. QED
    BY <2>1, <2>2
<1>7. From(N) = seq /\ Rest(N) = Tail(seq)
  BY <1>1
<1>8. QED
  <2> HIDE DEF From, Rest
  <2> QED  BY <1>6, <1>7

=============================================================================
