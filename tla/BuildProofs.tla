----------------------------- MODULE BuildProofs -----------------------------
(***************************************************************************)
(* The symbolic trace of a tree of agents, for any well-grown tree and any *)
(* depth.  Tasks wait for each other along `up`: whoever is suspended is   *)
(* owed an answer by a later task, so an empty queue leaves nobody         *)
(* suspended, and the entries of the stack are counted by the forwards     *)
(* that are under way.  Until an error is on its way up, either the tasks  *)
(* are one chain, whose forwards lie on the stack one above the other, and *)
(* each node is recorded under the path of its events; or two gathers are  *)
(* beside each other and a node is, or will be next, under a wrong path.   *)
(***************************************************************************)
EXTENDS Build, SeqLemmas, FiniteSetTheorems

-----------------------------------------------------------------------------
(* A tree, its agents and its paths *)

Family == DOMAIN tree.kids

\* A sequence without its end, and one that is put behind another.
LEMMA FrontIs ==
  ASSUME NEW S, NEW s \in Seq(S), s # <<>>
  PROVE  /\ Len(s) \in Nat \ {0} /\ s[Len(s)] \in S /\ Last(s) = s[Len(s)]
         /\ Front(s) \in Seq(S) /\ Len(Front(s)) = Len(s) - 1 /\ \A j \in 1 .. Len(s) - 1 : Front(s)[j] = s[j]
<1>1. Len(s) \in Nat \ {0} /\ s[Len(s)] \in S /\ \A i \in 1 .. Len(s) - 1 : s[i] \in S
  OBVIOUS
<1> DEFINE n == Len(s) - 1
<1>2. n \in Nat /\ n \in Int /\ 1 \in Int /\ \A i \in 1 .. n : s[i] \in S
  BY <1>1
<1>3. Last(s) = s[Len(s)] /\ Front(s) = SubSeq(s, 1, n)
  BY DEF Front, Last
<1> HIDE DEF n
<1>4. /\ SubSeq(s, 1, n) \in Seq(S) /\ Len(SubSeq(s, 1, n)) = (IF 1 <= n THEN n - 1 + 1 ELSE 0)
      /\ \A i \in 1 .. n - 1 + 1 : SubSeq(s, 1, n)[i] = s[1 + i - 1]
  BY <1>2, SubSeqProperties
<1>5. Len(SubSeq(s, 1, n)) = n
  BY <1>2, <1>4
<1>6. \A i \in 1 .. n : i \in 1 .. n - 1 + 1 /\ 1 + i - 1 = i
  BY <1>2
<1>7. \A i \in 1 .. n : SubSeq(s, 1, n)[i] = s[i]
  BY <1>4, <1>6
<1>8. QED
  BY <1>1, <1>3, <1>4, <1>5, <1>7 DEF n

LEMMA JoinIs ==
  ASSUME NEW S, NEW s \in Seq(S), NEW t \in Seq(S)
  PROVE  /\ s \o t \in Seq(S) /\ Len(s \o t) = Len(s) + Len(t) /\ DOMAIN (s \o t) = 1 .. Len(s) + Len(t)
         /\ \A i \in 1 .. Len(s) : (s \o t)[i] = s[i]
         /\ \A i \in 1 .. Len(t) : (s \o t)[Len(s) + i] = t[i]
<1>1. /\ s \o t \in Seq(S) /\ Len(s \o t) = Len(s) + Len(t)
      /\ \A i \in 1 .. Len(s) + Len(t) : (s \o t)[i] = IF i <= Len(s) THEN s[i] ELSE t[i - Len(s)]
  BY ConcatProperties
<1>2. Len(s) \in Nat /\ Len(t) \in Nat
  OBVIOUS
<1>3. DOMAIN (s \o t) = 1 .. Len(s \o t)
  BY <1>1
<1>4. \A i \in 1 .. Len(s) : i \in 1 .. Len(s) + Len(t) /\ i <= Len(s)
  BY <1>2
<1>5. \A i \in 1 .. Len(t) : Len(s) + i \in 1 .. Len(s) + Len(t) /\ ~(Len(s) + i <= Len(s)) /\ Len(s) + i - Len(s) = i
  BY <1>2
<1>6. QED
  BY <1>1, <1>3, <1>4, <1>5

\* A recursive function that does the same at each step.
LEMMA UnfoldExists ==
  ASSUME NEW N \in Nat, NEW A, NEW base \in A, NEW next \in [A -> A]
  PROVE  \E g : g = [n \in 0 .. N |-> IF n = 0 THEN base ELSE next[g[n - 1]]]
<1> DEFINE step == [n \in 1 .. N |-> next]
<1>1. step \in [1 .. N -> [A -> A]]
  OBVIOUS
<1>2. PICK g \in [0 .. N -> A] : Iterates(g, base, step, N)
  BY <1>1, IterationExists
<1>3. \A n \in 0 .. N : g[n] = IF n = 0 THEN base ELSE next[g[n - 1]]
  <2> SUFFICES ASSUME NEW n \in 0 .. N PROVE g[n] = IF n = 0 THEN base ELSE next[g[n - 1]]
    OBVIOUS
  <2>1. g[n] = IF n = 0 THEN base ELSE step[n][g[n - 1]]
    BY <1>2 DEF Iterates
  <2>2. n # 0 => step[n] = next
    OBVIOUS
  <2> HIDE DEF step
  <2>3. QED
    BY <2>1, <2>2
<1>4. g = [n \in 0 .. N |-> IF n = 0 THEN base ELSE next[g[n - 1]]]
  BY <1>2, <1>3
<1>5. QED
  BY <1>4

\* The agents by how deep they are at most.
LEMMA LowIs ==
  ASSUME tree \in Trees
  PROVE  \E low : /\ DOMAIN low = 0 .. Depth /\ low[Depth] = Family
                  /\ \A a \in low[0] : tree.kids[a] = <<>>
                  /\ \A n \in 1 .. Depth : \A a \in low[n] : ToSet(tree.kids[a]) \subseteq low[n - 1]
<1> DEFINE A == Family
           Down(S) == {a \in A : ToSet(tree.kids[a]) \subseteq S}
           base == {a \in A : tree.kids[a] = <<>>}
           next == [S \in SUBSET A |-> Down(S)]
           Goes(f) == f = [n \in 0 .. Depth |-> IF n = 0 THEN base ELSE Down(f[n - 1])]
           low == CHOOSE f : Goes(f)
<1>1. Depth \in Nat /\ WellGrown(tree)
  BY BuildAssumption
<1>2. low[Depth] = A
  BY <1>1 DEF WellGrown, Family
<1>3. base \in SUBSET A /\ next \in [SUBSET A -> SUBSET A] /\ \A S \in SUBSET A : next[S] = Down(S)
  OBVIOUS
<1>4. PICK g : g = [n \in 0 .. Depth |-> IF n = 0 THEN base ELSE next[g[n - 1]]]
  <2> DEFINE D == SUBSET A
  <2>1. base \in D /\ next \in [D -> D] /\ Depth \in Nat
    BY <1>1, <1>3, Zenon
  <2> HIDE DEF base, next, A, D
  <2>2. QED
    BY <2>1, UnfoldExists
<1>5. Goes(g)
  <2>1. \A n \in 0 .. Depth : g[n] \in SUBSET A
    <3> DEFINE P == {n \in 0 .. Depth : g[n] \in SUBSET A}
    <3> HIDE DEF base, next
    <3>1. 0 \in P
      BY <1>1, <1>3, <1>4
    <3>2. \A n \in 1 .. Depth : n - 1 \in P => n \in P
      <4> SUFFICES ASSUME NEW n \in 1 .. Depth, g[n - 1] \in SUBSET A PROVE g[n] \in SUBSET A
        OBVIOUS
      <4>1. n \in 0 .. Depth /\ n # 0
        BY <1>1
      <4>2. g[n] = next[g[n - 1]]
        BY <1>4, <4>1, Zenon
      <4>3. QED
        BY <1>3, <4>2
    <3> HIDE DEF P
    <3>3. \A n \in 0 .. Depth : n \in P
      BY <1>1, <3>1, <3>2, Climb
    <3>4. QED
      BY <3>3 DEF P
  <2>2. \A n \in 1 .. Depth : n - 1 \in 0 .. Depth
    BY <1>1
  <2> HIDE DEF base, next, Down, A
  <2>3. \A n \in 0 .. Depth : n # 0 => next[g[n - 1]] = Down(g[n - 1])
    BY <1>3, <2>1, <2>2
  <2>4. QED
    BY <1>4, <2>3
<1>6. Goes(low)
  <2> HIDE DEF Goes
  <2> QED  BY <1>5
<1>7. low[0] = base /\ \A n \in 1 .. Depth : low[n] = Down(low[n - 1])
  <2>1. low = [n \in 0 .. Depth |-> IF n = 0 THEN base ELSE Down(low[n - 1])]
    BY <1>6
  <2> HIDE DEF low, base, Down
  <2>2. QED
    BY <1>1, <2>1
<1>8. DOMAIN low = 0 .. Depth
  <2>1. low = [n \in 0 .. Depth |-> IF n = 0 THEN base ELSE Down(low[n - 1])]
    BY <1>6
  <2> HIDE DEF low, base, Down
  <2>2. QED
    BY <2>1
<1> HIDE DEF low
<1>9. (\A a \in low[0] : tree.kids[a] = <<>>) /\ low[Depth] = Family
  BY <1>2, <1>7
<1>10. \A n \in 1 .. Depth : \A a \in low[n] : ToSet(tree.kids[a]) \subseteq low[n - 1]
  BY <1>7
<1> HIDE DEF Goes, base, next, Down, A
<1>11. QED
  BY <1>8, <1>9, <1>10, Zenon

LEMMA TreeIs ==
  ASSUME tree \in Trees
  PROVE  /\ Depth \in Nat /\ tree.root \in Family /\ tree.root \notin tree.bad
         /\ tree.kids \in [Family -> Seq(Family)] /\ tree.kind \in [Family -> {"await", "gather"}]
         /\ \A a \in Family : IsLeaf(a) => tree.kind[a] # "gather"
         /\ \A a \in Family : /\ CallsOf(a) \in Seq(Family) /\ Len(CallsOf(a)) = Len(tree.calls[a])
                              /\ ToSet(CallsOf(a)) \subseteq ToSet(tree.kids[a])
                              /\ IsLeaf(a) => CallsOf(a) = <<>>
<1>1. Depth \in Nat /\ WellGrown(tree)
  BY BuildAssumption
<1>2. /\ tree.root \in Family \ tree.bad /\ tree.kids \in [Family -> Seq(Family)]
      /\ tree.kind \in [Family -> {"await", "gather"}]
      /\ DOMAIN tree.calls = Family
      /\ \A a \in Family : tree.calls[a] \in Seq(DOMAIN tree.kids[a]) /\ (tree.kids[a] = <<>> => tree.kind[a] = "await")
  <2> DEFINE A == DOMAIN tree.kids
             low == CHOOSE low : low = [n \in 0 .. Depth |-> IF n = 0 THEN {a \in A : tree.kids[a] = <<>>}
                                                             ELSE {a \in A : ToSet(tree.kids[a]) \subseteq low[n - 1]}]
  <2>1. /\ tree.root \in A \ tree.bad /\ tree.kids \in [A -> Seq(A)] /\ tree.kind \in [A -> {"await", "gather"}]
        /\ DOMAIN tree.calls = A
        /\ \A a \in A : tree.calls[a] \in Seq(DOMAIN tree.kids[a]) /\ (tree.kids[a] = <<>> => tree.kind[a] = "await")
        /\ low[Depth] = A
    BY <1>1, Zenon DEF WellGrown
  <2> HIDE DEF low
  <2>3. A = Family
    BY DEF Family
  <2> HIDE DEF A
  <2>4. QED
    BY <2>1, <2>3, Zenon
<1>3. ASSUME NEW a \in Family
      PROVE  /\ CallsOf(a) \in Seq(Family) /\ Len(CallsOf(a)) = Len(tree.calls[a])
             /\ ToSet(CallsOf(a)) \subseteq ToSet(tree.kids[a]) /\ (IsLeaf(a) => CallsOf(a) = <<>>)
  <2> DEFINE k == tree.kids[a]
             c == tree.calls[a]
             s == [i \in DOMAIN c |-> k[c[i]]]
  <2>1. k \in Seq(Family) /\ c \in Seq(DOMAIN k)
    BY <1>2
  <2>2. CallsOf(a) = s
    BY DEF CallsOf
  <2> HIDE DEF k, c
  <2>3. DOMAIN c = 1 .. Len(c) /\ Len(c) \in Nat /\ \A i \in 1 .. Len(c) : c[i] \in DOMAIN k /\ k[c[i]] \in Family
    BY <2>1
  <2>4. s \in Seq(Family) /\ Len(s) = Len(c) /\ DOMAIN s = 1 .. Len(c) /\ \A i \in 1 .. Len(c) : s[i] = k[c[i]]
    BY <2>3
  <2> HIDE DEF s
  <2>5. ToSet(s) \subseteq ToSet(k)
    <3>1. \A i \in DOMAIN s : \E j \in DOMAIN k : s[i] = k[j]
      BY <2>3, <2>4
    <3>2. QED
      BY <3>1 DEF ToSet
  <2>6. k = <<>> => Len(c) = 0
    <3>1. SUFFICES ASSUME k = <<>>, Len(c) # 0 PROVE FALSE
      OBVIOUS
    <3>2. DOMAIN k = {} /\ 1 \in 1 .. Len(c)
      BY <2>3, <3>1
    <3>3. QED
      BY <2>3, <3>2
  <2>7. k = <<>> => s = <<>>
    BY <2>4, <2>6
  <2>8. QED
    BY <2>2, <2>4, <2>5, <2>7 DEF IsLeaf, k, c
<1>4. QED
  BY <1>1, <1>2, <1>3 DEF IsLeaf

\* What an agent leads to.
LEMMA WithinIs ==
  ASSUME tree \in Trees, NEW a \in Family
  PROVE  /\ a \in Within(a) /\ Within(a) \subseteq Family
         /\ \A c \in Within(a) : ToSet(CallsOf(c)) \subseteq Within(a)
         /\ \A S : a \in S /\ (\A c \in S : ToSet(CallsOf(c)) \subseteq S) => Within(a) \subseteq S
<1> DEFINE A == Family
           Out(T) == T \cup UNION {ToSet(CallsOf(c)) : c \in T}
           next == [T \in SUBSET A |-> Out(T)]
           Goes(f) == f = [n \in 0 .. Depth |-> IF n = 0 THEN {a} ELSE Out(f[n - 1])]
           w == CHOOSE f : Goes(f)
<1>1. Depth \in Nat /\ \A c \in A : ToSet(CallsOf(c)) \subseteq A /\ ToSet(CallsOf(c)) \subseteq ToSet(tree.kids[c])
  <2>1. Depth \in Nat /\ \A c \in A : CallsOf(c) \in Seq(A) /\ ToSet(CallsOf(c)) \subseteq ToSet(tree.kids[c])
    BY TreeIs
  <2>2. \A c \in A : ToSet(CallsOf(c)) \subseteq A
    BY <2>1, ToSetWithin
  <2>3. QED
    BY <2>1, <2>2
<1>2. Within(a) = w[Depth]
  <2>1. \A T : T \cup UNION {ToSet(CallsOf(c)) : c \in T} = Out(T)
    OBVIOUS
  <2>2. QED
    BY DEF Within
<1>3. {a} \in SUBSET A /\ next \in [SUBSET A -> SUBSET A] /\ \A T \in SUBSET A : next[T] = Out(T)
  <2>1. \A T \in SUBSET A : Out(T) \in SUBSET A
    BY <1>1
  <2> HIDE DEF Out
  <2>2. QED
    BY <2>1
<1>4. PICK g : g = [n \in 0 .. Depth |-> IF n = 0 THEN {a} ELSE next[g[n - 1]]]
  <2> DEFINE D == SUBSET A
  <2>1. {a} \in D /\ next \in [D -> D] /\ Depth \in Nat
    BY <1>1, <1>3, Zenon
  <2> HIDE DEF next, A, D
  <2>2. QED
    BY <2>1, UnfoldExists
<1> HIDE DEF next, Out, A
<1>5. Goes(g)
  <2>1. \A n \in 0 .. Depth : g[n] \in SUBSET A
    <3> DEFINE P == {n \in 0 .. Depth : g[n] \in SUBSET A}
    <3>1. 0 \in P
      BY <1>1, <1>3, <1>4
    <3>2. \A n \in 1 .. Depth : n - 1 \in P => n \in P
      <4> SUFFICES ASSUME NEW n \in 1 .. Depth, g[n - 1] \in SUBSET A PROVE g[n] \in SUBSET A
        OBVIOUS
      <4>1. n \in 0 .. Depth /\ n # 0
        BY <1>1
      <4>2. g[n] = next[g[n - 1]]
        BY <1>4, <4>1, Zenon
      <4>3. QED
        BY <1>3, <4>2
    <3> HIDE DEF P
    <3>3. \A n \in 0 .. Depth : n \in P
      BY <1>1, <3>1, <3>2, Climb
    <3>4. QED
      BY <3>3 DEF P
  <2>2. \A n \in 1 .. Depth : n - 1 \in 0 .. Depth
    BY <1>1
  <2>3. \A n \in 0 .. Depth : n # 0 => next[g[n - 1]] = Out(g[n - 1])
    BY <1>3, <2>1, <2>2
  <2>4. QED
    BY <1>4, <2>3
<1>6. Goes(w)
  <2> HIDE DEF Goes
  <2> QED  BY <1>5
<1>7. w[0] = {a} /\ \A n \in 1 .. Depth : w[n] = Out(w[n - 1])
  <2>1. w = [n \in 0 .. Depth |-> IF n = 0 THEN {a} ELSE Out(w[n - 1])]
    BY <1>6
  <2> HIDE DEF w
  <2>2. 0 \in 0 .. Depth /\ \A n \in 1 .. Depth : n \in 0 .. Depth /\ n # 0
    BY <1>1
  <2>3. QED
    BY <2>1, <2>2, Zenon
<1> HIDE DEF w
<1>8. /\ a \in w[0] /\ w[0] \subseteq A
      /\ \A n \in 1 .. Depth : w[n - 1] \subseteq w[n] /\ w[n] = w[n - 1] \cup UNION {ToSet(CallsOf(c)) : c \in w[n - 1]}
  BY <1>3, <1>7 DEF Out
<1>9. \A n \in 0 .. Depth : a \in w[n] /\ w[n] \subseteq A
  <2> DEFINE P == {n \in 0 .. Depth : a \in w[n] /\ w[n] \subseteq A}
  <2>1. 0 \in P
    BY <1>1, <1>8
  <2>2. \A n \in 1 .. Depth : n - 1 \in P => n \in P
    <3> SUFFICES ASSUME NEW n \in 1 .. Depth, a \in w[n - 1], w[n - 1] \subseteq A PROVE a \in w[n] /\ w[n] \subseteq A
      OBVIOUS
    <3>1. w[n] = w[n - 1] \cup UNION {ToSet(CallsOf(c)) : c \in w[n - 1]}
      BY <1>8
    <3>2. QED
      BY <1>1, <3>1
  <2> HIDE DEF P
  <2>3. \A n \in 0 .. Depth : n \in P
    BY <1>1, <2>1, <2>2, Climb
  <2>4. QED
    BY <2>3 DEF P
<1>10. \A c \in w[Depth] : ToSet(CallsOf(c)) \subseteq w[Depth]
  <2>1. PICK low :
                  /\ DOMAIN low = 0 .. Depth /\ low[Depth] = A
                  /\ \A c \in low[0] : tree.kids[c] = <<>>
                  /\ \A n \in 1 .. Depth : \A c \in low[n] : ToSet(tree.kids[c]) \subseteq low[n - 1]
    BY LowIs DEF A
  <2> DEFINE Ends(n) == \A c \in w[n] : ToSet(CallsOf(c)) \subseteq w[n] \/ c \in low[Depth - n]
             P == {n \in 0 .. Depth : Ends(n)}
  <2>2. 0 \in P
    <3>1. Depth - 0 = Depth /\ 0 \in 0 .. Depth
      BY <1>1
    <3>2. QED
      BY <1>8, <2>1, <3>1
  <2>3. \A n \in 1 .. Depth : n - 1 \in P => n \in P
    <3> SUFFICES ASSUME NEW n \in 1 .. Depth, Ends(n - 1) PROVE Ends(n)
      BY <1>1
    <3>1. w[n] = w[n - 1] \cup UNION {ToSet(CallsOf(c)) : c \in w[n - 1]} /\ w[n - 1] \subseteq A
      BY <1>1, <1>8, <1>9
    <3>2. Depth - (n - 1) \in 1 .. Depth /\ Depth - (n - 1) - 1 = Depth - n
      BY <1>1
    <3>3. ASSUME NEW c \in w[n], c \notin w[n - 1] PROVE c \in low[Depth - n]
      <4>1. PICK d \in w[n - 1] : c \in ToSet(CallsOf(d))
        BY <3>1, <3>3
      <4>2. d \in low[Depth - (n - 1)]
        <5>1. ToSet(CallsOf(d)) \subseteq w[n - 1] \/ d \in low[Depth - (n - 1)]
          OBVIOUS
        <5>2. QED
          BY <3>3, <4>1, <5>1
      <4>3. ToSet(tree.kids[d]) \subseteq low[Depth - n]
        BY <2>1, <3>2, <4>2
      <4>4. QED
        BY <1>1, <3>1, <4>1, <4>3
    <3>4. \A c \in w[n - 1] : ToSet(CallsOf(c)) \subseteq w[n]
      BY <3>1
    <3>5. QED
      BY <3>3, <3>4
  <2> HIDE DEF P
  <2>4. Depth \in P
    <3>1. \A n \in 0 .. Depth : n \in P
      BY <1>1, <2>2, <2>3, Climb
    <3>2. QED
      BY <1>1, <3>1
  <2>5. SUFFICES ASSUME NEW c \in w[Depth], c \in low[0] PROVE ToSet(CallsOf(c)) = {}
    <3>1. Depth - Depth = 0
      BY <1>1
    <3>2. QED
      BY <2>4, <2>5, <3>1 DEF P
  <2>6. c \in Family /\ IsLeaf(c)
    BY <1>1, <1>9, <2>1, <2>5 DEF IsLeaf, A
  <2>7. CallsOf(c) = <<>>
    BY <2>6, TreeIs
  <2>8. QED
    BY <2>7, ToSetEmpty
<1>11. ASSUME NEW S, a \in S, \A c \in S : ToSet(CallsOf(c)) \subseteq S PROVE w[Depth] \subseteq S
  <2> DEFINE P == {n \in 0 .. Depth : w[n] \subseteq S}
  <2>1. 0 \in P
    BY <1>1, <1>7, <1>11
  <2>2. \A n \in 1 .. Depth : n - 1 \in P => n \in P
    <3> SUFFICES ASSUME NEW n \in 1 .. Depth, w[n - 1] \subseteq S PROVE w[n] \subseteq S
      OBVIOUS
    <3>1. w[n] = w[n - 1] \cup UNION {ToSet(CallsOf(c)) : c \in w[n - 1]}
      BY <1>8
    <3>2. QED
      BY <1>11, <3>1
  <2> HIDE DEF P
  <2>3. \A n \in 0 .. Depth : n \in P
    BY <1>1, <2>1, <2>2, Climb
  <2>4. QED
    BY <1>1, <2>3 DEF P
<1>12. QED
  BY <1>1, <1>2, <1>9, <1>10, <1>11 DEF A

LEMMA RangeFinite ==
  ASSUME NEW S, IsFiniteSet(S), NEW f, f = [x \in S |-> f[x]]
  PROVE  IsFiniteSet({f[x] : x \in S})
<1> DEFINE T == {f[x] : x \in S}
<1>1. f \in [S -> T] /\ \A t \in T : \E x \in S : f[x] = t
  OBVIOUS
<1>2. f \in Surjection(S, T)
  BY <1>1 DEF Surjection
<1> HIDE DEF T
<1>3. IsFiniteSet(T)
  BY <1>2, FS_Surjection
<1>4. QED
  BY <1>3 DEF T

\* A path, and what a step further is.
Way(a, i) == <<i, tree.kids[a][i]>>
Step(q) == {Append(q, <<i, tree.kids[Last(q)[2]][i]>>) : i \in DOMAIN tree.kids[Last(q)[2]]}
Strides == {q \in Seq(Nat \X Family) : q # <<>> /\ q[1] = <<0, tree.root>>}

LEMMA StrideIs ==
  ASSUME tree \in Trees, NEW q \in Strides
  PROVE  /\ Last(q)[2] \in Family /\ AgentAt(Tail(q)) = Last(q)[2] /\ Tail(q) \in Seq(Nat \X Family)
         /\ \A i \in DOMAIN tree.kids[Last(q)[2]] : \A e : e = Way(Last(q)[2], i) =>
              Append(q, e) \in Strides /\ Last(Append(q, e))[2] = e[2] /\ Tail(Append(q, e)) = Append(Tail(q), e)
         /\ Step(q) \subseteq Strides /\ IsFiniteSet(Step(q))
<1>1. q \in Seq(Nat \X Family) /\ q # <<>> /\ q[1] = <<0, tree.root>> /\ tree.root \in Family
      /\ tree.kids \in [Family -> Seq(Family)]
  BY TreeIs DEF Strides
<1>2. Len(q) \in Nat \ {0} /\ Last(q) = q[Len(q)] /\ q[Len(q)] \in Nat \X Family
  BY <1>1 DEF Last
<1> DEFINE a == Last(q)[2]
           k == tree.kids[a]
<1>3. a \in Family
  BY <1>2
<1>4. k \in Seq(Family)
  BY <1>1, <1>3
<1>5. Tail(q) \in Seq(Nat \X Family) /\ Len(Tail(q)) = Len(q) - 1 /\ \A i \in 1 .. Len(q) - 1 : Tail(q)[i] = q[i + 1]
  BY <1>1, <1>2
<1>6. AgentAt(Tail(q)) = a
  <2>1. CASE Tail(q) = <<>>
    <3>1. Len(q) = 1
      BY <1>2, <1>5, <2>1
    <3>2. QED
      BY <1>1, <1>2, <2>1, <3>1 DEF AgentAt
  <2>2. CASE Tail(q) # <<>>
    <3>1. Len(q) - 1 \in 1 .. Len(q) - 1 /\ Len(q) - 1 + 1 = Len(q)
      BY <1>2, <1>5, <2>2
    <3>2. Last(Tail(q)) = q[Len(q)]
      BY <1>5, <3>1 DEF Last
    <3>3. QED
      BY <1>2, <2>2, <3>2 DEF AgentAt
  <2>3. QED
    BY <2>1, <2>2
<1>7. ASSUME NEW i \in DOMAIN k, NEW e, e = <<i, k[i]>>
      PROVE  Append(q, e) \in Strides /\ Last(Append(q, e))[2] = e[2] /\ Tail(Append(q, e)) = Append(Tail(q), e)
  <2>1. i \in Nat /\ k[i] \in Family
    BY <1>4
  <2>2. e \in Nat \X Family
    BY <1>7, <2>1
  <2>3. /\ Append(q, e) \in Seq(Nat \X Family) /\ Len(Append(q, e)) = Len(q) + 1
        /\ Append(q, e)[Len(q) + 1] = e /\ \A j \in 1 .. Len(q) : Append(q, e)[j] = q[j]
    BY <1>1, <2>2
  <2>4. Append(q, e)[1] = q[1] /\ Append(q, e) # <<>>
    BY <1>2, <2>3
  <2>5. Last(Append(q, e)) = e
    BY <1>2, <2>3 DEF Last
  <2>6. Tail(Append(q, e)) = Append(Tail(q), e)
    <3> DEFINE l == Tail(Append(q, e)) r == Append(Tail(q), e)
    <3>1. l \in Seq(Nat \X Family) /\ Len(l) = Len(q) /\ \A j \in 1 .. Len(q) : l[j] = Append(q, e)[j + 1]
      BY <2>3, <2>4, <1>2
    <3>2. r \in Seq(Nat \X Family) /\ Len(r) = Len(q) /\ r[Len(q)] = e /\ \A j \in 1 .. Len(q) - 1 : r[j] = Tail(q)[j]
      BY <1>5, <1>2, <2>2
    <3>3. \A j \in 1 .. Len(q) : l[j] = r[j]
      <4> SUFFICES ASSUME NEW j \in 1 .. Len(q) PROVE l[j] = r[j]
        OBVIOUS
      <4>1. CASE j = Len(q)
        BY <2>3, <3>1, <3>2, <4>1
      <4>2. CASE j # Len(q)
        <5>1. j \in 1 .. Len(q) - 1 /\ j + 1 \in 1 .. Len(q)
          BY <1>2, <4>2
        <5>2. r[j] = q[j + 1] /\ l[j] = q[j + 1]
          BY <1>5, <2>3, <3>1, <3>2, <5>1
        <5> HIDE DEF l, r
        <5>3. QED
          BY <5>2
      <4>3. QED
        BY <4>1, <4>2
    <3> HIDE DEF l, r
    <3>4. l = r
      BY <3>1, <3>2, <3>3
    <3>5. QED
      BY <3>4 DEF l, r
  <2>7. QED
    BY <1>1, <2>3, <2>4, <2>5, <2>6 DEF Strides
<1>8. Step(q) = {Append(q, <<i, k[i]>>) : i \in DOMAIN k}
  BY DEF Step
<1>9. IsFiniteSet(Step(q))
  <2>1. DOMAIN k = 1 .. Len(k) /\ Len(k) \in Nat
    BY <1>4
  <2>2. IsFiniteSet(DOMAIN k)
    BY <2>1, FS_Interval
  <2> DEFINE f == [i \in DOMAIN k |-> Append(q, <<i, k[i]>>)]
  <2>3. f = [i \in DOMAIN k |-> f[i]] /\ Step(q) = {f[i] : i \in DOMAIN k}
    BY <1>8
  <2> HIDE DEF k, f
  <2>4. QED
    BY <2>2, <2>3, RangeFinite
<1>10. \A i \in DOMAIN k : Way(a, i) = <<i, k[i]>>
  BY DEF Way
<1>11. Step(q) \subseteq Strides
  BY <1>7, <1>8
<1>12. \A i \in DOMAIN k : \A e : e = Way(a, i) =>
         Append(q, e) \in Strides /\ Last(Append(q, e))[2] = e[2] /\ Tail(Append(q, e)) = Append(Tail(q), e)
  BY <1>7, <1>10
<1>13. QED
  BY <1>3, <1>5, <1>6, <1>9, <1>11, <1>12

\* The paths of a tree are closed under a step to a kid, and finitely many.
LEMMA PathsAre ==
  ASSUME tree \in Trees
  PROVE  /\ <<>> \in Paths /\ AgentAt(<<>>) = tree.root /\ IsFiniteSet(Paths)
         /\ \A p \in Paths : p \in Seq(Nat \X Family) /\ AgentAt(p) \in Family
         /\ \A p \in Paths : \A i \in DOMAIN tree.kids[AgentAt(p)] :
              \A e : e = Way(AgentAt(p), i) => Append(p, e) \in Paths /\ AgentAt(Append(p, e)) = e[2]
<1> DEFINE Out(Q) == Q \cup UNION {Step(q) : q \in Q}
           start == {<<<<0, tree.root>>>>}
           next == [Q \in SUBSET Strides |-> Out(Q)]
           Goes(f) == f = [n \in 0 .. Depth |-> IF n = 0 THEN start ELSE Out(f[n - 1])]
           w == CHOOSE f : Goes(f)
<1>1. Depth \in Nat /\ tree.root \in Family
  BY TreeIs
<1>2. Paths = {Tail(q) : q \in w[Depth]}
  <2>1. \A Q : Q \cup UNION {{Append(p, <<i, tree.kids[Last(p)[2]][i]>>) :
                                i \in DOMAIN tree.kids[Last(p)[2]]} : p \in Q} = Out(Q)
    BY DEF Step
  <2>2. QED
    BY DEF Paths, Step
<1>3. \A q \in Strides : Step(q) \subseteq Strides /\ IsFiniteSet(Step(q))
  BY StrideIs
<1>4. start \in SUBSET Strides /\ next \in [SUBSET Strides -> SUBSET Strides]
      /\ \A Q \in SUBSET Strides : next[Q] = Out(Q)
  <2>1. start \in SUBSET Strides
    BY <1>1 DEF Strides
  <2>2. \A Q \in SUBSET Strides : Out(Q) \in SUBSET Strides
    BY <1>3
  <2> HIDE DEF Out, start
  <2>3. QED
    BY <2>1, <2>2
<1>5. PICK g : g = [n \in 0 .. Depth |-> IF n = 0 THEN start ELSE next[g[n - 1]]]
  <2> DEFINE D == SUBSET Strides
  <2>1. start \in D /\ next \in [D -> D] /\ Depth \in Nat
    BY <1>1, <1>4, Zenon
  <2> HIDE DEF next, start, D
  <2>2. QED
    BY <2>1, UnfoldExists
<1> HIDE DEF next, Out, start
<1>6. Goes(g)
  <2>1. \A n \in 0 .. Depth : g[n] \in SUBSET Strides
    <3> DEFINE P == {n \in 0 .. Depth : g[n] \in SUBSET Strides}
    <3>1. 0 \in P
      BY <1>1, <1>4, <1>5
    <3>2. \A n \in 1 .. Depth : n - 1 \in P => n \in P
      <4> SUFFICES ASSUME NEW n \in 1 .. Depth, g[n - 1] \in SUBSET Strides PROVE g[n] \in SUBSET Strides
        OBVIOUS
      <4>1. n \in 0 .. Depth /\ n # 0
        BY <1>1
      <4>2. g[n] = next[g[n - 1]]
        BY <1>5, <4>1, Zenon
      <4>3. QED
        BY <1>4, <4>2
    <3> HIDE DEF P
    <3>3. \A n \in 0 .. Depth : n \in P
      BY <1>1, <3>1, <3>2, Climb
    <3>4. QED
      BY <3>3 DEF P
  <2>2. \A n \in 1 .. Depth : n - 1 \in 0 .. Depth
    BY <1>1
  <2>3. \A n \in 0 .. Depth : n # 0 => next[g[n - 1]] = Out(g[n - 1])
    BY <1>4, <2>1, <2>2
  <2>4. QED
    BY <1>5, <2>3
<1>7. Goes(w)
  <2> HIDE DEF Goes
  <2> QED  BY <1>6
<1>8. w[0] = start /\ \A n \in 1 .. Depth : w[n] = Out(w[n - 1])
  <2>1. w = [n \in 0 .. Depth |-> IF n = 0 THEN start ELSE Out(w[n - 1])]
    BY <1>7
  <2> HIDE DEF w
  <2>2. 0 \in 0 .. Depth /\ \A n \in 1 .. Depth : n \in 0 .. Depth /\ n # 0
    BY <1>1
  <2>3. QED
    BY <2>1, <2>2, Zenon
<1> HIDE DEF w
<1>9. /\ <<<<0, tree.root>>>> \in w[0] /\ w[0] \subseteq Strides /\ IsFiniteSet(w[0])
      /\ \A n \in 1 .. Depth : w[n] = w[n - 1] \cup UNION {Step(q) : q \in w[n - 1]}
  <2>1. IsFiniteSet(start)
    BY FS_Singleton DEF start
  <2>2. QED
    BY <1>4, <1>8, <2>1 DEF Out, start
<1>10. \A n \in 0 .. Depth : <<<<0, tree.root>>>> \in w[n] /\ w[n] \subseteq Strides /\ IsFiniteSet(w[n])
  <2> DEFINE P == {n \in 0 .. Depth : <<<<0, tree.root>>>> \in w[n] /\ w[n] \subseteq Strides /\ IsFiniteSet(w[n])}
  <2>1. 0 \in P
    BY <1>1, <1>9
  <2>2. \A n \in 1 .. Depth : n - 1 \in P => n \in P
    <3> SUFFICES ASSUME NEW n \in 1 .. Depth, <<<<0, tree.root>>>> \in w[n - 1], w[n - 1] \subseteq Strides, IsFiniteSet(w[n - 1])
                 PROVE  <<<<0, tree.root>>>> \in w[n] /\ w[n] \subseteq Strides /\ IsFiniteSet(w[n])
      OBVIOUS
    <3> DEFINE More == {Step(q) : q \in w[n - 1]}
               f == [q \in w[n - 1] |-> Step(q)]
    <3>1. w[n] = w[n - 1] \cup UNION More
      BY <1>9
    <3>2. IsFiniteSet(More)
      <4>1. f = [q \in w[n - 1] |-> f[q]] /\ More = {f[q] : q \in w[n - 1]}
        OBVIOUS
      <4> HIDE DEF f, More
      <4>2. QED
        BY <4>1, RangeFinite
    <3>3. \A T \in More : IsFiniteSet(T) /\ T \subseteq Strides
      BY <1>3
    <3> HIDE DEF More
    <3>4. IsFiniteSet(UNION More)
      BY <3>2, <3>3, FS_UNION
    <3>5. IsFiniteSet(w[n])
      BY <3>1, <3>4, FS_Union
    <3>6. QED
      BY <3>1, <3>3, <3>5
  <2> HIDE DEF P
  <2>3. \A n \in 0 .. Depth : n \in P
    BY <1>1, <2>1, <2>2, Climb
  <2>4. QED
    BY <2>3 DEF P
<1>11. \A q \in w[Depth] : Step(q) \subseteq w[Depth]
  <2>1. PICK low :
                  /\ DOMAIN low = 0 .. Depth /\ low[Depth] = Family
                  /\ \A c \in low[0] : tree.kids[c] = <<>>
                  /\ \A n \in 1 .. Depth : \A c \in low[n] : ToSet(tree.kids[c]) \subseteq low[n - 1]
    BY LowIs
  <2> DEFINE Ends(n) == \A q \in w[n] : Step(q) \subseteq w[n] \/ Last(q)[2] \in low[Depth - n]
             P == {n \in 0 .. Depth : Ends(n)}
  <2>2. 0 \in P
    <3>1. Depth - 0 = Depth /\ 0 \in 0 .. Depth
      BY <1>1
    <3>2. \A q \in w[0] : Last(q)[2] \in Family
      BY <1>9, StrideIs
    <3>3. QED
      BY <2>1, <3>1, <3>2
  <2>3. \A n \in 1 .. Depth : n - 1 \in P => n \in P
    <3> SUFFICES ASSUME NEW n \in 1 .. Depth, Ends(n - 1) PROVE Ends(n)
      BY <1>1
    <3>1. w[n] = w[n - 1] \cup UNION {Step(q) : q \in w[n - 1]} /\ w[n - 1] \subseteq Strides
      BY <1>1, <1>9, <1>10
    <3>2. Depth - (n - 1) \in 1 .. Depth /\ Depth - (n - 1) - 1 = Depth - n
      BY <1>1
    <3>3. ASSUME NEW q \in w[n], q \notin w[n - 1] PROVE Last(q)[2] \in low[Depth - n]
      <4>1. PICK d \in w[n - 1] : q \in Step(d)
        BY <3>1, <3>3
      <4>2. d \in Strides /\ Last(d)[2] \in low[Depth - (n - 1)]
        <5>1. Step(d) \subseteq w[n - 1] \/ Last(d)[2] \in low[Depth - (n - 1)]
          OBVIOUS
        <5>2. QED
          BY <3>1, <3>3, <4>1, <5>1
      <4> DEFINE k == tree.kids[Last(d)[2]]
      <4>3. ToSet(k) \subseteq low[Depth - n]
        BY <2>1, <3>2, <4>2
      <4>4. PICK i \in DOMAIN k : q = Append(d, <<i, k[i]>>)
        BY <4>1 DEF Step
      <4>5. Last(q)[2] = k[i]
        BY <4>2, <4>4, StrideIs DEF Way
      <4>6. k[i] \in ToSet(k)
        BY DEF ToSet
      <4> HIDE DEF k
      <4>7. QED
        BY <4>3, <4>5, <4>6
    <3>4. \A q \in w[n - 1] : Step(q) \subseteq w[n]
      BY <3>1
    <3>5. QED
      BY <3>3, <3>4
  <2> HIDE DEF P
  <2>4. Depth \in P
    <3>1. \A n \in 0 .. Depth : n \in P
      BY <1>1, <2>2, <2>3, Climb
    <3>2. QED
      BY <1>1, <3>1
  <2>5. SUFFICES ASSUME NEW q \in w[Depth], Last(q)[2] \in low[0] PROVE Step(q) = {}
    <3>1. Depth - Depth = 0
      BY <1>1
    <3>2. QED
      BY <2>4, <2>5, <3>1 DEF P
  <2>6. DOMAIN tree.kids[Last(q)[2]] = {}
    BY <2>1, <2>5
  <2>7. QED
    BY <2>6 DEF Step
<1>12. w[Depth] \subseteq Strides /\ IsFiniteSet(w[Depth]) /\ <<<<0, tree.root>>>> \in w[Depth]
  BY <1>1, <1>10
<1>13. IsFiniteSet(Paths)
  <2> DEFINE f == [q \in w[Depth] |-> Tail(q)]
  <2>1. f = [q \in w[Depth] |-> f[q]] /\ Paths = {f[q] : q \in w[Depth]}
    BY <1>2
  <2> HIDE DEF f
  <2>2. QED
    BY <1>12, <2>1, RangeFinite
<1>14. \A p \in Paths : \E q \in w[Depth] : p = Tail(q) /\ q \in Strides
  BY <1>2, <1>12
<1>15. ASSUME NEW p \in Paths
       PROVE  /\ p \in Seq(Nat \X Family) /\ AgentAt(p) \in Family
              /\ \A i \in DOMAIN tree.kids[AgentAt(p)] : \A e :
                   e = Way(AgentAt(p), i) => Append(p, e) \in Paths /\ AgentAt(Append(p, e)) = e[2]
  <2>1. PICK q \in w[Depth] : p = Tail(q) /\ q \in Strides
    BY <1>14
  <2>2. /\ Last(q)[2] \in Family /\ AgentAt(p) = Last(q)[2] /\ p \in Seq(Nat \X Family)
        /\ Step(q) \subseteq w[Depth]
    BY <1>11, <2>1, StrideIs
  <2>3. ASSUME NEW i \in DOMAIN tree.kids[AgentAt(p)], NEW e, e = Way(AgentAt(p), i)
        PROVE  Append(p, e) \in Paths /\ AgentAt(Append(p, e)) = e[2]
    <3>1. Append(q, e) \in Strides /\ Last(Append(q, e))[2] = e[2] /\ Tail(Append(q, e)) = Append(p, e)
      BY <2>1, <2>2, <2>3, StrideIs
    <3>2. Append(q, e) \in Step(q)
      BY <2>2, <2>3 DEF Step, Way
    <3>3. Append(p, e) \in Paths
      BY <1>2, <2>2, <3>1, <3>2
    <3>4. AgentAt(Append(p, e)) = e[2]
      BY <3>1, StrideIs
    <3>5. QED
      BY <3>3, <3>4
  <2>4. QED
    BY <2>2, <2>3
<1>16. <<>> \in Paths
  <2>1. Tail(<<<<0, tree.root>>>>) = <<>>
    OBVIOUS
  <2>2. QED
    BY <1>2, <1>12, <2>1
<1>17. QED
  BY <1>13, <1>15, <1>16 DEF AgentAt

LEMMA AttrIs ==
  ASSUME tree \in Trees, NEW a \in Family, NEW c
  PROVE  /\ AttrOf(a, c) \in Nat
         /\ c \in ToSet(tree.kids[a]) => AttrOf(a, c) \in DOMAIN tree.kids[a] /\ tree.kids[a][AttrOf(a, c)] = c
<1> DEFINE k == tree.kids[a]
           at == {i \in DOMAIN k : k[i] = c}
<1>1. k \in Seq(Family)
  BY TreeIs
<1>2. DOMAIN k \subseteq Nat
  BY <1>1
<1>3. AttrOf(a, c) = IF at = {} THEN 0 ELSE CHOOSE i \in at : \A j \in at : i <= j
  BY DEF AttrOf
<1>4. at \subseteq Nat /\ (c \in ToSet(k) => at # {})
  BY <1>2 DEF ToSet
<1> HIDE DEF k
<1>5. at # {} => AttrOf(a, c) \in at
  <2> HIDE DEF at
  <2>1. SUFFICES ASSUME at # {} PROVE AttrOf(a, c) \in at
    OBVIOUS
  <2>2. \E i \in at : \A j \in at : i <= j
    BY <1>4, <2>1, NatMin
  <2>3. QED
    BY <1>3, <2>1, <2>2
<1>6. AttrOf(a, c) \in at => AttrOf(a, c) \in DOMAIN k /\ k[AttrOf(a, c)] = c
  OBVIOUS
<1>7. at = {} => AttrOf(a, c) = 0
  BY <1>3
<1> HIDE DEF at
<1>8. AttrOf(a, c) \in Nat
  <2>1. CASE at = {}
    BY <1>7, <2>1
  <2>2. CASE at # {}
    <3>1. AttrOf(a, c) \in at
      BY <1>5, <2>2
    <3>2. QED
      BY <1>4, <3>1
  <2>3. QED
    BY <2>1, <2>2
<1>9. c \in ToSet(k) => AttrOf(a, c) \in DOMAIN k /\ k[AttrOf(a, c)] = c
  BY <1>4, <1>5, <1>6
<1>10. QED
  BY <1>8, <1>9, Zenon DEF k

\* What a call is recorded under.
LEMMA UnderIs ==
  ASSUME tree \in Trees, NEW p \in Seq(Nat \X Family), NEW a \in Family, NEW c \in Family
  PROVE  /\ Under(p, a, c) \in Seq(Nat \X Family) /\ Len(Under(p, a, c)) = Len(p) + 1
         /\ p \in Paths /\ a = AgentAt(p) /\ c \in ToSet(CallsOf(a)) =>
              Under(p, a, c) \in Paths /\ AgentAt(Under(p, a, c)) = c
<1> DEFINE e == <<AttrOf(a, c), c>>
<1>1. AttrOf(a, c) \in Nat
  BY AttrIs
<1>2. e \in Nat \X Family /\ Under(p, a, c) = Append(p, e)
  BY <1>1 DEF Under
<1>3. ASSUME p \in Paths, a = AgentAt(p), c \in ToSet(CallsOf(a)) PROVE Append(p, e) \in Paths /\ AgentAt(Append(p, e)) = c
  <2>1. c \in ToSet(tree.kids[a])
    BY <1>3, TreeIs
  <2>2. AttrOf(a, c) \in DOMAIN tree.kids[a] /\ tree.kids[a][AttrOf(a, c)] = c
    BY <2>1, AttrIs
  <2>3. e = Way(AgentAt(p), AttrOf(a, c)) /\ e[2] = c
    BY <1>3, <2>2 DEF Way
  <2> HIDE DEF e
  <2>4. QED
    BY <1>3, <2>2, <2>3, PathsAre
<1> HIDE DEF e
<1>4. QED
  BY <1>2, <1>3

-----------------------------------------------------------------------------
(* The state of a trace *)

Sites  == Seq(Nat \X Family)
Frames == [agent : Family, site : Sites, todo : Seq(Family), before : Nat, spreads : BOOLEAN]
Stacked == [agent : Family, path : Sites]
Noted  == [path : Sites, agent : Family, site : Sites]
Tasks  == [up : Nat, left : Int, woken : BOOLEAN, frames : Seq(Frames)]
Queue  == [what : {"run", "done"}, task : Nat, err : BOOLEAN]

BuildType ==
  /\ tree \in Trees
  /\ ready \in Seq(Queue) /\ tasks \in Seq(Tasks) /\ stack \in Seq(Stacked)
  /\ nodes \in Seq(Noted) /\ nodes # <<>>
  /\ outcome \in {"tracing", "traced", "built", "failed"}

Fr(t) == tasks[t].frames
Live(t) == Fr(t) # <<>>
Queued(t) == \E i \in DOMAIN ready : ready[i].task = t
Suspended(t) == Live(t) /\ ~Queued(t)

\* The tasks that u is to hear of.
Owed(u) == {t \in DOMAIN tasks : t # 1 /\ tasks[t].up = u /\ (Live(t) \/ Queued(t))}

EntriesOK ==
  /\ \A i \in DOMAIN ready : ready[i].task \in DOMAIN tasks
  /\ \A t \in DOMAIN tasks : \A i \in DOMAIN ready : ready[i].task = t =>
       /\ ready[i].what = "run" <=> Live(t)
       /\ t = 1 => ready[i].what = "run"
       /\ ready[i].what = "run" /\ ~ready[i].err => Owed(t) = {}
  /\ \A i, j \in DOMAIN ready : ready[i].task = ready[j].task => i = j

\* left counts whom a task is to hear of, and a task sleeps exactly as long as needed.
GathersOK ==
  /\ 1 \in DOMAIN tasks /\ (outcome = "tracing" <=> Live(1))
  /\ \A t \in DOMAIN tasks :
       /\ tasks[t].left = Cardinality(Owed(t))
       /\ tasks[t].up \in DOMAIN tasks /\ (t # 1 => tasks[t].up < t)
       /\ Suspended(t) => ~tasks[t].woken /\ Owed(t) # {}
       /\ Owed(t) # {} => tasks[t].woken \/ Suspended(t)

-----------------------------------------------------------------------------
(* What a step does to the tasks *)

GivenFrames(s, m, fs) == [s EXCEPT ![m].frames = fs]
GivenCount(s, m, n) == [s EXCEPT ![m].left = n, ![m].woken = FALSE]
Spent(f) == [f EXCEPT !.todo = <<>>]
Advanced(f) == [f EXCEPT !.todo = Tail(@)]
Handed(f, k) == [f EXCEPT !.todo = <<f.todo[k]>>, !.spreads = FALSE]

LEMMA FramesChange ==
  ASSUME NEW f \in Frames
  PROVE  /\ \A g : g = Spent(f) => g = [agent |-> f.agent, site |-> f.site, todo |-> <<>>, before |-> f.before, spreads |-> f.spreads]
         /\ \A g : g = Advanced(f) => g = [agent |-> f.agent, site |-> f.site, todo |-> Tail(f.todo), before |-> f.before, spreads |-> f.spreads]
         /\ \A g, k : g = Handed(f, k) => g = [agent |-> f.agent, site |-> f.site, todo |-> <<f.todo[k]>>, before |-> f.before, spreads |-> FALSE]
         /\ f = [agent |-> f.agent, site |-> f.site, todo |-> f.todo, before |-> f.before, spreads |-> f.spreads]
<1>1. f = [agent |-> f.agent, site |-> f.site, todo |-> f.todo, before |-> f.before, spreads |-> f.spreads]
  BY DEF Frames
<1>2. ASSUME NEW g, g = Spent(f)
      PROVE  g = [agent |-> f.agent, site |-> f.site, todo |-> <<>>, before |-> f.before, spreads |-> f.spreads]
  BY <1>1, <1>2 DEF Spent
<1>3. ASSUME NEW g, g = Advanced(f)
      PROVE  g = [agent |-> f.agent, site |-> f.site, todo |-> Tail(f.todo), before |-> f.before, spreads |-> f.spreads]
  BY <1>1, <1>3 DEF Advanced
<1>4. ASSUME NEW g, NEW k, g = Handed(f, k)
      PROVE  g = [agent |-> f.agent, site |-> f.site, todo |-> <<f.todo[k]>>, before |-> f.before, spreads |-> FALSE]
  BY <1>1, <1>4 DEF Handed
<1>5. QED
  BY <1>1, <1>2, <1>3, <1>4

Asleep(q) == [q EXCEPT !.woken = FALSE]

LEMMA AsleepIs ==
  ASSUME NEW q, q = [up |-> q.up, left |-> q.left, woken |-> q.woken, frames |-> q.frames], NEW r, r = Asleep(q)
  PROVE  r = [up |-> q.up, left |-> q.left, woken |-> FALSE, frames |-> q.frames]
  BY DEF Asleep

LEMMA TasksChange ==
  ASSUME NEW s \in Seq(Tasks), NEW m \in DOMAIN s
  PROVE  /\ \A fs \in Seq(Frames) : \A r : r = GivenFrames(s, m, fs) =>
              /\ r \in Seq(Tasks) /\ Len(r) = Len(s) /\ \A t \in DOMAIN s : t # m => r[t] = s[t]
              /\ r[m] = [up |-> s[m].up, left |-> s[m].left, woken |-> s[m].woken, frames |-> fs]
         /\ \A n \in Nat : \A r : r = GivenCount(s, m, n) =>
              /\ r \in Seq(Tasks) /\ Len(r) = Len(s) /\ \A t \in DOMAIN s : t # m => r[t] = s[t]
              /\ r[m] = [up |-> s[m].up, left |-> n, woken |-> FALSE, frames |-> s[m].frames]
<1>1. /\ s[m] = [up |-> s[m].up, left |-> s[m].left, woken |-> s[m].woken, frames |-> s[m].frames] /\ s[m] \in Tasks
      /\ DOMAIN s = 1 .. Len(s) /\ Len(s) \in Nat
  <2>1. s[m] \in Tasks /\ DOMAIN s = 1 .. Len(s) /\ Len(s) \in Nat
    OBVIOUS
  <2>2. QED
    BY <2>1 DEF Tasks
<1>2. ASSUME NEW fs \in Seq(Frames), NEW r, r = GivenFrames(s, m, fs)
      PROVE  /\ r \in Seq(Tasks) /\ Len(r) = Len(s) /\ \A t \in DOMAIN s : t # m => r[t] = s[t]
             /\ r[m] = [up |-> s[m].up, left |-> s[m].left, woken |-> s[m].woken, frames |-> fs]
  <2> DEFINE x == [s[m] EXCEPT !.frames = fs]
  <2>1. x = [up |-> s[m].up, left |-> s[m].left, woken |-> s[m].woken, frames |-> fs]
    BY <1>1
  <2>2. x \in Tasks
    BY <1>1, <2>1 DEF Tasks
  <2>3. r = [s EXCEPT ![m] = x]
    BY <1>2 DEF GivenFrames
  <2> HIDE DEF x
  <2>4. QED
    BY <1>1, <2>1, <2>2, <2>3
<1>3. ASSUME NEW n \in Nat, NEW r, r = GivenCount(s, m, n)
      PROVE  /\ r \in Seq(Tasks) /\ Len(r) = Len(s) /\ \A t \in DOMAIN s : t # m => r[t] = s[t]
             /\ r[m] = [up |-> s[m].up, left |-> n, woken |-> FALSE, frames |-> s[m].frames]
  <2> DEFINE x == [up |-> s[m].up, left |-> n, woken |-> FALSE, frames |-> s[m].frames]
  <2>1. x \in Tasks
    BY <1>1 DEF Tasks
  <2>2. r = [s EXCEPT ![m] = x]
    <3> DEFINE y == [s EXCEPT ![m].left = n]
               x1 == [s[m] EXCEPT !.left = n]
    <3>1. r = [y EXCEPT ![m].woken = FALSE]
      BY <1>3 DEF GivenCount
    <3>2. x1 = [up |-> s[m].up, left |-> n, woken |-> s[m].woken, frames |-> s[m].frames]
      BY <1>1
    <3>3. y = [s EXCEPT ![m] = x1]
      OBVIOUS
    <3> HIDE DEF x1, y
    <3>4. y[m] = x1 /\ DOMAIN y = DOMAIN s
      BY <3>3
    <3> DEFINE x2 == Asleep(y[m])
    <3>5. x2 = x
      <4>1. y[m] = [up |-> s[m].up, left |-> n, woken |-> s[m].woken, frames |-> s[m].frames]
        BY <3>2, <3>4
      <4>2. /\ y[m].up = s[m].up /\ y[m].left = n /\ y[m].frames = s[m].frames
            /\ y[m] = [up |-> y[m].up, left |-> y[m].left, woken |-> y[m].woken, frames |-> y[m].frames]
        BY <4>1
      <4>3. x2 = [up |-> y[m].up, left |-> y[m].left, woken |-> FALSE, frames |-> y[m].frames]
        BY <4>2, AsleepIs
      <4>4. QED
        BY <4>2, <4>3, Zenon
    <3>6. r = [y EXCEPT ![m] = x2]
      BY <3>1 DEF Asleep
    <3> HIDE DEF x, x2
    <3>7. QED
      BY <3>3, <3>5, <3>6
  <2> HIDE DEF x
  <2>3. r[m] = x
    BY <2>2
  <2>4. QED
    BY <1>1, <2>1, <2>2, <2>3 DEF x
<1>4. QED
  BY <1>2, <1>3

Kid == Head(Top.todo)
KidSite == Under(Top.site, Top.agent, Kid)
Steps == TaskRuns /\ UNCHANGED tree

CallsLeaf ==
  /\ Steps /\ ~Now.err /\ ~Top.spreads /\ Top.todo # <<>> /\ Kid \notin tree.bad /\ IsLeaf(Kid)
  /\ nodes' = Recorded(Kid, KidSite)
  /\ tasks' = GivenFrames(tasks, Me, Append(Front(Fr(Me)), Advanced(Top)))
  /\ UNCHANGED <<stack, ready, outcome>>
CallsInto ==
  /\ Steps /\ ~Now.err /\ ~Top.spreads /\ Top.todo # <<>> /\ Kid \notin tree.bad /\ ~IsLeaf(Kid)
  /\ nodes' = Recorded(Kid, KidSite)
  /\ stack' = Append(stack, [agent |-> Kid, path |-> Last(nodes').path])
  /\ tasks' = GivenFrames(tasks, Me, Front(Fr(Me)) \o <<Advanced(Top), Frame(Kid, KidSite, Len(nodes'))>>)
  /\ UNCHANGED <<ready, outcome>>
Bypassed == ~IsLeaf(Top.agent) /\ Len(nodes) = Top.before
Pops ==
  /\ Steps /\ ~Now.err /\ Top.todo = <<>> /\ Len(Fr(Me)) # 1 /\ ~Bypassed
  /\ stack' = Front(stack)
  /\ tasks' = GivenFrames(tasks, Me, Front(Fr(Me)))
  /\ UNCHANGED <<ready, outcome, nodes>>
Raises == Steps /\ Over(TRUE) /\ UNCHANGED nodes
Finishes == Steps /\ ~Now.err /\ Top.todo = <<>> /\ Len(Fr(Me)) = 1 /\ ~Bypassed /\ Over(FALSE) /\ UNCHANGED nodes
Gathers ==
  /\ Steps /\ ~Now.err /\ Top.spreads /\ Top.todo # <<>>
  /\ LET n == Len(Top.todo)
     IN /\ tasks' = GivenCount(GivenFrames(tasks, Me, Append(Front(Fr(Me)), Spent(Top))), Me, n) \o
                      [i \in 1 .. n |-> [up |-> Me, left |-> 0, woken |-> FALSE, frames |-> <<Handed(Top, i)>>]]
        /\ ready' = Tail(ready) \o [i \in 1 .. n |-> Entry("run", Len(tasks) + i, FALSE)]
  /\ UNCHANGED <<stack, nodes, outcome>>

LEMMA StepKinds ==
  BuildNext => CallsLeaf \/ CallsInto \/ Pops \/ Raises \/ Finishes \/ Gathers \/ CallBack \/ Install
<1>1. ASSUME CallKid PROVE CallsLeaf \/ CallsInto \/ Raises
  <2>1. TaskRuns /\ ~Now.err /\ ~Top.spreads /\ Top.todo # <<>> /\ UNCHANGED tree
    BY <1>1 DEF CallKid
  <2>2. CASE Kid \in tree.bad
    BY <1>1, <2>2 DEF CallKid, Kid, Raises, Steps
  <2>3. CASE Kid \notin tree.bad
    <3>1. /\ nodes' = Recorded(Kid, KidSite)
          /\ UNCHANGED <<ready, outcome>>
          /\ IF IsLeaf(Kid) THEN tasks' = WithTop([Top EXCEPT !.todo = Tail(@)]) /\ UNCHANGED stack
             ELSE /\ stack' = Append(stack, [agent |-> Kid, path |-> Last(nodes').path])
                  /\ tasks' = [tasks EXCEPT ![Me].frames =
                                 Front(@) \o <<[Top EXCEPT !.todo = Tail(@)], Frame(Kid, KidSite, Len(nodes'))>>]
      BY <1>1, <2>3, Zenon DEF CallKid, Kid, KidSite
    <3>2. CASE IsLeaf(Kid)
      <4>1. tasks' = WithTop([Top EXCEPT !.todo = Tail(@)]) /\ UNCHANGED stack
        BY <3>1, <3>2
      <4>2. tasks' = GivenFrames(tasks, Me, Append(Front(Fr(Me)), Advanced(Top)))
        BY <4>1 DEF WithTop, GivenFrames, Advanced, Fr
      <4>3. QED
        BY <2>1, <2>3, <3>1, <3>2, <4>1, <4>2 DEF CallsLeaf, Steps
    <3>3. CASE ~IsLeaf(Kid)
      <4>1. /\ stack' = Append(stack, [agent |-> Kid, path |-> Last(nodes').path])
            /\ tasks' = [tasks EXCEPT ![Me].frames =
                           Front(@) \o <<[Top EXCEPT !.todo = Tail(@)], Frame(Kid, KidSite, Len(nodes'))>>]
        BY <3>1, <3>3
      <4>2. tasks' = GivenFrames(tasks, Me, Front(Fr(Me)) \o <<Advanced(Top), Frame(Kid, KidSite, Len(nodes'))>>)
        BY <4>1 DEF GivenFrames, Advanced, Fr
      <4>3. QED
        BY <2>1, <2>3, <3>1, <3>3, <4>1, <4>2 DEF CallsInto, Steps
    <3>4. QED
      BY <3>2, <3>3
  <2>4. QED
    BY <2>2, <2>3
<1>2. ASSUME Spread PROVE Gathers
  BY <1>2 DEF Spread, Gathers, Steps, GivenCount, GivenFrames, WithTop, Spent, Handed, Fr
<1>3. ASSUME ForwardReturns PROVE Pops \/ Raises \/ Finishes
  <2>1. TaskRuns /\ ~Now.err /\ Top.todo = <<>> /\ UNCHANGED <<tree, nodes>>
    BY <1>3 DEF ForwardReturns
  <2>2. IF Len(Fr(Me)) = 1 \/ Bypassed THEN Over(Bypassed)
        ELSE stack' = Front(stack) /\ tasks' = [tasks EXCEPT ![Me].frames = Front(@)] /\ UNCHANGED <<ready, outcome>>
    BY <1>3 DEF ForwardReturns, Bypassed, Fr
  <2>3. CASE Bypassed
    <3>1. Over(Bypassed) /\ Bypassed = TRUE
      BY <2>2, <2>3 DEF Bypassed
    <3>2. Over(TRUE)
      BY <3>1
    <3>3. QED
      BY <2>1, <3>2 DEF Raises, Steps
  <2>4. CASE ~Bypassed /\ Len(Fr(Me)) = 1
    <3>1. Over(Bypassed) /\ Bypassed = FALSE
      BY <2>2, <2>4 DEF Bypassed
    <3>2. Over(FALSE)
      BY <3>1
    <3>3. QED
      BY <2>1, <2>4, <3>2 DEF Finishes, Steps
  <2>5. CASE ~Bypassed /\ Len(Fr(Me)) # 1
    BY <2>1, <2>2, <2>5 DEF Pops, Steps, GivenFrames, Fr
  <2>6. QED
    BY <2>3, <2>4, <2>5
<1>4. ASSUME RaiseOn PROVE Raises
  BY <1>4 DEF RaiseOn, Raises, Steps
<1>5. QED
  BY <1>1, <1>2, <1>3, <1>4 DEF BuildNext

\* The task that runs.
LEMMA RunIs ==
  ASSUME BuildType, EntriesOK, TaskRuns
  PROVE  /\ Me \in DOMAIN tasks /\ Me \in Nat /\ tasks[Me] \in Tasks /\ Live(Me)
         /\ ready # <<>> /\ Len(ready) \in Nat \ {0} /\ Now = ready[1] /\ Now \in Queue /\ Me = ready[1].task
         /\ Fr(Me) \in Seq(Frames) /\ Len(Fr(Me)) \in Nat \ {0} /\ Top = Fr(Me)[Len(Fr(Me))] /\ Top \in Frames
         /\ Front(Fr(Me)) \in Seq(Frames) /\ Len(Front(Fr(Me))) = Len(Fr(Me)) - 1
         /\ \A j \in 1 .. Len(Fr(Me)) - 1 : Front(Fr(Me))[j] = Fr(Me)[j]
         /\ Tail(ready) \in Seq(Queue) /\ Len(Tail(ready)) = Len(ready) - 1
         /\ \A i \in 1 .. Len(ready) - 1 : Tail(ready)[i] = ready[i + 1]
<1>1. ready \in Seq(Queue) /\ tasks \in Seq(Tasks) /\ ready # <<>> /\ Now.what = "run"
  BY DEF BuildType, TaskRuns
<1>2. Now = ready[1] /\ 1 \in DOMAIN ready /\ Len(ready) \in Nat \ {0} /\ Now \in Queue /\ Me = ready[1].task
  BY <1>1 DEF Now, Me
<1>3. Me \in DOMAIN tasks /\ Live(Me)
  BY <1>1, <1>2 DEF EntriesOK
<1>4. Me \in Nat /\ tasks[Me] \in Tasks
  BY <1>1, <1>3
<1>5. Fr(Me) \in Seq(Frames) /\ Fr(Me) # <<>>
  BY <1>3, <1>4 DEF Tasks, Fr, Live
<1>6. Top = Last(Fr(Me))
  BY DEF Top, Fr
<1> DEFINE fs == Fr(Me)
<1>7. /\ Len(fs) \in Nat \ {0} /\ Last(fs) = fs[Len(fs)] /\ fs[Len(fs)] \in Frames
      /\ Front(fs) \in Seq(Frames) /\ Len(Front(fs)) = Len(fs) - 1
      /\ \A j \in 1 .. Len(fs) - 1 : Front(fs)[j] = fs[j]
  <2>1. fs \in Seq(Frames) /\ fs # <<>>
    BY <1>5
  <2> HIDE DEF fs
  <2>2. QED
    BY <2>1, FrontIs
<1>8. /\ Tail(ready) \in Seq(Queue) /\ Len(Tail(ready)) = Len(ready) - 1
      /\ \A i \in 1 .. Len(ready) - 1 : Tail(ready)[i] = ready[i + 1]
  BY <1>1, <1>2
<1>9. QED
  BY <1>1, <1>2, <1>3, <1>4, <1>5, <1>6, <1>7, <1>8

LEMMA InnermostIs ==
  ASSUME BuildType
  PROVE  Innermost.agent \in Family /\ Innermost.path \in Sites
<1>1. tree.root \in Family /\ stack \in Seq(Stacked)
  BY TreeIs DEF BuildType
<1>2. CASE stack = <<>>
  BY <1>1, <1>2 DEF Innermost, Sites
<1>3. CASE stack # <<>>
  <2>1. Last(stack) \in Stacked
    BY <1>1, <1>3 DEF Last
  <2>2. QED
    BY <1>3, <2>1 DEF Innermost, Stacked
<1>4. QED
  BY <1>2, <1>3

\* Of the tasks only the frames of the one that runs change.
Reframed(fs) ==
  /\ fs \in Seq(Frames) /\ tasks' \in Seq(Tasks) /\ DOMAIN tasks' = DOMAIN tasks /\ Len(tasks') = Len(tasks)
  /\ \A t \in DOMAIN tasks : t # Me => tasks'[t] = tasks[t]
  /\ tasks'[Me] = [up |-> tasks[Me].up, left |-> tasks[Me].left, woken |-> tasks[Me].woken, frames |-> fs]

LEMMA ReframedIs ==
  ASSUME BuildType, NEW m \in DOMAIN tasks, m = Me, NEW fs \in Seq(Frames), tasks' = GivenFrames(tasks, m, fs)
  PROVE  Reframed(fs)
<1>1. tasks \in Seq(Tasks)
  BY DEF BuildType
<1>2. /\ tasks' \in Seq(Tasks) /\ Len(tasks') = Len(tasks) /\ \A t \in DOMAIN tasks : t # m => tasks'[t] = tasks[t]
      /\ tasks'[m] = [up |-> tasks[m].up, left |-> tasks[m].left, woken |-> tasks[m].woken, frames |-> fs]
  BY <1>1, TasksChange
<1>3. DOMAIN tasks' = DOMAIN tasks
  BY <1>1, <1>2
<1>4. QED
  BY <1>2, <1>3 DEF Reframed

\* A node is added: what is recorded of it.
Notes(c, site) ==
  /\ nodes' \in Seq(Noted) /\ Len(nodes') = Len(nodes) + 1 /\ nodes' # <<>>
  /\ \A k \in DOMAIN nodes : nodes'[k] = nodes[k]
  /\ nodes'[Len(nodes) + 1] = [path |-> Under(Innermost.path, Innermost.agent, c), agent |-> c, site |-> site]
  /\ Last(nodes').path = Under(Innermost.path, Innermost.agent, c)
  /\ Under(Innermost.path, Innermost.agent, c) \in Sites

LEMMA NotesIs ==
  ASSUME BuildType, NEW c \in Family, NEW site \in Sites, nodes' = Recorded(c, site)
  PROVE  Notes(c, site)
<1> DEFINE p == Under(Innermost.path, Innermost.agent, c)
           n == [path |-> p, agent |-> c, site |-> site]
<1>1. p \in Sites
  BY InnermostIs, UnderIs DEF BuildType, Sites
<1>2. n \in Noted
  <2> HIDE DEF p
  <2> QED  BY <1>1 DEF Noted
<1>3. nodes \in Seq(Noted) /\ nodes' = Append(nodes, n)
  BY DEF BuildType, Recorded
<1>4. n.path = p
  OBVIOUS
<1> HIDE DEF n
<1>5. nodes' \in Seq(Noted) /\ Len(nodes') = Len(nodes) + 1 /\ nodes' # <<>> /\ nodes'[Len(nodes) + 1] = n
      /\ \A k \in DOMAIN nodes : nodes'[k] = nodes[k]
  BY <1>2, <1>3
<1>6. Last(nodes') = n
  BY <1>3, <1>5 DEF Last
<1>7. QED
  BY <1>1, <1>4, <1>5, <1>6 DEF Notes, n

\* The kid that is called.
LEMMA KidIs ==
  ASSUME BuildType, EntriesOK, TaskRuns, Top.todo # <<>>
  PROVE  /\ Kid \in Family /\ Kid = Top.todo[1] /\ Kid \in ToSet(Top.todo) /\ KidSite \in Sites
         /\ Tail(Top.todo) \in Seq(Family) /\ ToSet(Top.todo) = {Kid} \cup ToSet(Tail(Top.todo))
<1>1. Top \in Frames
  BY RunIs
<1>2. Top.todo \in Seq(Family) /\ Top.site \in Sites /\ Top.agent \in Family
  BY <1>1 DEF Frames
<1>3. Kid \in Family /\ Kid = Top.todo[1] /\ Tail(Top.todo) \in Seq(Family) /\ ToSet(Top.todo) = {Kid} \cup ToSet(Tail(Top.todo))
  BY <1>2, ToSetHeadTail DEF Kid
<1>4. KidSite \in Sites
  BY <1>2, <1>3, UnderIs DEF KidSite, BuildType, Sites
<1>5. QED
  BY <1>3, <1>4

LEMMA AdvancedIs ==
  ASSUME BuildType, EntriesOK, TaskRuns
  PROVE  /\ Top.todo # <<>> => Advanced(Top) \in Frames
         /\ Advanced(Top).agent = Top.agent /\ Advanced(Top).site = Top.site /\ Advanced(Top).todo = Tail(Top.todo)
         /\ Advanced(Top).before = Top.before /\ Advanced(Top).spreads = Top.spreads
         /\ Spent(Top) \in Frames /\ Spent(Top).agent = Top.agent /\ Spent(Top).site = Top.site /\ Spent(Top).todo = <<>>
         /\ Spent(Top).before = Top.before /\ Spent(Top).spreads = Top.spreads
<1>1. Top \in Frames
  BY RunIs
<1>2. Top.todo # <<>> => Tail(Top.todo) \in Seq(Family)
  BY <1>1 DEF Frames
<1>3. Top.agent \in Family /\ Top.site \in Sites /\ Top.before \in Nat /\ Top.spreads \in BOOLEAN /\ <<>> \in Seq(Family)
  BY <1>1 DEF Frames
<1> DEFINE a == Advanced(Top) s == Spent(Top)
<1>4. a = [agent |-> Top.agent, site |-> Top.site, todo |-> Tail(Top.todo), before |-> Top.before, spreads |-> Top.spreads]
  BY <1>1, FramesChange
<1>5. s = [agent |-> Top.agent, site |-> Top.site, todo |-> <<>>, before |-> Top.before, spreads |-> Top.spreads]
  BY <1>1, FramesChange
<1> HIDE DEF a, s
<1>6. (Top.todo # <<>> => a \in Frames) /\ s \in Frames
  BY <1>2, <1>3, <1>4, <1>5 DEF Frames
<1>7. QED
  BY <1>4, <1>5, <1>6 DEF a, s

-----------------------------------------------------------------------------
(* The steps, seen from the tasks *)

\* A task goes on: from its last frame to what fs has in place of it.
Works(fs) ==
  /\ TaskRuns /\ ~Now.err /\ Reframed(fs) /\ Len(fs) >= Len(Fr(Me)) - 1 /\ fs # <<>>
  /\ \A j \in 1 .. Len(Fr(Me)) - 1 : fs[j] = Fr(Me)[j]
  /\ UNCHANGED <<tree, ready, outcome>>

LeafView(fs) ==
  /\ Works(fs) /\ ~Top.spreads /\ Top.todo # <<>> /\ Kid \notin tree.bad /\ IsLeaf(Kid)
  /\ Notes(Kid, KidSite) /\ UNCHANGED stack
  /\ Len(fs) = Len(Fr(Me)) /\ fs[Len(Fr(Me))] = Advanced(Top)
IntoView(fs) ==
  /\ Works(fs) /\ ~Top.spreads /\ Top.todo # <<>> /\ Kid \notin tree.bad /\ ~IsLeaf(Kid)
  /\ Notes(Kid, KidSite)
  /\ stack' = Append(stack, [agent |-> Kid, path |-> Under(Innermost.path, Innermost.agent, Kid)])
  /\ Len(fs) = Len(Fr(Me)) + 1 /\ fs[Len(Fr(Me))] = Advanced(Top)
  /\ fs[Len(Fr(Me)) + 1] = Frame(Kid, KidSite, Len(nodes) + 1)
PopView(fs) ==
  /\ Works(fs) /\ Top.todo = <<>> /\ ~Bypassed /\ Len(Fr(Me)) > 1
  /\ stack' = Front(stack) /\ UNCHANGED nodes
  /\ Len(fs) = Len(Fr(Me)) - 1

LEMMA LeafViewed ==
  ASSUME BuildType, EntriesOK, CallsLeaf
  PROVE  \E fs : LeafView(fs)
<1> DEFINE F == Front(Fr(Me)) a == Advanced(Top) fs == Append(F, a) n == Len(Fr(Me))
<1>1. TaskRuns /\ ~Now.err /\ ~Top.spreads /\ Top.todo # <<>> /\ Kid \notin tree.bad /\ IsLeaf(Kid)
      /\ UNCHANGED <<tree, ready, outcome, stack>> /\ nodes' = Recorded(Kid, KidSite) /\ tasks' = GivenFrames(tasks, Me, fs)
  BY DEF CallsLeaf, Steps
<1>2. Me \in DOMAIN tasks /\ F \in Seq(Frames) /\ Len(F) = n - 1 /\ n \in Nat \ {0} /\ \A j \in 1 .. n - 1 : F[j] = Fr(Me)[j]
  BY <1>1, RunIs
<1>3. a \in Frames
  BY <1>1, AdvancedIs
<1>4. Notes(Kid, KidSite)
  BY <1>1, KidIs, NotesIs
<1> HIDE DEF F, a
<1>5. fs \in Seq(Frames) /\ Len(fs) = n /\ fs[n] = a /\ fs # <<>> /\ \A j \in 1 .. n - 1 : fs[j] = F[j]
  BY <1>2, <1>3
<1> HIDE DEF fs
<1>6. Reframed(fs)
  BY <1>1, <1>2, <1>5, ReframedIs
<1> HIDE DEF n
<1>7. Len(fs) >= n - 1 /\ \A j \in 1 .. n - 1 : fs[j] = Fr(Me)[j]
  BY <1>2, <1>5
<1>8. LeafView(fs)
  BY <1>1, <1>4, <1>5, <1>6, <1>7 DEF LeafView, Works, n, a
<1>9. QED
  BY <1>8

LEMMA FrameIs ==
  ASSUME tree \in Trees, NEW a \in Family, NEW s \in Sites, NEW n \in Nat
  PROVE  /\ Frame(a, s, n) \in Frames /\ Frame(a, s, n).agent = a /\ Frame(a, s, n).site = s
         /\ Frame(a, s, n).todo = CallsOf(a) /\ Frame(a, s, n).before = n
         /\ Frame(a, s, n).spreads = (tree.kind[a] = "gather")
<1>1. CallsOf(a) \in Seq(Family)
  BY TreeIs
<1>2. QED
  BY <1>1 DEF Frame, Frames

LEMMA IntoViewed ==
  ASSUME BuildType, EntriesOK, CallsInto
  PROVE  \E fs : IntoView(fs)
<1> DEFINE F == Front(Fr(Me)) a == Advanced(Top) f == Frame(Kid, KidSite, Len(nodes) + 1)
           fs == F \o <<a, f>> n == Len(Fr(Me))
<1>1. TaskRuns /\ ~Now.err /\ ~Top.spreads /\ Top.todo # <<>> /\ Kid \notin tree.bad /\ ~IsLeaf(Kid)
      /\ UNCHANGED <<tree, ready, outcome>> /\ nodes' = Recorded(Kid, KidSite)
      /\ stack' = Append(stack, [agent |-> Kid, path |-> Last(nodes').path])
      /\ tasks' = GivenFrames(tasks, Me, F \o <<a, Frame(Kid, KidSite, Len(nodes'))>>)
  BY DEF CallsInto, Steps
<1>2. Me \in DOMAIN tasks /\ F \in Seq(Frames) /\ Len(F) = n - 1 /\ n \in Nat \ {0} /\ \A j \in 1 .. n - 1 : F[j] = Fr(Me)[j]
  BY <1>1, RunIs
<1>3. a \in Frames
  BY <1>1, AdvancedIs
<1>4. Notes(Kid, KidSite)
  BY <1>1, KidIs, NotesIs
<1>5. Len(nodes') = Len(nodes) + 1 /\ Last(nodes').path = Under(Innermost.path, Innermost.agent, Kid) /\ Len(nodes) + 1 \in Nat
  BY <1>4 DEF Notes, BuildType
<1>6. f \in Frames
  BY <1>1, <1>5, KidIs, FrameIs DEF BuildType
<1>7. tasks' = GivenFrames(tasks, Me, fs) /\ stack' = Append(stack, [agent |-> Kid, path |-> Under(Innermost.path, Innermost.agent, Kid)])
  BY <1>1, <1>5
<1> HIDE DEF F, a, f
<1>8. fs \in Seq(Frames) /\ Len(fs) = n + 1 /\ fs[n] = a /\ fs[n + 1] = f /\ fs # <<>> /\ \A j \in 1 .. n - 1 : fs[j] = F[j]
  BY <1>2, <1>3, <1>6
<1> HIDE DEF fs
<1>9. Reframed(fs)
  BY <1>2, <1>7, <1>8, ReframedIs
<1> HIDE DEF n
<1>10. Len(fs) >= n - 1 /\ \A j \in 1 .. n - 1 : fs[j] = Fr(Me)[j]
  BY <1>2, <1>8
<1>11. IntoView(fs)
  BY <1>1, <1>4, <1>7, <1>8, <1>9, <1>10 DEF IntoView, Works, n, a, f
<1>12. QED
  BY <1>11

LEMMA PopViewed ==
  ASSUME BuildType, EntriesOK, Pops
  PROVE  \E fs : PopView(fs)
<1> DEFINE fs == Front(Fr(Me)) n == Len(Fr(Me))
<1>1. TaskRuns /\ ~Now.err /\ Top.todo = <<>> /\ ~Bypassed /\ n # 1
      /\ UNCHANGED <<tree, ready, outcome, nodes>> /\ stack' = Front(stack) /\ tasks' = GivenFrames(tasks, Me, fs)
  BY DEF Pops, Steps
<1>2. Me \in DOMAIN tasks /\ fs \in Seq(Frames) /\ Len(fs) = n - 1 /\ n \in Nat \ {0} /\ \A j \in 1 .. n - 1 : fs[j] = Fr(Me)[j]
  BY <1>1, RunIs
<1> HIDE DEF fs
<1>3. Reframed(fs)
  BY <1>1, <1>2, ReframedIs
<1> HIDE DEF n
<1>4. n > 1 /\ fs # <<>> /\ Len(fs) >= n - 1
  BY <1>1, <1>2
<1>5. PopView(fs)
  BY <1>1, <1>2, <1>3, <1>4 DEF PopView, Works, n
<1>6. QED
  BY <1>5

\* A task is over.
Ends(err) ==
  /\ TaskRuns /\ Reframed(<<>>) /\ UNCHANGED <<tree, nodes>>
  /\ stack' = SubSeq(stack, 1, Len(stack) - (Len(Fr(Me)) - 1))
  /\ Me = 1 => outcome' = (IF err THEN "failed" ELSE "traced") /\ ready' = Tail(ready)
  /\ Me # 1 => outcome' = outcome /\ ready' = Append(Tail(ready), Entry("done", Me, err))

LEMMA EndsIs ==
  ASSUME BuildType, EntriesOK, NEW err \in BOOLEAN, TaskRuns, Over(err), UNCHANGED <<tree, nodes>>
  PROVE  Ends(err)
<1>1. Me \in DOMAIN tasks
  BY RunIs
<1> DEFINE fs == <<>>
<1>2. fs \in Seq(Frames)
  OBVIOUS
<1>3. tasks' = GivenFrames(tasks, Me, fs)
  BY DEF Over, GivenFrames
<1> HIDE DEF fs
<1>4. Reframed(fs)
  BY <1>1, <1>2, <1>3, ReframedIs
<1>5. Reframed(<<>>)
  BY <1>4 DEF fs
<1>6. QED
  BY <1>5 DEF Over, Ends, Fr

\* A task gathers: it sleeps, and a task is made for each call.
GatherView ==
  /\ TaskRuns /\ ~Now.err /\ Top.spreads /\ Top.todo # <<>> /\ UNCHANGED <<tree, stack, nodes, outcome>>
  /\ tasks' \in Seq(Tasks) /\ Len(tasks') = Len(tasks) + Len(Top.todo)
  /\ DOMAIN tasks' = 1 .. Len(tasks) + Len(Top.todo) /\ DOMAIN tasks = 1 .. Len(tasks) /\ DOMAIN ready = 1 .. Len(ready)
  /\ Len(tasks) \in Nat /\ Len(Top.todo) \in Nat \ {0} /\ Len(ready) \in Nat \ {0}
  /\ \A t \in DOMAIN tasks : t # Me => tasks'[t] = tasks[t]
  /\ tasks'[Me].up = tasks[Me].up /\ tasks'[Me].left = Len(Top.todo) /\ tasks'[Me].woken = FALSE
  /\ Len(tasks'[Me].frames) = Len(Fr(Me)) /\ tasks'[Me].frames[Len(Fr(Me))] = Spent(Top)
  /\ \A j \in 1 .. Len(Fr(Me)) - 1 : tasks'[Me].frames[j] = Fr(Me)[j]
  /\ \A i \in 1 .. Len(Top.todo) :
       tasks'[Len(tasks) + i] = [up |-> Me, left |-> 0, woken |-> FALSE,
         frames |-> <<[agent |-> Top.agent, site |-> Top.site, todo |-> <<Top.todo[i]>>, before |-> Top.before, spreads |-> FALSE]>>]
  /\ ready' \in Seq(Queue) /\ DOMAIN ready' = 1 .. Len(ready) - 1 + Len(Top.todo)
  /\ \A i \in 1 .. Len(ready) - 1 : ready'[i] = ready[i + 1]
  /\ \A i \in 1 .. Len(Top.todo) : ready'[Len(ready) - 1 + i] = Entry("run", Len(tasks) + i, FALSE)

LEMMA GatherViewed ==
  ASSUME BuildType, EntriesOK, Gathers
  PROVE  GatherView
<1> DEFINE F == Front(Fr(Me)) a == Spent(Top) fs == Append(F, a) m == Len(Fr(Me)) n == Len(Top.todo)
           s == GivenFrames(tasks, Me, fs) u == GivenCount(s, Me, n)
           new == [i \in 1 .. n |-> [up |-> Me, left |-> 0, woken |-> FALSE, frames |-> <<Handed(Top, i)>>]]
           q == [i \in 1 .. n |-> Entry("run", Len(tasks) + i, FALSE)]
<1>1. /\ TaskRuns /\ ~Now.err /\ Top.spreads /\ Top.todo # <<>> /\ UNCHANGED <<tree, stack, nodes, outcome>>
      /\ tasks' = u \o new /\ ready' = Tail(ready) \o q
  BY DEF Gathers, Steps
<1>2. /\ Me \in DOMAIN tasks /\ Me \in Nat /\ F \in Seq(Frames) /\ Len(F) = m - 1 /\ m \in Nat \ {0}
      /\ \A j \in 1 .. m - 1 : F[j] = Fr(Me)[j]
      /\ Top \in Frames /\ tasks \in Seq(Tasks) /\ Len(tasks) \in Nat
      /\ Len(ready) \in Nat \ {0} /\ Tail(ready) \in Seq(Queue) /\ Len(Tail(ready)) = Len(ready) - 1
      /\ \A i \in 1 .. Len(ready) - 1 : Tail(ready)[i] = ready[i + 1]
  BY <1>1, RunIs DEF BuildType
<1>3. a \in Frames
  BY <1>1, AdvancedIs
<1>4. Top.todo \in Seq(Family) /\ n \in Nat \ {0} /\ \A i \in 1 .. n : Top.todo[i] \in Family
  BY <1>1, <1>2 DEF Frames
<1>5. fs \in Seq(Frames) /\ Len(fs) = m /\ fs[m] = a /\ \A j \in 1 .. m - 1 : fs[j] = Fr(Me)[j]
  <2> HIDE DEF F, a, m
  <2>1. QED
    BY <1>2, <1>3
<1>6. /\ s \in Seq(Tasks) /\ Len(s) = Len(tasks) /\ \A t \in DOMAIN tasks : t # Me => s[t] = tasks[t]
      /\ s[Me].up = tasks[Me].up /\ s[Me].frames = fs
  <2> HIDE DEF fs
  <2>1. /\ s \in Seq(Tasks) /\ Len(s) = Len(tasks) /\ \A t \in DOMAIN tasks : t # Me => s[t] = tasks[t]
        /\ s[Me] = [up |-> tasks[Me].up, left |-> tasks[Me].left, woken |-> tasks[Me].woken, frames |-> fs]
    BY <1>2, <1>5, TasksChange
  <2> HIDE DEF s
  <2>2. QED
    BY <2>1
<1>7. DOMAIN s = DOMAIN tasks /\ DOMAIN tasks = 1 .. Len(tasks)
  <2> HIDE DEF s
  <2> QED  BY <1>2, <1>6
<1>8. /\ u \in Seq(Tasks) /\ Len(u) = Len(tasks) /\ \A t \in DOMAIN tasks : t # Me => u[t] = tasks[t]
      /\ u[Me].up = tasks[Me].up /\ u[Me].left = n /\ u[Me].woken = FALSE /\ u[Me].frames = fs
  <2>3. u = GivenCount(s, Me, n) /\ n \in Nat /\ Me \in DOMAIN s /\ s \in Seq(Tasks)
    BY <1>2, <1>4, <1>6, <1>7
  <2> HIDE DEF s, n, u
  <2>1. /\ u \in Seq(Tasks) /\ Len(u) = Len(s) /\ \A t \in DOMAIN s : t # Me => u[t] = s[t]
        /\ u[Me] = [up |-> s[Me].up, left |-> n, woken |-> FALSE, frames |-> s[Me].frames]
    BY <2>3, TasksChange
  <2>2. QED
    BY <1>6, <1>7, <2>1
<1>9. /\ new \in Seq(Tasks) /\ Len(new) = n
      /\ \A i \in 1 .. n : new[i] = [up |-> Me, left |-> 0, woken |-> FALSE,
           frames |-> <<[agent |-> Top.agent, site |-> Top.site, todo |-> <<Top.todo[i]>>, before |-> Top.before, spreads |-> FALSE]>>]
  <2> DEFINE h(i) == [agent |-> Top.agent, site |-> Top.site, todo |-> <<Top.todo[i]>>, before |-> Top.before, spreads |-> FALSE]
  <2>1. \A i : Handed(Top, i) = h(i)
    BY <1>2, FramesChange
  <2>2. \A i \in 1 .. n : h(i) \in Frames
    BY <1>2, <1>4 DEF Frames
  <2> HIDE DEF h
  <2>3. new = [i \in 1 .. n |-> [up |-> Me, left |-> 0, woken |-> FALSE, frames |-> <<h(i)>>]]
    BY <2>1
  <2>4. \A i \in 1 .. n : [up |-> Me, left |-> 0, woken |-> FALSE, frames |-> <<h(i)>>] \in Tasks
    BY <1>2, <2>2 DEF Tasks
  <2> HIDE DEF new, n
  <2>5. new \in Seq(Tasks) /\ Len(new) = n /\ \A i \in 1 .. n : new[i] = [up |-> Me, left |-> 0, woken |-> FALSE, frames |-> <<h(i)>>]
    BY <1>4, <2>3, <2>4
  <2>6. QED
    BY <2>5 DEF h
<1>10. q \in Seq(Queue) /\ Len(q) = n /\ \A i \in 1 .. n : q[i] = Entry("run", Len(tasks) + i, FALSE)
  <2>1. \A i \in 1 .. n : Entry("run", Len(tasks) + i, FALSE) \in Queue
    BY <1>2, <1>4 DEF Entry, Queue
  <2>3. n \in Nat /\ q = [i \in 1 .. n |-> Entry("run", Len(tasks) + i, FALSE)]
    BY <1>4
  <2> DEFINE e(i) == Entry("run", Len(tasks) + i, FALSE)
  <2>4. \A i \in 1 .. n : e(i) \in Queue
    BY <2>1
  <2>5. q = [i \in 1 .. n |-> e(i)]
    BY <2>3
  <2> HIDE DEF n, q, e
  <2>7. n \in Nat
    BY <2>3
  <2>8. q \in [1 .. n -> Queue]
    BY <2>4, <2>5
  <2>6. q \in Seq(Queue) /\ Len(q) = n /\ \A i \in 1 .. n : q[i] = e(i)
    BY <2>5, <2>7, <2>8
  <2>2. QED
    BY <2>6 DEF e
<1> DEFINE T == tasks' R == ready'
<1>11. /\ T \in Seq(Tasks) /\ Len(T) = Len(tasks) + n /\ \A t \in 1 .. Len(tasks) : T[t] = u[t]
       /\ \A i \in 1 .. n : T[Len(tasks) + i] = new[i]
  <2>1. T = u \o new
    BY <1>1
  <2> HIDE DEF u, new, T, n
  <2>5. u \in Seq(Tasks) /\ new \in Seq(Tasks)
    BY <1>8, <1>9
  <2>6. /\ u \o new \in Seq(Tasks) /\ Len(u \o new) = Len(u) + Len(new)
        /\ \A i \in 1 .. Len(u) : (u \o new)[i] = u[i]
        /\ \A i \in 1 .. Len(new) : (u \o new)[Len(u) + i] = new[i]
    BY <2>5, JoinIs
  <2>2. /\ T \in Seq(Tasks) /\ Len(T) = Len(u) + Len(new)
        /\ \A i \in 1 .. Len(u) : T[i] = u[i]
        /\ \A i \in 1 .. Len(new) : T[Len(u) + i] = new[i]
    BY <2>1, <2>6
  <2>3. Len(u) = Len(tasks) /\ Len(new) = n
    BY <1>8, <1>9
  <2>4. QED
    BY <2>2, <2>3
<1>12. /\ R \in Seq(Queue) /\ Len(R) = Len(ready) - 1 + n /\ \A i \in 1 .. Len(ready) - 1 : R[i] = ready[i + 1]
       /\ \A i \in 1 .. n : R[Len(ready) - 1 + i] = q[i]
  <2>1. R = Tail(ready) \o q
    BY <1>1
  <2> DEFINE r == Tail(ready)
  <2>2. r \in Seq(Queue) /\ Len(r) = Len(ready) - 1 /\ Len(q) = n /\ \A i \in 1 .. Len(ready) - 1 : r[i] = ready[i + 1]
    BY <1>2, <1>10
  <2>3. R = r \o q
    BY <2>1
  <2> HIDE DEF R, q, n, r
  <2>6. r \in Seq(Queue) /\ q \in Seq(Queue)
    BY <1>10, <2>2
  <2>7. /\ r \o q \in Seq(Queue) /\ Len(r \o q) = Len(r) + Len(q)
        /\ \A i \in 1 .. Len(r) : (r \o q)[i] = r[i]
        /\ \A i \in 1 .. Len(q) : (r \o q)[Len(r) + i] = q[i]
    BY <2>6, JoinIs
  <2>4. /\ R \in Seq(Queue) /\ Len(R) = Len(r) + Len(q)
        /\ \A i \in 1 .. Len(r) : R[i] = r[i]
        /\ \A i \in 1 .. Len(q) : R[Len(r) + i] = q[i]
    BY <2>3, <2>7
  <2>5. QED
    BY <2>2, <2>4
<1> HIDE DEF u, s, fs, new, q
<1>13. DOMAIN T = 1 .. Len(tasks) + n /\ DOMAIN tasks = 1 .. Len(tasks) /\ DOMAIN R = 1 .. Len(ready) - 1 + n /\ DOMAIN ready = 1 .. Len(ready)
  <2> HIDE DEF T, R
  <2> QED  BY <1>2, <1>11, <1>12 DEF BuildType
<1>14. /\ \A t \in DOMAIN tasks : t # Me => T[t] = tasks[t]
       /\ T[Me].up = tasks[Me].up /\ T[Me].left = n /\ T[Me].woken = FALSE /\ T[Me].frames = fs
  <2> HIDE DEF T
  <2> QED  BY <1>2, <1>7, <1>8, <1>11
<1>15. T[Me].up = tasks[Me].up /\ T[Me].left = n /\ T[Me].woken = FALSE /\ Len(T[Me].frames) = m
       /\ T[Me].frames[m] = a /\ \A j \in 1 .. m - 1 : T[Me].frames[j] = Fr(Me)[j]
  <2> HIDE DEF T, m, a
  <2> QED  BY <1>5, <1>14
<1>16. \A i \in 1 .. n : T[Len(tasks) + i] = [up |-> Me, left |-> 0, woken |-> FALSE,
         frames |-> <<[agent |-> Top.agent, site |-> Top.site, todo |-> <<Top.todo[i]>>, before |-> Top.before, spreads |-> FALSE]>>]
  <2> HIDE DEF T, n
  <2> QED  BY <1>9, <1>11
<1>17. \A i \in 1 .. n : R[Len(ready) - 1 + i] = Entry("run", Len(tasks) + i, FALSE)
  <2> HIDE DEF R, n
  <2> QED  BY <1>10, <1>12
<1>18. T \in Seq(Tasks) /\ Len(T) = Len(tasks) + n /\ \A t \in DOMAIN tasks : t # Me => T[t] = tasks[t]
  BY <1>11, <1>14
<1>19. R \in Seq(Queue) /\ \A i \in 1 .. Len(ready) - 1 : R[i] = ready[i + 1]
  BY <1>12
<1>20. QED
  BY <1>1, <1>2, <1>4, <1>13, <1>15, <1>16, <1>17, <1>18, <1>19, Zenon DEF GatherView

\* An agent that gathers hears of one of its tasks.
Wakes == ~tasks[tasks[Me].up].woken /\ (Now.err \/ tasks[tasks[Me].up].left - 1 = 0)
HeardView(u) ==
  /\ ready # <<>> /\ Now.what = "done" /\ Me \in DOMAIN tasks /\ Me # 1 /\ u = tasks[Me].up /\ u \in DOMAIN tasks
  /\ UNCHANGED <<tree, stack, nodes, outcome>>
  /\ tasks' \in Seq(Tasks) /\ Len(tasks') = Len(tasks) /\ DOMAIN tasks' = DOMAIN tasks
  /\ \A t \in DOMAIN tasks : t # u => tasks'[t] = tasks[t]
  /\ tasks'[u] = [up |-> tasks[u].up, left |-> tasks[u].left - 1, woken |-> tasks[u].woken \/ Wakes, frames |-> tasks[u].frames]
  /\ ready' = IF Wakes THEN Append(Tail(ready), Entry("run", u, Now.err)) ELSE Tail(ready)

\* What the queue and the tasks are made of.
LEMMA NowIs ==
  ASSUME BuildType, EntriesOK, ready # <<>>
  PROVE  /\ Now = ready[1] /\ Now \in Queue /\ Me = ready[1].task /\ Me \in DOMAIN tasks /\ Len(ready) \in Nat \ {0}
         /\ DOMAIN ready = 1 .. Len(ready) /\ DOMAIN tasks = 1 .. Len(tasks) /\ Len(tasks) \in Nat
         /\ Tail(ready) \in Seq(Queue) /\ Len(Tail(ready)) = Len(ready) - 1 /\ DOMAIN Tail(ready) = 1 .. Len(ready) - 1
         /\ \A i \in 1 .. Len(ready) - 1 : Tail(ready)[i] = ready[i + 1]
         /\ \A e \in Queue : \A r : r = Append(Tail(ready), e) =>
              /\ r \in Seq(Queue) /\ DOMAIN r = 1 .. Len(ready) /\ Len(r) = Len(ready) /\ r[Len(ready)] = e
              /\ \A i \in 1 .. Len(ready) - 1 : r[i] = ready[i + 1]
<1>1. ready \in Seq(Queue) /\ ready # <<>> /\ tasks \in Seq(Tasks)
  BY DEF BuildType
<1>2. Now = ready[1] /\ 1 \in DOMAIN ready /\ Len(ready) \in Nat \ {0} /\ Now \in Queue /\ Me = ready[1].task
  BY <1>1 DEF Now, Me
<1>3. Me \in DOMAIN tasks
  BY <1>2 DEF EntriesOK
<1> DEFINE T == Tail(ready)
<1>4. T \in Seq(Queue) /\ Len(T) = Len(ready) - 1 /\ DOMAIN T = 1 .. Len(ready) - 1 /\ \A i \in 1 .. Len(ready) - 1 : T[i] = ready[i + 1]
  BY <1>1, <1>2
<1> HIDE DEF T
<1>5. ASSUME NEW e \in Queue, NEW r, r = Append(T, e)
      PROVE  /\ r \in Seq(Queue) /\ DOMAIN r = 1 .. Len(ready) /\ Len(r) = Len(ready) /\ r[Len(ready)] = e
             /\ \A i \in 1 .. Len(ready) - 1 : r[i] = ready[i + 1]
  <2>1. r \in Seq(Queue) /\ Len(r) = Len(ready) /\ r[Len(ready)] = e /\ \A i \in 1 .. Len(ready) - 1 : r[i] = T[i]
    BY <1>2, <1>4, <1>5
  <2>2. QED
    BY <1>4, <2>1
<1>6. DOMAIN ready = 1 .. Len(ready) /\ DOMAIN tasks = 1 .. Len(tasks) /\ Len(tasks) \in Nat
  BY <1>1
<1>7. QED
  BY <1>2, <1>3, <1>4, <1>5, <1>6 DEF T

LEMMA HeardViewed ==
  ASSUME BuildType, EntriesOK, GathersOK, CallBack
  PROVE  \E u : HeardView(u)
<1> DEFINE u == tasks[Me].up
           v == [tasks[u] EXCEPT !.left = @ - 1]
           w == ~v.woken /\ (Now.err \/ v.left = 0)
           x == [v EXCEPT !.woken = @ \/ w]
<1>1. /\ ready # <<>> /\ Now.what = "done" /\ UNCHANGED <<tree, stack, nodes, outcome>>
      /\ tasks' = [tasks EXCEPT ![u] = x]
      /\ ready' = IF w THEN Append(Tail(ready), Entry("run", u, Now.err)) ELSE Tail(ready)
  BY DEF CallBack
<1>2. Me \in DOMAIN tasks /\ Me # 1 /\ u \in DOMAIN tasks /\ tasks \in Seq(Tasks)
  <2>1. Me \in DOMAIN tasks /\ Now = ready[1] /\ 1 \in DOMAIN ready /\ Me = ready[1].task
    BY <1>1, NowIs
  <2>2. ready[1].task = 1 => ready[1].what = "run"
    BY <2>1 DEF EntriesOK
  <2>3. u \in DOMAIN tasks
    BY <2>1 DEF GathersOK
  <2>4. QED
    BY <1>1, <2>1, <2>2, <2>3 DEF BuildType
<1>3. tasks[u] \in Tasks
  BY <1>2
<1>4. v = [up |-> tasks[u].up, left |-> tasks[u].left - 1, woken |-> tasks[u].woken, frames |-> tasks[u].frames]
  BY <1>3 DEF Tasks
<1>5. w = Wakes
  BY <1>4 DEF Wakes
<1>6. x = [up |-> tasks[u].up, left |-> tasks[u].left - 1, woken |-> tasks[u].woken \/ Wakes, frames |-> tasks[u].frames]
  <2> HIDE DEF v, w
  <2>1. v = [up |-> v.up, left |-> v.left, woken |-> v.woken, frames |-> v.frames]
    BY <1>4
  <2>2. x = [up |-> v.up, left |-> v.left, woken |-> v.woken \/ w, frames |-> v.frames]
    BY <2>1
  <2>3. QED
    BY <1>4, <1>5, <2>2
<1>7. x \in Tasks
  <2>1. /\ tasks[u].up \in Nat /\ tasks[u].left - 1 \in Int /\ tasks[u].frames \in Seq(Frames)
        /\ (tasks[u].woken \/ Wakes) \in BOOLEAN
    BY <1>3 DEF Tasks
  <2> HIDE DEF x
  <2>2. QED
    BY <1>6, <2>1 DEF Tasks
<1> DEFINE y == u
<1> HIDE DEF x, w, y
<1>8. y = u /\ tasks' = [tasks EXCEPT ![y] = x]
  BY <1>1 DEF y
<1>9. /\ tasks' \in Seq(Tasks) /\ Len(tasks') = Len(tasks) /\ DOMAIN tasks' = DOMAIN tasks
      /\ \A t \in DOMAIN tasks : t # y => tasks'[t] = tasks[t]
      /\ tasks'[y] = x
  BY <1>2, <1>7, <1>8
<1>10. ready' = IF Wakes THEN Append(Tail(ready), Entry("run", y, Now.err)) ELSE Tail(ready)
  BY <1>1, <1>5, <1>8
<1>11. HeardView(y)
  BY <1>1, <1>2, <1>6, <1>8, <1>9, <1>10 DEF HeardView
<1>12. QED
  BY <1>11

-----------------------------------------------------------------------------
(* Whom the event loop has yet to run, and whom a task waits for *)

Loops == BuildType /\ EntriesOK /\ GathersOK

\* A task that goes on.
LEMMA WorksLoop ==
  ASSUME Loops, NEW fs, Works(fs)
  PROVE  /\ \A t \in DOMAIN tasks : Live(t)' <=> Live(t)
         /\ \A t \in DOMAIN tasks : Queued(t)' <=> Queued(t)
         /\ \A t \in DOMAIN tasks : Owed(t)' = Owed(t)
         /\ EntriesOK' /\ GathersOK'
<1>1. Me \in DOMAIN tasks /\ Live(Me)
  BY RunIs DEF Loops, Works
<1>2. DOMAIN tasks' = DOMAIN tasks /\ ready' = ready /\ outcome' = outcome
  BY DEF Works, Reframed
<1>3. \A t \in DOMAIN tasks : tasks'[t].up = tasks[t].up /\ tasks'[t].left = tasks[t].left /\ tasks'[t].woken = tasks[t].woken
  BY DEF Works, Reframed
<1>4. \A t \in DOMAIN tasks : Live(t)' <=> Live(t)
  <2>1. tasks'[Me].frames # <<>>
    BY DEF Works, Reframed
  <2>2. \A t \in DOMAIN tasks : t # Me => tasks'[t] = tasks[t]
    BY DEF Works, Reframed
  <2>3. QED
    BY <1>1, <2>1, <2>2 DEF Live, Fr
<1>5. \A t : Queued(t)' <=> Queued(t)
  BY <1>2 DEF Queued
<1>6. \A u \in DOMAIN tasks : Owed(u)' = Owed(u)
  BY <1>2, <1>3, <1>4, <1>5 DEF Owed
<1>7. \A u \in DOMAIN tasks : Suspended(u)' <=> Suspended(u)
  BY <1>4, <1>5 DEF Suspended
<1>8. EntriesOK'
  BY <1>2, <1>4, <1>6 DEF Loops, EntriesOK
<1>9. GathersOK'
  BY <1>2, <1>3, <1>4, <1>6, <1>7 DEF Loops, GathersOK
<1>10. QED
  BY <1>4, <1>5, <1>6, <1>8, <1>9

\* A task that is over.
LEMMA EndsLoop ==
  ASSUME Loops, NEW err \in BOOLEAN, Ends(err), NEW m, m = Me
  PROVE  /\ DOMAIN tasks' = DOMAIN tasks /\ ~Live(m)' /\ \A t \in DOMAIN tasks : t # m => (Live(t)' <=> Live(t))
         /\ \A t \in DOMAIN tasks : Queued(t)' <=> (IF t = m THEN m # 1 ELSE Queued(t))
         /\ \A t \in DOMAIN tasks : Suspended(t)' <=> Suspended(t)
         /\ \A t \in DOMAIN tasks : Owed(t)' = Owed(t)
         /\ EntriesOK' /\ GathersOK'
<1>1. TaskRuns /\ ready # <<>> /\ Now.what = "run" /\ BuildType /\ EntriesOK /\ GathersOK
  BY DEF Ends, Loops, TaskRuns
<1>2. /\ m \in DOMAIN tasks /\ Live(m) /\ m = ready[1].task /\ Now = ready[1] /\ Len(ready) \in Nat \ {0} /\ DOMAIN ready = 1 .. Len(ready)
      /\ DOMAIN Tail(ready) = 1 .. Len(ready) - 1 /\ \A i \in 1 .. Len(ready) - 1 : Tail(ready)[i] = ready[i + 1]
  BY <1>1, RunIs, NowIs
<1>3. DOMAIN tasks' = DOMAIN tasks
      /\ \A t \in DOMAIN tasks : tasks'[t].up = tasks[t].up /\ tasks'[t].left = tasks[t].left /\ tasks'[t].woken = tasks[t].woken
  BY DEF Ends, Reframed
<1>4. ~Live(m)' /\ \A t \in DOMAIN tasks : t # m => (Live(t)' <=> Live(t))
  <2>1. tasks'[m].frames = <<>> /\ \A t \in DOMAIN tasks : t # m => tasks'[t] = tasks[t]
    BY DEF Ends, Reframed
  <2>2. QED
    BY <2>1 DEF Live, Fr
<1> DEFINE e == Entry("done", m, err)
<1>5. /\ m = 1 => DOMAIN ready' = 1 .. Len(ready) - 1
      /\ m # 1 => DOMAIN ready' = 1 .. Len(ready) /\ ready'[Len(ready)] = e
      /\ \A i \in 1 .. Len(ready) - 1 : ready'[i] = ready[i + 1]
  <2>1. CASE m = 1
    <3>1. ready' = Tail(ready)
      BY <2>1 DEF Ends
    <3>2. QED
      BY <1>2, <2>1, <3>1
  <2>2. CASE m # 1
    <3>1. ready' = Append(Tail(ready), e)
      BY <2>2 DEF Ends
    <3>2. e \in Queue
      <4>1. tasks \in Seq(Tasks)
        BY <1>1 DEF BuildType
      <4>2. m \in Nat
        BY <1>2, <4>1
      <4>3. QED
        BY <4>2 DEF Entry, Queue
    <3> DEFINE r == ready'
    <3>3. r = Append(Tail(ready), e)
      BY <3>1
    <3> HIDE DEF e, r
    <3>4. DOMAIN r = 1 .. Len(ready) /\ r[Len(ready)] = e /\ \A i \in 1 .. Len(ready) - 1 : r[i] = ready[i + 1]
      BY <1>1, <3>2, <3>3, NowIs
    <3>5. QED
      BY <2>2, <3>4 DEF r
  <2>3. QED
    BY <2>1, <2>2
<1>6. e.what = "done" /\ e.task = m /\ e.err = err
  BY DEF Entry
<1> HIDE DEF e
<1>7. /\ \A i \in DOMAIN ready' : (i \in 1 .. Len(ready) - 1 /\ i + 1 \in DOMAIN ready /\ i + 1 # 1 /\ ready'[i] = ready[i + 1])
                                  \/ (i = Len(ready) /\ m # 1 /\ ready'[i] = e)
      /\ 1 .. Len(ready) - 1 \subseteq DOMAIN ready' /\ (m # 1 => Len(ready) \in DOMAIN ready')
  <2> DEFINE r == ready'
  <2>1. /\ m = 1 => DOMAIN r = 1 .. Len(ready) - 1
        /\ m # 1 => DOMAIN r = 1 .. Len(ready) /\ r[Len(ready)] = e
        /\ \A i \in 1 .. Len(ready) - 1 : r[i] = ready[i + 1]
    BY <1>5
  <2> HIDE DEF r
  <2>2. /\ \A i \in DOMAIN r : (i \in 1 .. Len(ready) - 1 /\ i + 1 \in DOMAIN ready /\ i + 1 # 1 /\ r[i] = ready[i + 1])
                                 \/ (i = Len(ready) /\ m # 1 /\ r[i] = e)
        /\ 1 .. Len(ready) - 1 \subseteq DOMAIN r /\ (m # 1 => Len(ready) \in DOMAIN r)
    BY <1>2, <2>1
  <2>3. QED
    BY <2>2 DEF r
<1>8. \A i \in DOMAIN ready : i # 1 => i - 1 \in 1 .. Len(ready) - 1 /\ i - 1 + 1 = i
  BY <1>2
<1>9. \A i \in DOMAIN ready : i # 1 => ready[i].task # m
  BY <1>1, <1>2 DEF EntriesOK
<1>10. \A t : Queued(t)' <=> (IF t = m THEN m # 1 ELSE Queued(t))
  <2>1. ASSUME NEW t, t # m PROVE Queued(t)' <=> Queued(t)
    <3>1. ASSUME NEW i \in DOMAIN ready', ready'[i].task = t PROVE Queued(t)
      BY <1>6, <1>7, <2>1, <3>1 DEF Queued
    <3>2. ASSUME NEW i \in DOMAIN ready, ready[i].task = t PROVE \E j \in DOMAIN ready' : ready'[j].task = t
      <4>1. i # 1
        BY <1>2, <2>1, <3>2
      <4>2. i - 1 \in DOMAIN ready' /\ ready'[i - 1] = ready[i]
        BY <1>5, <1>7, <1>8, <4>1
      <4>3. QED
        BY <3>2, <4>2
    <3>3. QED
      BY <3>1, <3>2 DEF Queued
  <2>2. Queued(m)' <=> m # 1
    <3>1. ASSUME NEW i \in DOMAIN ready', ready'[i].task = m PROVE m # 1
      <4>1. (ready'[i] = ready[i + 1] /\ i + 1 \in DOMAIN ready /\ i + 1 # 1) \/ m # 1
        BY <1>7
      <4>2. QED
        BY <1>9, <3>1, <4>1
    <3>2. m # 1 => \E j \in DOMAIN ready' : ready'[j].task = m
      BY <1>5, <1>6, <1>7
    <3>3. QED
      BY <3>1, <3>2 DEF Queued
  <2>3. QED
    BY <2>1, <2>2
<1>11. Queued(m) /\ m \in DOMAIN tasks
  BY <1>2 DEF Queued
<1>12. \A t \in DOMAIN tasks : Suspended(t)' <=> Suspended(t)
  BY <1>4, <1>10, <1>11 DEF Suspended
<1>13. \A u \in DOMAIN tasks : Owed(u)' = Owed(u)
  <2>1. \A t \in DOMAIN tasks : t # 1 => ((Live(t)' \/ Queued(t)') <=> (Live(t) \/ Queued(t)))
    BY <1>2, <1>4, <1>10, <1>11
  <2>2. QED
    BY <1>3, <2>1 DEF Owed
<1>14. EntriesOK'
  <2>1. ASSUME NEW i \in DOMAIN ready', NEW c, ready'[i].task = c
        PROVE  /\ c \in DOMAIN tasks'
               /\ ready'[i].what = "run" <=> Live(c)'
               /\ c = 1 => ready'[i].what = "run"
               /\ ready'[i].what = "run" /\ ~ready'[i].err => Owed(c)' = {}
    <3>1. CASE i + 1 \in DOMAIN ready /\ i + 1 # 1 /\ ready'[i] = ready[i + 1]
      <4> DEFINE f == ready[i + 1]
      <4>1. /\ c \in DOMAIN tasks /\ (f.what = "run" <=> Live(c)) /\ (c = 1 => f.what = "run")
            /\ (f.what = "run" /\ ~f.err => Owed(c) = {}) /\ c # m
        BY <1>1, <1>9, <2>1, <3>1 DEF EntriesOK
      <4>2. ready'[i] = f
        BY <3>1
      <4> HIDE DEF f
      <4>3. (Live(c)' <=> Live(c)) /\ Owed(c)' = Owed(c)
        BY <1>4, <1>13, <4>1
      <4>4. QED
        BY <1>3, <4>1, <4>2, <4>3
    <3>2. CASE m # 1 /\ ready'[i] = e
      <4>1. c = m /\ ready'[i].what = "done"
        BY <1>6, <2>1, <3>2
      <4>2. QED
        BY <1>2, <1>3, <1>4, <3>2, <4>1
    <3>3. QED
      BY <1>7, <3>1, <3>2
  <2>2. ASSUME NEW i \in DOMAIN ready', NEW j \in DOMAIN ready', ready'[i].task = ready'[j].task PROVE i = j
    <3>1. (i + 1 \in DOMAIN ready /\ i + 1 # 1 /\ ready'[i] = ready[i + 1] /\ i \in 1 .. Len(ready) - 1) \/ (i = Len(ready) /\ ready'[i] = e)
      BY <1>7
    <3>2. (j + 1 \in DOMAIN ready /\ j + 1 # 1 /\ ready'[j] = ready[j + 1] /\ j \in 1 .. Len(ready) - 1) \/ (j = Len(ready) /\ ready'[j] = e)
      BY <1>7
    <3>3. \A k \in DOMAIN ready, l \in DOMAIN ready : ready[k].task = ready[l].task => k = l
      BY <1>1 DEF EntriesOK
    <3>4. QED
      BY <1>2, <1>6, <1>9, <2>2, <3>1, <3>2, <3>3
  <2>3. QED
    BY <2>1, <2>2 DEF EntriesOK
<1>15. GathersOK'
  <2>1. 1 \in DOMAIN tasks /\ (outcome' = "tracing" <=> Live(1)')
    <3>1. CASE m = 1
      BY <1>1, <1>2, <1>4, <3>1 DEF GathersOK, Ends
    <3>2. CASE m # 1
      BY <1>1, <1>4, <3>2 DEF GathersOK, Ends
    <3>3. QED
      BY <3>1, <3>2
  <2>2. QED
    BY <1>1, <1>3, <1>12, <1>13, <2>1 DEF GathersOK
<1>16. QED
  BY <1>3, <1>4, <1>10, <1>12, <1>13, <1>14, <1>15

\* A task that gathers.
Fresh == Len(tasks) + 1 .. Len(tasks) + Len(Top.todo)

LEMMA GatherLoop ==
  ASSUME Loops, GatherView, NEW m, m = Me, NEW N, N = Fresh
  PROVE  /\ DOMAIN tasks' = DOMAIN tasks \cup N /\ DOMAIN tasks \cap N = {} /\ m \in DOMAIN tasks /\ 1 \notin N
         /\ \A t \in N : \E i \in 1 .. Len(Top.todo) : t = Len(tasks) + i
         /\ \A i \in 1 .. Len(Top.todo) : Len(tasks) + i \in N
         /\ \A t \in DOMAIN tasks : Live(t)' <=> Live(t)
         /\ \A t \in DOMAIN tasks : Queued(t)' <=> Queued(t) /\ t # m
         /\ \A t \in DOMAIN tasks : Suspended(t)' <=> Suspended(t) \/ t = m
         /\ \A t \in N : tasks'[t].up = m /\ Live(t)' /\ Queued(t)' /\ ~Suspended(t)' /\ Owed(t)' = {}
         /\ Owed(m) = {} /\ Owed(m)' = N /\ \A t \in DOMAIN tasks : t # m => Owed(t)' = Owed(t)
         /\ EntriesOK' /\ GathersOK'
<1> DEFINE n0 == Len(tasks) n == Len(Top.todo) R == ready' r0 == Len(ready) - 1
<1>1. /\ BuildType /\ EntriesOK /\ GathersOK /\ TaskRuns /\ ready # <<>> /\ Now.what = "run" /\ ~Now.err
      /\ DOMAIN tasks' = 1 .. n0 + n /\ DOMAIN tasks = 1 .. n0 /\ DOMAIN ready = 1 .. r0 + 1
      /\ n0 \in Nat /\ n \in Nat \ {0} /\ r0 \in Nat
      /\ \A t \in DOMAIN tasks : t # m => tasks'[t] = tasks[t]
      /\ tasks'[m].up = tasks[m].up /\ tasks'[m].left = n /\ tasks'[m].woken = FALSE
      /\ N = n0 + 1 .. n0 + n /\ outcome' = outcome
  BY DEF Loops, GatherView, TaskRuns, Fresh
<1>2. /\ DOMAIN R = 1 .. r0 + n
      /\ \A i \in 1 .. r0 : R[i] = ready[i + 1]
      /\ \A i \in 1 .. n : R[r0 + i] = Entry("run", n0 + i, FALSE)
  BY DEF GatherView
<1>3. /\ m \in DOMAIN tasks /\ Live(m) /\ m = ready[1].task /\ Now = ready[1] /\ 1 \in DOMAIN ready
      /\ Len(Fr(m)) \in Nat \ {0}
  BY <1>1, RunIs, NowIs
<1>4. Len(tasks'[m].frames) = Len(Fr(m))
  BY DEF GatherView
<1>5. tasks'[m].frames # <<>>
  <2>1. tasks'[m].frames = <<>> => Len(tasks'[m].frames) = 0
    OBVIOUS
  <2>2. QED
    BY <1>3, <1>4, <2>1
<1>6. \A i \in 1 .. n : tasks'[n0 + i].up = m /\ tasks'[n0 + i].left = 0 /\ tasks'[n0 + i].woken = FALSE /\ tasks'[n0 + i].frames # <<>>
  <2>1. \A i \in 1 .. n : \E f :
          tasks'[n0 + i] = [up |-> m, left |-> 0, woken |-> FALSE, frames |-> <<f>>]
    BY DEF GatherView
  <2> HIDE DEF n, n0
  <2>2. ASSUME NEW i \in 1 .. n
        PROVE  tasks'[n0 + i].up = m /\ tasks'[n0 + i].left = 0 /\ tasks'[n0 + i].woken = FALSE /\ tasks'[n0 + i].frames # <<>>
    <3>1. PICK f : tasks'[n0 + i] = [up |-> m, left |-> 0, woken |-> FALSE, frames |-> <<f>>]
      BY <2>1
    <3>2. tasks'[n0 + i].up = m /\ tasks'[n0 + i].left = 0 /\ tasks'[n0 + i].woken = FALSE /\ tasks'[n0 + i].frames = <<f>>
      BY <3>1
    <3>3. <<f>> # <<>>
      OBVIOUS
    <3>4. QED
      BY <3>2, <3>3
  <2>3. QED
    BY <2>2
<1>7. \A t \in N : \E i \in 1 .. n : t = n0 + i
  <2> HIDE DEF n, n0
  <2>1. \A t \in N : t - n0 \in 1 .. n /\ t = n0 + (t - n0)
    BY <1>1
  <2>2. QED
    BY <2>1
<1>8. \A i \in 1 .. n : n0 + i \in N
  BY <1>1
<1>9. DOMAIN tasks' = DOMAIN tasks \cup N /\ DOMAIN tasks \cap N = {} /\ 1 \notin N
  <2> HIDE DEF n, n0
  <2>1. 1 .. n0 + n = (1 .. n0) \cup (n0 + 1 .. n0 + n) /\ (1 .. n0) \cap (n0 + 1 .. n0 + n) = {}
    BY <1>1
  <2>2. 1 \in 1 .. n0
    BY <1>1 DEF GathersOK
  <2>3. QED
    BY <1>1, <2>1, <2>2
<1>10. \A t \in N : tasks'[t].up = m /\ tasks'[t].left = 0 /\ tasks'[t].woken = FALSE /\ tasks'[t].frames # <<>>
  BY <1>6, <1>7
<1> HIDE DEF n, n0, R, r0
<1>11. \A t \in N : Live(t)'
  BY <1>10 DEF Live, Fr
<1>12. \A t \in DOMAIN tasks : Live(t)' <=> Live(t)
  BY <1>1, <1>3, <1>5 DEF Live, Fr
<1>13. /\ \A i \in DOMAIN R : (i \in 1 .. r0 /\ i + 1 \in DOMAIN ready /\ i + 1 # 1 /\ R[i] = ready[i + 1])
                              \/ (i - r0 \in 1 .. n /\ R[i] = Entry("run", n0 + (i - r0), FALSE))
       /\ 1 .. r0 \subseteq DOMAIN R /\ \A i \in 1 .. n : r0 + i \in DOMAIN R
       /\ \A i \in DOMAIN ready : i # 1 => i - 1 \in DOMAIN R /\ R[i - 1] = ready[i]
  <2>1. ASSUME NEW i \in DOMAIN R
        PROVE  (i \in 1 .. r0 /\ i + 1 \in DOMAIN ready /\ i + 1 # 1 /\ R[i] = ready[i + 1])
                              \/ (i - r0 \in 1 .. n /\ R[i] = Entry("run", n0 + (i - r0), FALSE))
    <3>1. CASE i <= r0
      <4>1. i \in 1 .. r0 /\ i + 1 \in 1 .. r0 + 1 /\ i + 1 # 1
        BY <1>1, <1>2, <3>1
      <4>2. QED
        BY <1>1, <1>2, <4>1
    <3>2. CASE ~(i <= r0)
      <4>1. i - r0 \in 1 .. n /\ i = r0 + (i - r0)
        BY <1>1, <1>2, <3>2
      <4>2. QED
        BY <1>2, <4>1
    <3>3. QED
      BY <3>1, <3>2
  <2>2. 1 .. r0 \subseteq DOMAIN R /\ \A i \in 1 .. n : r0 + i \in DOMAIN R
    BY <1>1, <1>2
  <2>3. \A i \in DOMAIN ready : i # 1 => i - 1 \in 1 .. r0 /\ i - 1 + 1 = i
    BY <1>1
  <2>4. QED
    BY <1>2, <2>1, <2>2, <2>3
<1>14. \A i : Entry("run", n0 + i, FALSE).what = "run" /\ Entry("run", n0 + i, FALSE).task = n0 + i
  BY DEF Entry
<1>15. \A i \in DOMAIN ready : i # 1 => ready[i].task # m /\ ready[i].task \in DOMAIN tasks
  BY <1>1, <1>3 DEF EntriesOK
<1>16. \A t \in N : Queued(t)'
  <2>1. \A i \in 1 .. n : \E j \in DOMAIN R : R[j].task = n0 + i
    BY <1>2, <1>13, <1>14
  <2>2. QED
    BY <1>7, <2>1 DEF Queued, R, n, n0
<1>17. ASSUME NEW t \in DOMAIN tasks PROVE Queued(t)' <=> Queued(t) /\ t # m
  <2>1. ASSUME NEW i \in DOMAIN R, R[i].task = t PROVE \E j \in DOMAIN ready : j # 1 /\ ready[j].task = t
    <3>1. CASE i + 1 \in DOMAIN ready /\ i + 1 # 1 /\ R[i] = ready[i + 1]
      BY <2>1, <3>1
    <3>2. CASE i - r0 \in 1 .. n /\ R[i] = Entry("run", n0 + (i - r0), FALSE)
      <4>1. t = n0 + (i - r0) /\ t \in N
        BY <1>8, <1>14, <2>1, <3>2 DEF n, n0
      <4>2. QED
        BY <1>9, <4>1
    <3>3. QED
      BY <1>13, <3>1, <3>2
  <2>2. ASSUME NEW i \in DOMAIN ready, ready[i].task = t, t # m PROVE \E j \in DOMAIN R : R[j].task = t
    <3>1. i # 1
      BY <1>3, <2>2
    <3>2. QED
      BY <1>13, <2>2, <3>1
  <2>3. Queued(t)' <=> \E i \in DOMAIN R : R[i].task = t
    BY DEF Queued, R
  <2>4. Queued(t) <=> \E i \in DOMAIN ready : ready[i].task = t
    BY DEF Queued
  <2>5. QED
    BY <1>15, <2>1, <2>2, <2>3, <2>4
<1>18. Queued(m)
  BY <1>3 DEF Queued
<1>19. \A t \in DOMAIN tasks : Suspended(t)' <=> Suspended(t) \/ t = m
  BY <1>3, <1>12, <1>17, <1>18 DEF Suspended
<1>20. \A t \in N : ~Suspended(t)'
  BY <1>16 DEF Suspended
<1>21. Owed(m) = {}
  BY <1>1, <1>3 DEF EntriesOK
<1>22. \A t \in DOMAIN tasks : t # 1 => ((Live(t)' \/ Queued(t)') <=> (Live(t) \/ Queued(t)))
  BY <1>3, <1>12, <1>17
<1>23. \A t \in DOMAIN tasks : tasks'[t].up = tasks[t].up
  BY <1>1
<1>24. \A u \in DOMAIN tasks : Owed(u)' = Owed(u) \cup {t \in N : u = m}
  <2>1. SUFFICES ASSUME NEW u \in DOMAIN tasks PROVE Owed(u)' = Owed(u) \cup {t \in N : u = m}
    OBVIOUS
  <2>2. Owed(u)' = {t \in DOMAIN tasks \cup N : t # 1 /\ tasks'[t].up = u /\ (Live(t)' \/ Queued(t)')}
    BY <1>9 DEF Owed
  <2>3. Owed(u) = {t \in DOMAIN tasks : t # 1 /\ tasks[t].up = u /\ (Live(t) \/ Queued(t))}
    BY DEF Owed
  <2>4. QED
    BY <1>9, <1>10, <1>11, <1>22, <1>23, <2>2, <2>3
<1>25. \A u \in N : Owed(u)' = {}
  <2>1. SUFFICES ASSUME NEW u \in N PROVE Owed(u)' = {}
    OBVIOUS
  <2>2. Owed(u)' = {t \in DOMAIN tasks \cup N : t # 1 /\ tasks'[t].up = u /\ (Live(t)' \/ Queued(t)')}
    BY <1>9 DEF Owed
  <2>3. \A t \in DOMAIN tasks : tasks[t].up \in DOMAIN tasks
    BY <1>1 DEF GathersOK
  <2>4. QED
    BY <1>3, <1>9, <1>10, <1>23, <2>2, <2>3
<1>26. Owed(m)' = N /\ \A t \in DOMAIN tasks : t # m => Owed(t)' = Owed(t)
  BY <1>3, <1>21, <1>24
<1>27. EntriesOK'
  <2>1. ASSUME NEW i \in DOMAIN R, NEW c, R[i].task = c
        PROVE  /\ c \in DOMAIN tasks'
               /\ R[i].what = "run" <=> Live(c)'
               /\ c = 1 => R[i].what = "run"
               /\ R[i].what = "run" /\ ~R[i].err => Owed(c)' = {}
    <3>1. CASE i + 1 \in DOMAIN ready /\ i + 1 # 1 /\ R[i] = ready[i + 1]
      <4>1. /\ c \in DOMAIN tasks /\ (R[i].what = "run" <=> Live(c)) /\ (c = 1 => R[i].what = "run")
            /\ (R[i].what = "run" /\ ~R[i].err => Owed(c) = {}) /\ c # m
        BY <1>1, <1>15, <2>1, <3>1 DEF EntriesOK
      <4>2. QED
        BY <1>9, <1>12, <1>26, <4>1
    <3>2. CASE i - r0 \in 1 .. n /\ R[i] = Entry("run", n0 + (i - r0), FALSE)
      <4>1. c = n0 + (i - r0) /\ c \in N /\ R[i].what = "run"
        BY <1>8, <1>14, <2>1, <3>2 DEF n, n0
      <4>2. QED
        BY <1>9, <1>11, <1>25, <4>1
    <3>3. QED
      BY <1>13, <3>1, <3>2
  <2>2. ASSUME NEW i \in DOMAIN R, NEW j \in DOMAIN R, R[i].task = R[j].task PROVE i = j
    <3>1. (i + 1 \in DOMAIN ready /\ i + 1 # 1 /\ R[i] = ready[i + 1] /\ R[i].task \in DOMAIN tasks)
            \/ (i - r0 \in 1 .. n /\ R[i].task = n0 + (i - r0) /\ R[i].task \in N)
      BY <1>8, <1>13, <1>14, <1>15 DEF n, n0
    <3>2. (j + 1 \in DOMAIN ready /\ j + 1 # 1 /\ R[j] = ready[j + 1] /\ R[j].task \in DOMAIN tasks)
            \/ (j - r0 \in 1 .. n /\ R[j].task = n0 + (j - r0) /\ R[j].task \in N)
      BY <1>8, <1>13, <1>14, <1>15 DEF n, n0
    <3>3. \A k \in DOMAIN ready, l \in DOMAIN ready : ready[k].task = ready[l].task => k = l
      BY <1>1 DEF EntriesOK
    <3>4. i \in Int /\ j \in Int /\ r0 \in Int /\ n0 \in Int
      BY <1>1, <1>2
    <3>5. CASE R[i].task \in N
      <4>1. i - r0 \in 1 .. n /\ R[i].task = n0 + (i - r0) /\ j - r0 \in 1 .. n /\ R[j].task = n0 + (j - r0)
        BY <1>9, <2>2, <3>1, <3>2, <3>5
      <4>2. n0 + (i - r0) = n0 + (j - r0)
        BY <2>2, <4>1
      <4>3. QED
        BY <3>4, <4>2
    <3>6. CASE R[i].task \notin N
      <4>1. i + 1 = j + 1
        BY <2>2, <3>1, <3>2, <3>3, <3>6
      <4>2. QED
        BY <3>4, <4>1
    <3>7. QED
      BY <3>5, <3>6
  <2>3. QED
    BY <2>1, <2>2 DEF EntriesOK, R
<1>28. GathersOK'
  <2>1. Cardinality(N) = n /\ N # {} /\ n0 \in Nat /\ n \in Nat \ {0}
    <3>1. n0 + 1 \in Int /\ n0 + n \in Int /\ Cardinality(N) = IF n0 + 1 > n0 + n THEN 0 ELSE n0 + n - (n0 + 1) + 1
      BY <1>1, FS_Interval
    <3>2. n0 + 1 \in N
      BY <1>1, <1>8
    <3>3. ~(n0 + 1 > n0 + n) /\ n0 + n - (n0 + 1) + 1 = n /\ n0 \in Nat /\ n \in Nat \ {0}
      BY <1>1
    <3>4. QED
      BY <3>1, <3>2, <3>3
  <2>2. Cardinality({}) = 0
    BY FS_EmptySet
  <2>3. ASSUME NEW t \in N
        PROVE  /\ tasks'[t].left = Cardinality(Owed(t)') /\ tasks'[t].up \in DOMAIN tasks' /\ (t # 1 => tasks'[t].up < t)
               /\ Suspended(t)' => ~tasks'[t].woken /\ Owed(t)' # {}
               /\ Owed(t)' # {} => tasks'[t].woken \/ Suspended(t)'
    <3>1. m < t
      BY <1>1, <1>3, <2>3
    <3>2. QED
      BY <1>3, <1>9, <1>10, <1>20, <1>25, <2>2, <2>3, <3>1
  <2>4. ASSUME NEW t \in DOMAIN tasks
        PROVE  /\ tasks'[t].left = Cardinality(Owed(t)') /\ tasks'[t].up \in DOMAIN tasks' /\ (t # 1 => tasks'[t].up < t)
               /\ Suspended(t)' => ~tasks'[t].woken /\ Owed(t)' # {}
               /\ Owed(t)' # {} => tasks'[t].woken \/ Suspended(t)'
    <3>1. /\ tasks[t].left = Cardinality(Owed(t)) /\ tasks[t].up \in DOMAIN tasks /\ (t # 1 => tasks[t].up < t)
          /\ (Suspended(t) => ~tasks[t].woken /\ Owed(t) # {})
          /\ (Owed(t) # {} => tasks[t].woken \/ Suspended(t))
      BY <1>1 DEF GathersOK
    <3>2. CASE t = m
      BY <1>1, <1>9, <1>19, <1>26, <2>1, <3>1, <3>2
    <3>3. CASE t # m
      BY <1>1, <1>9, <1>19, <1>26, <3>1, <3>3
    <3>4. QED
      BY <3>2, <3>3
  <2>5. 1 \in DOMAIN tasks /\ (outcome' = "tracing" <=> Live(1)')
    BY <1>1, <1>12 DEF GathersOK
  <2>6. QED
    BY <1>9, <2>3, <2>4, <2>5 DEF GathersOK
<1>29. (\A t \in N : \E i \in 1 .. Len(Top.todo) : t = Len(tasks) + i) /\ \A i \in 1 .. Len(Top.todo) : Len(tasks) + i \in N
  BY <1>7, <1>8 DEF n, n0
<1>30. QED
  BY <1>3, <1>9, <1>10, <1>11, <1>12, <1>16, <1>17, <1>19, <1>20, <1>21, <1>25, <1>26, <1>27, <1>28, <1>29

\* One that gathers hears of one of its tasks.
LEMMA HeardLoop ==
  ASSUME Loops, NEW u, HeardView(u), NEW m, m = Me, NEW w, w = Wakes
  PROVE  /\ DOMAIN tasks' = DOMAIN tasks /\ m \in DOMAIN tasks /\ u \in DOMAIN tasks /\ m # u /\ m # 1 /\ u = tasks[m].up
         /\ ~Live(m) /\ m \in Owed(u) /\ Queued(m)
         /\ w => Suspended(u) /\ (Now.err \/ Owed(u) = {m})
         /\ Suspended(u) => (w <=> Now.err \/ Owed(u) = {m})
         /\ \A t \in DOMAIN tasks : Live(t)' <=> Live(t)
         /\ \A t \in DOMAIN tasks : Queued(t)' <=> (Queued(t) /\ t # m) \/ (t = u /\ w)
         /\ \A t \in DOMAIN tasks : Suspended(t)' <=> Suspended(t) /\ ~(t = u /\ w)
         /\ Owed(u)' = Owed(u) \ {m} /\ \A t \in DOMAIN tasks : t # u => Owed(t)' = Owed(t)
         /\ EntriesOK' /\ GathersOK'
<1> DEFINE R == ready' r0 == Len(ready) - 1 e == Entry("run", u, Now.err)
<1>1. /\ BuildType /\ EntriesOK /\ GathersOK /\ ready # <<>> /\ Now.what = "done" /\ m \in DOMAIN tasks /\ m # 1
      /\ u = tasks[m].up /\ u \in DOMAIN tasks /\ DOMAIN tasks' = DOMAIN tasks /\ outcome' = outcome
      /\ \A t \in DOMAIN tasks : t # u => tasks'[t] = tasks[t]
      /\ tasks'[u].up = tasks[u].up /\ tasks'[u].left = tasks[u].left - 1 /\ tasks'[u].woken = (tasks[u].woken \/ w)
      /\ tasks'[u].frames = tasks[u].frames
      /\ R = IF w THEN Append(Tail(ready), e) ELSE Tail(ready)
  BY DEF Loops, HeardView
<1>2. /\ Now = ready[1] /\ Now \in Queue /\ m = ready[1].task /\ Len(ready) \in Nat \ {0} /\ DOMAIN ready = 1 .. Len(ready)
      /\ r0 \in Nat /\ DOMAIN ready = 1 .. r0 + 1
      /\ Tail(ready) \in Seq(Queue) /\ DOMAIN Tail(ready) = 1 .. r0 /\ \A i \in 1 .. r0 : Tail(ready)[i] = ready[i + 1]
  BY <1>1, NowIs
<1>3. e \in Queue /\ e.what = "run" /\ e.task = u /\ e.err = Now.err
  <2>1. u \in Nat /\ Now.err \in BOOLEAN
    <3>1. tasks \in Seq(Tasks)
      BY <1>1 DEF BuildType
    <3>2. QED
      BY <1>1, <1>2, <3>1 DEF Queue
  <2>2. QED
    BY <2>1 DEF Entry, Queue
<1>4. /\ w => DOMAIN R = 1 .. r0 + 1 /\ R[r0 + 1] = e
      /\ ~w => DOMAIN R = 1 .. r0
      /\ \A i \in 1 .. r0 : R[i] = ready[i + 1]
  <2> HIDE DEF e, R
  <2>1. CASE w
    <3>1. R = Append(Tail(ready), e)
      BY <1>1, <2>1
    <3>5. BuildType /\ EntriesOK /\ ready # <<>> /\ e \in Queue
      BY <1>1, <1>3
    <3>2. DOMAIN R = 1 .. Len(ready) /\ R[Len(ready)] = e /\ \A i \in 1 .. Len(ready) - 1 : R[i] = ready[i + 1]
      BY <3>1, <3>5, NowIs
    <3>3. Len(ready) = r0 + 1 /\ Len(ready) - 1 = r0
      BY <1>2
    <3>4. QED
      BY <2>1, <3>2, <3>3
  <2>2. CASE ~w
    <3>1. R = Tail(ready)
      BY <1>1, <2>2
    <3>2. QED
      BY <1>2, <2>2, <3>1
  <2>3. QED
    BY <2>1, <2>2
<1> HIDE DEF e, R, r0
<1>20. /\ r0 \in Nat /\ DOMAIN ready = 1 .. r0 + 1 /\ 1 \in DOMAIN ready /\ m = ready[1].task /\ ready[1].what # "run" /\ m # u
       /\ 1 .. r0 \subseteq DOMAIN R /\ (w => r0 + 1 \in DOMAIN R) /\ \A i \in DOMAIN R : i \in Int
  <2>1. r0 \in Nat /\ DOMAIN ready = 1 .. r0 + 1 /\ m = ready[1].task /\ ready[1].what = "done"
    BY <1>1, <1>2
  <2>2. 1 .. r0 \subseteq DOMAIN R /\ (w => r0 + 1 \in DOMAIN R) /\ \A i \in DOMAIN R : i \in Int
    BY <1>4, <2>1
  <2>3. u < m /\ u \in Nat /\ m \in Nat
    <3>1. tasks[m].up < m /\ u = tasks[m].up /\ u \in DOMAIN tasks /\ m \in DOMAIN tasks
      BY <1>1 DEF GathersOK
    <3>2. tasks \in Seq(Tasks)
      BY <1>1 DEF BuildType
    <3>3. QED
      BY <3>1, <3>2
  <2>4. QED
    BY <2>1, <2>2, <2>3
<1>5. /\ \A i \in DOMAIN R : (i \in 1 .. r0 /\ i + 1 \in DOMAIN ready /\ i + 1 # 1 /\ R[i] = ready[i + 1])
                              \/ (i = r0 + 1 /\ w /\ R[i] = e)
      /\ \A i \in DOMAIN ready : i # 1 => i - 1 \in DOMAIN R /\ R[i - 1] = ready[i]
      /\ w => r0 + 1 \in DOMAIN R /\ R[r0 + 1] = e
  <2>1. ASSUME NEW i \in DOMAIN R
        PROVE  (i \in 1 .. r0 /\ i + 1 \in DOMAIN ready /\ i + 1 # 1 /\ R[i] = ready[i + 1])
                              \/ (i = r0 + 1 /\ w /\ R[i] = e)
    <3>1. CASE i \in 1 .. r0
      <4>1. i + 1 \in 1 .. r0 + 1 /\ i + 1 # 1
        BY <1>20, <3>1
      <4>2. QED
        BY <1>20, <1>4, <3>1, <4>1
    <3>2. CASE i \notin 1 .. r0
      <4>1. w /\ i \in 1 .. r0 + 1 /\ r0 \in Nat
        BY <1>20, <1>4, <3>2
      <4>2. i = r0 + 1
        BY <3>2, <4>1
      <4>3. QED
        BY <1>4, <4>1, <4>2
    <3>3. QED
      BY <3>1, <3>2
  <2>2. \A i \in DOMAIN ready : i # 1 => i - 1 \in 1 .. r0 /\ i - 1 + 1 = i
    BY <1>20
  <2>3. 1 .. r0 \subseteq DOMAIN R
    BY <1>20
  <2>4. w => r0 + 1 \in DOMAIN R /\ R[r0 + 1] = e
    BY <1>20, <1>4
  <2>5. QED
    BY <1>4, <2>1, <2>2, <2>3, <2>4
<1>6. ~Live(m) /\ Queued(m) /\ m \in Owed(u) /\ m # u
  <2>1. 1 \in DOMAIN ready /\ ready[1].what # "run"
    BY <1>20
  <2>2. ~Live(m)
    BY <1>1, <1>20, <2>1 DEF EntriesOK
  <2>3. Queued(m)
    BY <1>20, <2>1 DEF Queued
  <2>4. m \in Owed(u)
    BY <1>1, <2>3 DEF Owed
  <2>6. QED
    BY <1>20, <2>2, <2>3, <2>4
<1>7. /\ tasks[u].left = Cardinality(Owed(u)) /\ (Suspended(u) => ~tasks[u].woken)
      /\ tasks[u].woken \/ Suspended(u)
  BY <1>1, <1>6 DEF GathersOK
<1>8. /\ Cardinality(Owed(u) \ {m}) = tasks[u].left - 1
      /\ tasks[u].left - 1 = 0 <=> Owed(u) = {m}
  <2>1. IsFiniteSet(Owed(u))
    <3>1. Owed(u) \subseteq 1 .. Len(tasks) /\ Len(tasks) \in Nat
      BY <1>1, NowIs DEF Owed
    <3>2. IsFiniteSet(1 .. Len(tasks))
      BY <3>1, FS_Interval
    <3>3. QED
      BY <3>1, <3>2, FS_Subset
  <2>2. IsFiniteSet(Owed(u) \ {m}) /\ Cardinality(Owed(u) \ {m}) = Cardinality(Owed(u)) - 1
    BY <1>6, <2>1, FS_RemoveElement
  <2>3. Cardinality(Owed(u) \ {m}) = 0 <=> Owed(u) \ {m} = {}
    BY <2>2, FS_EmptySet
  <2>4. QED
    BY <1>6, <1>7, <2>2, <2>3
<1>9. /\ w <=> ~tasks[u].woken /\ (Now.err \/ Owed(u) = {m})
      /\ w => Suspended(u)
      /\ Suspended(u) => (w <=> Now.err \/ Owed(u) = {m})
  BY <1>1, <1>7, <1>8 DEF Wakes
<1>10. \A i \in DOMAIN ready : i # 1 => ready[i].task # m /\ ready[i].task \in DOMAIN tasks
  BY <1>1, <1>20 DEF EntriesOK
<1>11. \A t \in DOMAIN tasks : Live(t)' <=> Live(t)
  BY <1>1 DEF Live, Fr
<1>12. ASSUME NEW t \in DOMAIN tasks PROVE Queued(t)' <=> (Queued(t) /\ t # m) \/ (t = u /\ w)
  <2>1. ASSUME NEW i \in DOMAIN R, R[i].task = t PROVE (\E j \in DOMAIN ready : j # 1 /\ ready[j].task = t) \/ (t = u /\ w)
    BY <1>3, <1>5, <2>1
  <2>2. ASSUME NEW i \in DOMAIN ready, ready[i].task = t, t # m PROVE \E j \in DOMAIN R : R[j].task = t
    BY <1>20, <1>5, <2>2
  <2>3. t = u /\ w => \E j \in DOMAIN R : R[j].task = t
    BY <1>3, <1>5
  <2>4. Queued(t)' <=> \E i \in DOMAIN R : R[i].task = t
    BY DEF Queued, R
  <2>5. Queued(t) <=> \E i \in DOMAIN ready : ready[i].task = t
    BY DEF Queued
  <2>6. QED
    BY <1>10, <2>1, <2>2, <2>3, <2>4, <2>5
<1>13. \A t \in DOMAIN tasks : Suspended(t)' <=> Suspended(t) /\ ~(t = u /\ w)
  BY <1>6, <1>9, <1>11, <1>12 DEF Suspended
<1>14. \A t \in DOMAIN tasks : (Live(t)' \/ Queued(t)') <=> (Live(t) \/ Queued(t)) /\ t # m
  BY <1>6, <1>9, <1>11, <1>12 DEF Suspended
<1>15. \A t \in DOMAIN tasks : tasks'[t].up = tasks[t].up
  BY <1>1
<1>16. \A c \in DOMAIN tasks : Owed(c)' = Owed(c) \ {m}
  BY <1>1, <1>14, <1>15 DEF Owed
<1>17. Owed(u)' = Owed(u) \ {m} /\ \A t \in DOMAIN tasks : t # u => Owed(t)' = Owed(t)
  <2>1. \A t : t # u => m \notin Owed(t)
    <3>1. u = tasks[m].up
      BY <1>1
    <3>2. QED
      BY <3>1 DEF Owed
  <2>2. \A t \in DOMAIN tasks : t # u => Owed(t) \ {m} = Owed(t)
    BY <2>1
  <2>4. u \in DOMAIN tasks
    BY <1>1
  <2>3. QED
    BY <1>16, <2>2, <2>4
<1>18. EntriesOK'
  <2>1. ASSUME NEW i \in DOMAIN R, NEW c, R[i].task = c
        PROVE  /\ c \in DOMAIN tasks'
               /\ R[i].what = "run" <=> Live(c)'
               /\ c = 1 => R[i].what = "run"
               /\ R[i].what = "run" /\ ~R[i].err => Owed(c)' = {}
    <3>1. CASE i + 1 \in DOMAIN ready /\ i + 1 # 1 /\ R[i] = ready[i + 1]
      <4>1. /\ c \in DOMAIN tasks /\ (R[i].what = "run" <=> Live(c)) /\ (c = 1 => R[i].what = "run")
            /\ (R[i].what = "run" /\ ~R[i].err => Owed(c) = {}) /\ c # m
        BY <1>1, <1>10, <2>1, <3>1 DEF EntriesOK
      <4>2. QED
        BY <1>1, <1>11, <1>16, <4>1
    <3>2. CASE w /\ R[i] = e
      <4>1. c = u /\ R[i].what = "run" /\ (~R[i].err => Owed(u)' = {})
        BY <1>3, <1>9, <1>17, <2>1, <3>2
      <4>2. Live(u)
        BY <1>9, <3>2 DEF Suspended
      <4>3. QED
        BY <1>1, <1>11, <4>1, <4>2
    <3>3. QED
      BY <1>5, <3>1, <3>2
  <2>2. ASSUME NEW i \in DOMAIN R, NEW j \in DOMAIN R, R[i].task = R[j].task PROVE i = j
    <3>1. \A k \in DOMAIN ready, l \in DOMAIN ready : ready[k].task = ready[l].task => k = l
      BY <1>1 DEF EntriesOK
    <3>2. w => \A k \in DOMAIN ready : ready[k].task # u
      BY <1>9 DEF Suspended, Queued
    <3>3. (i + 1 \in DOMAIN ready /\ R[i] = ready[i + 1]) \/ (i = r0 + 1 /\ w /\ R[i].task = u)
      BY <1>3, <1>5
    <3>4. (j + 1 \in DOMAIN ready /\ R[j] = ready[j + 1]) \/ (j = r0 + 1 /\ w /\ R[j].task = u)
      BY <1>3, <1>5
    <3>5. CASE R[i].task = u /\ w
      BY <2>2, <3>2, <3>3, <3>4, <3>5
    <3>6. CASE ~(R[i].task = u /\ w)
      <4>1. i + 1 = j + 1
        BY <2>2, <3>1, <3>3, <3>4, <3>6
      <4>2. i \in Int /\ j \in Int
        BY <1>20
      <4>3. QED
        BY <4>1, <4>2
    <3>7. QED
      BY <3>5, <3>6
  <2>3. QED
    BY <2>1, <2>2 DEF EntriesOK, R
<1>19. GathersOK'
  <2>1. ASSUME NEW t \in DOMAIN tasks
        PROVE  /\ tasks'[t].left = Cardinality(Owed(t)') /\ tasks'[t].up \in DOMAIN tasks' /\ (t # 1 => tasks'[t].up < t)
               /\ Suspended(t)' => ~tasks'[t].woken /\ Owed(t)' # {}
               /\ Owed(t)' # {} => tasks'[t].woken \/ Suspended(t)'
    <3>1. /\ tasks[t].left = Cardinality(Owed(t)) /\ tasks[t].up \in DOMAIN tasks /\ (t # 1 => tasks[t].up < t)
          /\ (Suspended(t) => ~tasks[t].woken /\ Owed(t) # {})
          /\ (Owed(t) # {} => tasks[t].woken \/ Suspended(t))
      BY <1>1 DEF GathersOK
    <3>2. CASE t = u
      BY <1>1, <1>6, <1>7, <1>8, <1>9, <1>13, <1>17, <3>1, <3>2
    <3>3. CASE t # u
      BY <1>1, <1>13, <1>17, <3>1, <3>3
    <3>4. QED
      BY <3>2, <3>3
  <2>2. 1 \in DOMAIN tasks /\ (outcome' = "tracing" <=> Live(1)')
    BY <1>1, <1>11 DEF GathersOK
  <2>3. QED
    BY <1>1, <2>1, <2>2 DEF GathersOK
<1>21. QED
  BY <1>1, <1>6, <1>9, <1>11, <1>12, <1>13, <1>17, <1>18, <1>19

FinishView == Ends(FALSE) /\ ~Now.err /\ Top.todo = <<>> /\ Len(Fr(Me)) = 1 /\ ~Bypassed

\* Every step is of one of these kinds.
LEMMA StepIs ==
  ASSUME Loops, BuildNext
  PROVE  \/ \E fs : LeafView(fs) \/ IntoView(fs) \/ PopView(fs)
         \/ Ends(TRUE) \/ FinishView \/ GatherView
         \/ \E u : HeardView(u)
         \/ Install
<1>1. BuildType /\ EntriesOK /\ GathersOK
  BY DEF Loops
<1>2. CallsLeaf => \E fs : LeafView(fs)
  BY <1>1, LeafViewed
<1>3. CallsInto => \E fs : IntoView(fs)
  BY <1>1, IntoViewed
<1>4. Pops => \E fs : PopView(fs)
  BY <1>1, PopViewed
<1>5. Raises => Ends(TRUE)
  <2>1. TRUE \in BOOLEAN
    OBVIOUS
  <2>2. QED
    BY <1>1, <2>1, EndsIs DEF Raises, Steps
<1>6. Finishes => FinishView
  <2>1. FALSE \in BOOLEAN
    OBVIOUS
  <2>2. QED
    BY <1>1, <2>1, EndsIs DEF Finishes, FinishView, Steps
<1>7. Gathers => GatherView
  BY <1>1, GatherViewed
<1>8. CallBack => \E u : HeardView(u)
  BY <1>1, HeardViewed
<1>9. QED
  BY <1>2, <1>3, <1>4, <1>5, <1>6, <1>7, <1>8, StepKinds

LEMMA TypeStep ==
  ASSUME Loops, BuildNext
  PROVE  BuildType' /\ tree' = tree
<1>1. /\ tree \in Trees /\ ready \in Seq(Queue) /\ tasks \in Seq(Tasks) /\ stack \in Seq(Stacked)
      /\ nodes \in Seq(Noted) /\ nodes # <<>> /\ outcome \in {"tracing", "traced", "built", "failed"}
      /\ BuildType /\ EntriesOK /\ GathersOK
  BY DEF Loops, BuildType
<1>2. SUFFICES /\ tree' = tree /\ ready' \in Seq(Queue) /\ tasks' \in Seq(Tasks) /\ stack' \in Seq(Stacked)
               /\ nodes' \in Seq(Noted) /\ nodes' # <<>> /\ outcome' \in {"tracing", "traced", "built", "failed"}
  <2>1. SUFFICES ASSUME tree' = tree
                 PROVE  Queue' = Queue /\ Tasks' = Tasks /\ Stacked' = Stacked /\ Noted' = Noted
    BY <1>1 DEF BuildType
  <2>2. Family' = Family
    BY <2>1 DEF Family
  <2>3. Sites' = Sites
    BY <2>2 DEF Sites
  <2>4. Frames' = Frames
    BY <2>2, <2>3 DEF Frames
  <2>5. QED
    BY <2>2, <2>3, <2>4 DEF Queue, Tasks, Stacked, Noted
<1>3. \A fs : Works(fs) => tree' = tree /\ ready' = ready /\ outcome' = outcome /\ tasks' \in Seq(Tasks) /\ TaskRuns
  BY DEF Works, Reframed
<1>4. \A c, s : Notes(c, s) => nodes' \in Seq(Noted) /\ nodes' # <<>>
  BY DEF Notes
<1>5. CASE \E fs : LeafView(fs)
  BY <1>1, <1>3, <1>4, <1>5 DEF LeafView
<1>6. CASE \E fs : IntoView(fs)
  <2>1. PICK fs : IntoView(fs)
    BY <1>6
  <2>2. Works(fs) /\ Notes(Kid, KidSite) /\ Top.todo # <<>>
        /\ stack' = Append(stack, [agent |-> Kid, path |-> Under(Innermost.path, Innermost.agent, Kid)])
    BY <2>1 DEF IntoView
  <2>3. Kid \in Family /\ Under(Innermost.path, Innermost.agent, Kid) \in Sites
    BY <1>1, <1>3, <2>2, KidIs DEF Notes
  <2> DEFINE e == [agent |-> Kid, path |-> Under(Innermost.path, Innermost.agent, Kid)]
  <2>4. e \in Stacked
    BY <2>3 DEF Stacked
  <2> HIDE DEF e
  <2>5. Append(stack, e) \in Seq(Stacked)
    BY <1>1, <2>4
  <2>6. QED
    BY <1>1, <1>3, <1>4, <2>2, <2>5 DEF e
<1>7. CASE \E fs : PopView(fs)
  <2>1. PICK fs : PopView(fs)
    BY <1>7
  <2>2. Works(fs) /\ stack' = Front(stack) /\ nodes' = nodes
    BY <2>1 DEF PopView
  <2>3. Front(stack) \in Seq(Stacked)
    <3>1. CASE stack # <<>>
      BY <1>1, <3>1, FrontIs
    <3>2. CASE stack = <<>>
      <4>1. Front(stack) = SubSeq(stack, 1, 0 - 1) /\ 0 - 1 < 1 /\ 0 - 1 \in Int /\ 1 \in Int
        BY <3>2 DEF Front
      <4>2. Front(stack) = <<>>
        BY <4>1, SubSeqEmpty
      <4>3. QED
        BY <4>2
    <3>3. QED
      BY <3>1, <3>2
  <2>4. QED
    BY <1>1, <1>3, <2>2, <2>3
<1>8. CASE \E err \in BOOLEAN : Ends(err)
  <2>1. PICK err \in BOOLEAN : Ends(err)
    BY <1>8
  <2>2. /\ TaskRuns /\ tasks' \in Seq(Tasks) /\ tree' = tree /\ nodes' = nodes
        /\ stack' = SubSeq(stack, 1, Len(stack) - (Len(Fr(Me)) - 1))
        /\ Me = 1 => outcome' = (IF err THEN "failed" ELSE "traced") /\ ready' = Tail(ready)
        /\ Me # 1 => outcome' = outcome /\ ready' = Append(Tail(ready), Entry("done", Me, err))
    BY <2>1 DEF Ends, Reframed
  <2>3. Me \in Nat /\ Tail(ready) \in Seq(Queue) /\ Len(Fr(Me)) \in Nat \ {0}
    BY <1>1, <2>2, RunIs
  <2> DEFINE e == Entry("done", Me, err) k == Len(stack) - (Len(Fr(Me)) - 1)
  <2>4. e \in Queue
    BY <2>3 DEF Entry, Queue
  <2>5. stack' \in Seq(Stacked)
    <3>1. k \in Int /\ 1 \in Int /\ \A i \in 1 .. k : stack[i] \in Stacked
      BY <1>1, <2>3
    <3>2. stack' = SubSeq(stack, 1, k)
      BY <2>2
    <3> HIDE DEF k
    <3>3. SubSeq(stack, 1, k) \in Seq(Stacked)
      BY <3>1, SubSeqProperties
    <3>4. QED
      BY <3>2, <3>3
  <2> HIDE DEF e
  <2>6. Append(Tail(ready), e) \in Seq(Queue)
    BY <2>3, <2>4
  <2>7. ready' \in Seq(Queue) /\ outcome' \in {"tracing", "traced", "built", "failed"}
    BY <1>1, <2>2, <2>3, <2>6 DEF e
  <2>8. QED
    BY <1>1, <2>2, <2>5, <2>7
<1>9. CASE GatherView
  BY <1>1, <1>9 DEF GatherView
<1>10. CASE \E u : HeardView(u)
  <2>1. PICK u : HeardView(u)
    BY <1>10
  <2>2. /\ ready # <<>> /\ tree' = tree /\ stack' = stack /\ nodes' = nodes /\ outcome' = outcome /\ tasks' \in Seq(Tasks)
        /\ ready' = IF Wakes THEN Append(Tail(ready), Entry("run", u, Now.err)) ELSE Tail(ready)
        /\ u \in DOMAIN tasks
    BY <2>1 DEF HeardView
  <2>3. Now \in Queue /\ Tail(ready) \in Seq(Queue)
    BY <1>1, <2>2, NowIs
  <2> DEFINE e == Entry("run", u, Now.err)
  <2>4. e \in Queue
    BY <1>1, <2>2, <2>3 DEF Entry, Queue
  <2> HIDE DEF e
  <2>5. Append(Tail(ready), e) \in Seq(Queue)
    BY <2>3, <2>4
  <2>6. ready' \in Seq(Queue)
    BY <2>2, <2>3, <2>5 DEF e
  <2>7. QED
    BY <1>1, <2>2, <2>6
<1>11. CASE Install
  BY <1>1, <1>11 DEF Install
<1>12. FinishView => \E err \in BOOLEAN : Ends(err)
  BY DEF FinishView
<1>13. QED
  BY <1>5, <1>6, <1>7, <1>8, <1>9, <1>10, <1>11, <1>12, StepIs

LEMMA LoopsStep ==
  ASSUME Loops, BuildNext
  PROVE  Loops'
<1>1. BuildType'
  BY TypeStep
<1>2. \A fs : LeafView(fs) \/ IntoView(fs) \/ PopView(fs) => Works(fs)
  BY DEF LeafView, IntoView, PopView
<1>3. CASE \E fs : Works(fs)
  BY <1>1, <1>3, WorksLoop DEF Loops
<1>4. CASE \E err \in BOOLEAN : Ends(err)
  BY <1>1, <1>4, EndsLoop DEF Loops
<1>5. CASE GatherView
  BY <1>1, <1>5, GatherLoop DEF Loops
<1>6. CASE \E u : HeardView(u)
  BY <1>1, <1>6, HeardLoop DEF Loops
<1>7. CASE Install
  <2>1. /\ tree' = tree /\ ready' = ready /\ tasks' = tasks /\ outcome = "traced" /\ outcome' \in {"built", "failed"}
    BY <1>7 DEF Install
  <2>2. EntriesOK'
    BY <2>1 DEF Loops, EntriesOK, Owed, Live, Fr, Queued
  <2>3. GathersOK'
    <3>1. \A t : Owed(t)' = Owed(t) /\ (Suspended(t)' <=> Suspended(t)) /\ (Live(t)' <=> Live(t))
      BY <2>1 DEF Owed, Live, Fr, Queued, Suspended
    <3>2. outcome' # "tracing" /\ outcome # "tracing" /\ GathersOK
      BY <2>1 DEF Loops
    <3>3. QED
      BY <2>1, <3>1, <3>2 DEF GathersOK
  <2>4. QED
    BY <1>1, <2>2, <2>3 DEF Loops
<1>8. FinishView => \E err \in BOOLEAN : Ends(err)
  BY DEF FinishView
<1>9. QED
  BY <1>2, <1>3, <1>4, <1>5, <1>6, <1>7, <1>8, StepIs

LEMMA LoopsStart ==
  ASSUME BuildInit
  PROVE  Loops
<1>1. /\ tree \in Trees /\ stack = <<>> /\ outcome = "tracing"
      /\ nodes = <<[path |-> <<>>, agent |-> tree.root, site |-> <<>>]>>
      /\ tasks = <<[up |-> 1, left |-> 0, woken |-> FALSE, frames |-> <<Frame(tree.root, <<>>, 1)>>]>>
      /\ ready = <<Entry("run", 1, FALSE)>>
  BY DEF BuildInit
<1>2. tree.root \in Family /\ <<>> \in Sites
  BY <1>1, TreeIs DEF Sites
<1> DEFINE f == Frame(tree.root, <<>>, 1)
           t == [up |-> 1, left |-> 0, woken |-> FALSE, frames |-> <<f>>]
           e == Entry("run", 1, FALSE)
           n == [path |-> <<>>, agent |-> tree.root, site |-> <<>>]
<1>3. f \in Frames
  BY <1>1, <1>2, FrameIs
<1>4. e \in Queue /\ e.what = "run" /\ e.task = 1 /\ e.err = FALSE
  BY DEF Entry, Queue
<1>5. n \in Noted
  BY <1>2 DEF Noted
<1> HIDE DEF f, e, n
<1>6. t \in Tasks /\ t.up = 1 /\ t.left = 0 /\ t.woken = FALSE /\ t.frames # <<>>
  <2>1. <<f>> \in Seq(Frames) /\ <<f>> # <<>>
    BY <1>3
  <2>2. QED
    BY <2>1 DEF Tasks
<1> HIDE DEF t
<1>7. tasks = <<t>> /\ ready = <<e>> /\ nodes = <<n>>
  BY <1>1 DEF t, f, e, n
<1>8. BuildType
  <2>1. <<t>> \in Seq(Tasks) /\ <<e>> \in Seq(Queue) /\ <<n>> \in Seq(Noted) /\ <<n>> # <<>> /\ <<>> \in Seq(Stacked)
    BY <1>4, <1>5, <1>6
  <2>2. QED
    BY <1>1, <1>7, <2>1 DEF BuildType
<1>9. DOMAIN tasks = {1} /\ DOMAIN ready = {1} /\ tasks[1] = t /\ ready[1] = e
  BY <1>7
<1>10. Owed(1) = {} /\ Live(1) /\ ~Suspended(1)
  BY <1>4, <1>6, <1>9 DEF Owed, Live, Fr, Suspended, Queued
<1>11. EntriesOK
  BY <1>4, <1>9, <1>10 DEF EntriesOK
<1>12. GathersOK
  BY <1>1, <1>6, <1>9, <1>10, FS_EmptySet DEF GathersOK
<1>13. QED
  BY <1>8, <1>11, <1>12 DEF Loops

\* What becomes of the queue.
Keeps(r) == \A i \in DOMAIN ready : i # 1 => i - 1 \in DOMAIN r /\ r[i - 1] = ready[i]
Stays(r, j) == j \in 1 .. Len(ready) - 1 /\ j + 1 \in DOMAIN ready /\ j + 1 # 1 /\ r[j] = ready[j + 1]
Only(r) == Keeps(r) /\ \A j \in DOMAIN r : Stays(r, j)
Adds(r, e) ==
  /\ Keeps(r) /\ Len(ready) \in DOMAIN r /\ r[Len(ready)] = e
  /\ \A j \in DOMAIN r : Stays(r, j) \/ (j = Len(ready) /\ r[j] = e)

LEMMA QueueMoves ==
  ASSUME BuildType, EntriesOK, ready # <<>>
  PROVE  /\ \A r : r = Tail(ready) => Only(r)
         /\ \A e \in Queue : \A r : r = Append(Tail(ready), e) => Adds(r, e)
<1>1. /\ Len(ready) \in Nat \ {0} /\ DOMAIN ready = 1 .. Len(ready)
      /\ DOMAIN Tail(ready) = 1 .. Len(ready) - 1 /\ \A i \in 1 .. Len(ready) - 1 : Tail(ready)[i] = ready[i + 1]
      /\ \A e \in Queue : \A r : r = Append(Tail(ready), e) =>
           /\ DOMAIN r = 1 .. Len(ready) /\ r[Len(ready)] = e
           /\ \A i \in 1 .. Len(ready) - 1 : r[i] = ready[i + 1]
  BY NowIs
<1> DEFINE n == Len(ready)
<1>2. n \in Nat \ {0} /\ DOMAIN ready = 1 .. n
  BY <1>1
<1>3. ASSUME NEW r, 1 .. n - 1 \subseteq DOMAIN r, \A i \in 1 .. n - 1 : r[i] = ready[i + 1]
      PROVE  Keeps(r) /\ \A j \in 1 .. n - 1 : Stays(r, j)
  <2> HIDE DEF n
  <2>1. \A i \in DOMAIN ready : i # 1 => i - 1 \in 1 .. n - 1 /\ i - 1 + 1 = i
    BY <1>2
  <2>2. \A j \in 1 .. n - 1 : j + 1 \in DOMAIN ready /\ j + 1 # 1
    BY <1>2
  <2>3. Keeps(r)
    BY <1>3, <2>1 DEF Keeps
  <2>4. QED
    BY <1>3, <2>2, <2>3 DEF Stays, n
<1>4. ASSUME NEW r, r = Tail(ready) PROVE Only(r)
  <2>1. DOMAIN r = 1 .. n - 1 /\ \A i \in 1 .. n - 1 : r[i] = ready[i + 1]
    BY <1>1, <1>4
  <2> HIDE DEF n
  <2>2. QED
    BY <1>3, <2>1 DEF Only
<1>5. ASSUME NEW e \in Queue, NEW r, r = Append(Tail(ready), e) PROVE Adds(r, e)
  <2>1. DOMAIN r = 1 .. n /\ r[n] = e /\ \A i \in 1 .. n - 1 : r[i] = ready[i + 1]
    BY <1>1, <1>5
  <2> HIDE DEF n
  <2>2. 1 .. n - 1 \subseteq DOMAIN r /\ n \in DOMAIN r /\ \A j \in DOMAIN r : j = n \/ j \in 1 .. n - 1
    BY <1>2, <2>1
  <2>3. QED
    BY <1>3, <2>1, <2>2 DEF Adds, n
<1>6. QED
  BY <1>4, <1>5

LEMMA EndsQueue ==
  ASSUME Loops, NEW err \in BOOLEAN, Ends(err), NEW m, m = Me
  PROVE  /\ m = 1 => Only(ready') /\ outcome' = (IF err THEN "failed" ELSE "traced")
         /\ m # 1 => Adds(ready', Entry("done", m, err)) /\ outcome' = outcome
<1>1. BuildType /\ EntriesOK /\ ready # <<>> /\ TaskRuns
  BY DEF Loops, Ends, TaskRuns
<1>2. m = 1 => ready' = Tail(ready) /\ outcome' = (IF err THEN "failed" ELSE "traced")
  BY DEF Ends
<1>3. m # 1 => ready' = Append(Tail(ready), Entry("done", m, err)) /\ outcome' = outcome
  BY DEF Ends
<1>4. Entry("done", m, err) \in Queue
  <2>1. m \in Nat
    BY <1>1, RunIs
  <2>2. QED
    BY <2>1 DEF Entry, Queue
<1> DEFINE e == Entry("done", m, err) r == ready'
<1> HIDE DEF e, r
<1>5. m = 1 => Only(r)
  BY <1>1, <1>2, QueueMoves DEF r
<1>6. m # 1 => Adds(r, e)
  <2>1. m # 1 => r = Append(Tail(ready), e)
    BY <1>3 DEF e, r
  <2>2. e \in Queue
    BY <1>4 DEF e
  <2>3. QED
    BY <1>1, <2>1, <2>2, QueueMoves
<1>7. QED
  BY <1>2, <1>3, <1>5, <1>6 DEF e, r

LEMMA HeardQueue ==
  ASSUME Loops, NEW u, HeardView(u)
  PROVE  IF Wakes THEN Adds(ready', Entry("run", u, Now.err)) ELSE Only(ready')
<1>1. BuildType /\ EntriesOK /\ ready # <<>> /\ u \in DOMAIN tasks
      /\ ready' = IF Wakes THEN Append(Tail(ready), Entry("run", u, Now.err)) ELSE Tail(ready)
  BY DEF Loops, HeardView
<1> DEFINE e == Entry("run", u, Now.err) r == ready'
<1>2. e \in Queue
  <2>1. u \in Nat /\ Now \in Queue
    BY <1>1, NowIs DEF BuildType
  <2>2. QED
    BY <2>1 DEF Entry, Queue
<1>3. r = IF Wakes THEN Append(Tail(ready), e) ELSE Tail(ready)
  BY <1>1
<1> HIDE DEF e, r
<1>4. CASE Wakes
  <2>1. r = Append(Tail(ready), e)
    BY <1>3, <1>4
  <2>2. Adds(r, e)
    BY <1>1, <1>2, <2>1, QueueMoves
  <2>3. QED
    BY <1>4, <2>2 DEF e, r
<1>5. CASE ~Wakes
  <2>1. r = Tail(ready)
    BY <1>3, <1>5
  <2>2. Only(r)
    BY <1>1, <2>1, QueueMoves
  <2>3. QED
    BY <1>5, <2>2 DEF r
<1>6. QED
  BY <1>4, <1>5

LEMMA GatherQueue ==
  ASSUME Loops, GatherView
  PROVE  /\ Keeps(ready') /\ Len(ready) \in Nat \ {0} /\ Len(tasks) \in Nat /\ Len(Top.todo) \in Nat \ {0}
         /\ \A i \in 1 .. Len(Top.todo) : Len(ready) - 1 + i \in DOMAIN ready'
                                          /\ ready'[Len(ready) - 1 + i] = Entry("run", Len(tasks) + i, FALSE)
         /\ \A j \in DOMAIN ready' : \/ Stays(ready', j)
                                     \/ /\ j - (Len(ready) - 1) \in 1 .. Len(Top.todo)
                                        /\ ready'[j] = Entry("run", Len(tasks) + (j - (Len(ready) - 1)), FALSE)
<1> DEFINE r0 == Len(ready) - 1 n == Len(Top.todo) n0 == Len(tasks) R == ready'
<1>1. /\ DOMAIN R = 1 .. r0 + n /\ DOMAIN ready = 1 .. r0 + 1 /\ r0 \in Nat /\ n \in Nat \ {0} /\ n0 \in Nat
      /\ \A i \in 1 .. r0 : R[i] = ready[i + 1]
      /\ \A i \in 1 .. n : R[r0 + i] = Entry("run", n0 + i, FALSE)
  <2>1. Len(ready) \in Nat \ {0} /\ DOMAIN ready = 1 .. Len(ready)
    BY DEF GatherView
  <2>2. r0 \in Nat /\ DOMAIN ready = 1 .. r0 + 1
    BY <2>1
  <2>3. QED
    BY <2>2 DEF GatherView
<1> HIDE DEF r0, n, n0, R
<1>2. Keeps(R)
  <2>1. \A i \in DOMAIN ready : i # 1 => i - 1 \in 1 .. r0 /\ i - 1 \in 1 .. r0 + n /\ i - 1 + 1 = i
    BY <1>1
  <2>2. QED
    BY <1>1, <2>1 DEF Keeps
<1>3. \A i \in 1 .. n : r0 + i \in DOMAIN R /\ R[r0 + i] = Entry("run", n0 + i, FALSE)
  <2>1. \A i \in 1 .. n : r0 + i \in 1 .. r0 + n
    BY <1>1
  <2>2. QED
    BY <1>1, <2>1
<1>4. ASSUME NEW j \in DOMAIN R
      PROVE  (j \in 1 .. r0 /\ j + 1 \in DOMAIN ready /\ j + 1 # 1 /\ R[j] = ready[j + 1])
             \/ (j - r0 \in 1 .. n /\ R[j] = Entry("run", n0 + (j - r0), FALSE))
  <2>1. CASE j <= r0
    <3>1. j \in 1 .. r0 /\ j + 1 \in 1 .. r0 + 1 /\ j + 1 # 1
      BY <1>1, <2>1
    <3>2. QED
      BY <1>1, <3>1
  <2>2. CASE ~(j <= r0)
    <3>1. j - r0 \in 1 .. n /\ j = r0 + (j - r0)
      BY <1>1, <2>2
    <3>2. QED
      BY <1>1, <3>1
  <2>3. QED
    BY <2>1, <2>2
<1>5. Len(ready) \in Nat \ {0} /\ Len(tasks) \in Nat /\ Len(Top.todo) \in Nat \ {0}
  BY DEF GatherView
<1>6. QED
  BY <1>2, <1>3, <1>4, <1>5 DEF Stays, R, r0, n, n0

-----------------------------------------------------------------------------
(* An error once raised goes all the way up *)

\* An entry tells c of an error, and c and the tasks in U wait for each other up to
\* the first.
Raised(c, U) ==
  /\ \E i \in DOMAIN ready : ready[i].task = c /\ ready[i].err
  /\ \A t \in U : Suspended(t)
  /\ \A t \in U \cup {c} : t = 1 \/ tasks[t].up \in U
Doomed == outcome = "failed" \/ \E c \in DOMAIN tasks, U \in SUBSET DOMAIN tasks : Raised(c, U)

LEMMA EntryIs ==
  /\ \A w, t, e : Entry(w, t, e).what = w /\ Entry(w, t, e).task = t /\ Entry(w, t, e).err = e
BY DEF Entry

\* What is raised for c stays so if the entry for c does, and the tasks that wait.
LEMMA RaisedStays ==
  ASSUME NEW c \in DOMAIN tasks, NEW U \in SUBSET DOMAIN tasks, Raised(c, U),
         DOMAIN tasks \subseteq DOMAIN tasks',
         \A t \in DOMAIN tasks : tasks'[t].up = tasks[t].up,
         NEW V \in SUBSET U, \A t \in V \cup {c} : t # 1 => tasks[t].up \in V,
         \A t \in V : Suspended(t) => Suspended(t)',
         \A i \in DOMAIN ready : ready[i].task = c => \E j \in DOMAIN ready' : ready'[j] = ready[i]
  PROVE  Doomed'
<1>1. \E j \in DOMAIN ready' : ready'[j].task = c /\ ready'[j].err
  BY DEF Raised
<1>2. \A t \in V : Suspended(t)'
  BY DEF Raised
<1>3. \A t \in V \cup {c} : t = 1 \/ tasks'[t].up \in V
  OBVIOUS
<1>4. c \in DOMAIN tasks' /\ V \in SUBSET DOMAIN tasks'
  OBVIOUS
<1>5. Raised(c, V)'
  BY <1>1, <1>2, <1>3 DEF Raised
<1>6. QED
  BY <1>4, <1>5 DEF Doomed

LEMMA DoomedStays ==
  ASSUME Loops, BuildNext, Doomed
  PROVE  Doomed'
<1>1. BuildType /\ EntriesOK /\ GathersOK
  BY DEF Loops
<1>2. CASE outcome = "failed"
  <2>1. ~Live(1)
    BY <1>1, <1>2 DEF GathersOK
  <2>2. outcome' = "failed"
    <3>1. \A fs : Works(fs) => outcome' = outcome
      BY DEF Works
    <3>2. ASSUME NEW err \in BOOLEAN, Ends(err) PROVE outcome' = outcome
      <4>1. Live(Me)
        BY <1>1, <3>2, RunIs DEF Ends
      <4>2. Me # 1
        BY <2>1, <4>1
      <4>3. QED
        BY <3>2, <4>2 DEF Ends
    <3>3. GatherView => outcome' = outcome
      BY DEF GatherView
    <3>4. \A u : HeardView(u) => outcome' = outcome
      BY DEF HeardView
    <3>5. ~Install
      BY <1>2 DEF Install
    <3>6. QED
      BY <1>2, <3>1, <3>2, <3>3, <3>4, <3>5, StepIs DEF LeafView, IntoView, PopView, FinishView
  <2>3. QED
    BY <2>2 DEF Doomed
<1>3. CASE \E c \in DOMAIN tasks, U \in SUBSET DOMAIN tasks : Raised(c, U)
  <2>1. PICK c \in DOMAIN tasks, U \in SUBSET DOMAIN tasks : Raised(c, U)
    BY <1>3
  <2>2. PICK i \in DOMAIN ready : ready[i].task = c /\ ready[i].err
    BY <2>1 DEF Raised
  <2>3. /\ \A t \in U : Suspended(t)
        /\ \A t \in U \cup {c} : t # 1 => tasks[t].up \in U
    BY <2>1 DEF Raised
  <2>4. \A k \in DOMAIN ready : ready[k].task = c => k = i
    BY <1>1, <2>2 DEF EntriesOK
  <2>5. ASSUME NEW fs, Works(fs) PROVE Doomed'
    <3>1. ready' = ready /\ DOMAIN tasks' = DOMAIN tasks /\ \A t \in DOMAIN tasks : tasks'[t].up = tasks[t].up
      BY <2>5 DEF Works, Reframed
    <3>2. \A t \in DOMAIN tasks : Suspended(t)' <=> Suspended(t)
      BY <2>5, WorksLoop DEF Suspended
    <3>3. QED
      BY <2>1, <2>3, <3>1, <3>2, RaisedStays
  <2>6. ASSUME NEW err \in BOOLEAN, Ends(err), Now.err => err PROVE Doomed'
    <3> DEFINE m == Me
    <3>1. m = Me /\ m \in DOMAIN tasks /\ m = ready[1].task /\ Now = ready[1] /\ 1 \in DOMAIN ready
      <4>1. TaskRuns /\ ready # <<>>
        BY <2>6 DEF Ends, TaskRuns
      <4>2. QED
        BY <1>1, <4>1, NowIs
    <3>7. DOMAIN tasks' = DOMAIN tasks /\ \A t \in DOMAIN tasks : tasks'[t].up = tasks[t].up
      BY <2>6 DEF Ends, Reframed
    <3> HIDE DEF m
    <3>2. \A t \in DOMAIN tasks : Suspended(t)' <=> Suspended(t)
      BY <2>6, <3>1, EndsLoop
    <3>3. /\ m = 1 => Only(ready') /\ outcome' = (IF err THEN "failed" ELSE "traced")
          /\ m # 1 => Adds(ready', Entry("done", m, err)) /\ outcome' = outcome
      BY <2>6, <3>1, EndsQueue
    <3>4. CASE i = 1 /\ m = 1
      BY <2>2, <2>6, <3>1, <3>3, <3>4 DEF Doomed
    <3>5. CASE i = 1 /\ m # 1
      <4>1. c = m /\ err
        BY <2>2, <2>6, <3>1, <3>5
      <4>2. \E j \in DOMAIN ready' : ready'[j].task = c /\ ready'[j].err
        <5>1. Len(ready) \in DOMAIN ready' /\ ready'[Len(ready)] = Entry("done", m, err)
          BY <3>3, <3>5 DEF Adds
        <5>2. ready'[Len(ready)].task = c /\ ready'[Len(ready)].err
          BY <4>1, <5>1 DEF Entry
        <5>3. QED
          BY <5>1, <5>2
      <4>3. /\ \A t \in U : Suspended(t)'
            /\ \A t \in U \cup {c} : t = 1 \/ tasks'[t].up \in U
        BY <2>3, <3>2, <3>7
      <4>4. Raised(c, U)'
        BY <4>2, <4>3 DEF Raised
      <4>5. QED
        BY <3>7, <4>4 DEF Doomed
    <3>6. CASE i # 1
      <4>1. Keeps(ready')
        BY <3>3 DEF Only, Adds
      <4>2. \E j \in DOMAIN ready' : ready'[j] = ready[i]
        BY <3>6, <4>1 DEF Keeps
      <4>3. QED
        BY <2>1, <2>3, <2>4, <3>2, <3>7, <4>2, RaisedStays
    <3>8. QED
      BY <3>4, <3>5, <3>6
  <2>7. ASSUME GatherView PROVE Doomed'
    <3> DEFINE m == Me N == Fresh
    <3>1. m = Me /\ N = Fresh /\ m = ready[1].task /\ Now = ready[1] /\ ~Now.err
          /\ tasks'[m].up = tasks[m].up /\ \A t \in DOMAIN tasks : t # m => tasks'[t] = tasks[t]
      <4>1. ~Now.err /\ ready # <<>>
        BY <2>7 DEF GatherView, TaskRuns
      <4>2. m = ready[1].task /\ Now = ready[1]
        BY <1>1, <4>1, NowIs
      <4>3. QED
        BY <2>7, <4>1, <4>2 DEF GatherView
    <3> HIDE DEF m, N
    <3>2. /\ DOMAIN tasks' = DOMAIN tasks \cup N
          /\ \A t \in DOMAIN tasks : Suspended(t)' <=> Suspended(t) \/ t = m
      BY <2>7, <3>1, GatherLoop
    <3>3. i # 1
      BY <2>2, <3>1
    <3>4. Keeps(ready')
      BY <2>7, GatherQueue
    <3>5. \E j \in DOMAIN ready' : ready'[j] = ready[i]
      BY <3>3, <3>4 DEF Keeps
    <3>6. \A t \in DOMAIN tasks : tasks'[t].up = tasks[t].up
      BY <3>1
    <3>7. QED
      BY <2>1, <2>3, <2>4, <3>2, <3>5, <3>6, RaisedStays
  <2>8. ASSUME NEW u, HeardView(u) PROVE Doomed'
    <3> DEFINE m == Me w == Wakes
    <3>1. /\ m = Me /\ w = Wakes /\ m = ready[1].task /\ Now = ready[1] /\ 1 \in DOMAIN ready
          /\ \A t \in DOMAIN tasks : tasks'[t].up = tasks[t].up
      <4>1. ready # <<>>
        BY <2>8 DEF HeardView
      <4>2. m = ready[1].task /\ Now = ready[1] /\ 1 \in DOMAIN ready
        BY <1>1, <4>1, NowIs
      <4>3. QED
        BY <2>8, <4>2 DEF HeardView
    <3> HIDE DEF m, w
    <3>2. /\ DOMAIN tasks' = DOMAIN tasks /\ u \in DOMAIN tasks /\ m # u /\ m # 1 /\ u = tasks[m].up /\ m \in DOMAIN tasks
          /\ w => Suspended(u) /\ (Now.err \/ Owed(u) = {m})
          /\ Suspended(u) => (w <=> Now.err \/ Owed(u) = {m})
          /\ \A t \in DOMAIN tasks : Suspended(t)' <=> Suspended(t) /\ ~(t = u /\ w)
          /\ ~Live(m)
      BY <2>8, <3>1, HeardLoop
    <3>3. IF w THEN Adds(ready', Entry("run", u, Now.err)) ELSE Only(ready')
      BY <2>8, <3>1, HeardQueue
    <3>4. Keeps(ready') /\ (w => \E j \in DOMAIN ready' : ready'[j].task = u /\ ready'[j].err = Now.err)
      BY <3>3, EntryIs DEF Only, Adds
    <3>5. i # 1 => \E j \in DOMAIN ready' : ready'[j] = ready[i]
      BY <3>4 DEF Keeps
    <3>6. CASE Now.err /\ u \in U
      <4> DEFINE V == {t \in U : t < u}
      <4>1. w /\ \E j \in DOMAIN ready' : ready'[j].task = u /\ ready'[j].err
        BY <2>3, <3>2, <3>4, <3>6
      <4>2. ASSUME NEW t \in V \cup {u} PROVE t = 1 \/ tasks'[t].up \in V
        <5>1. t \in U /\ t \in DOMAIN tasks
          BY <3>2, <3>6, <4>2
        <5>2. t # 1 => tasks[t].up \in U /\ tasks[t].up < t /\ tasks[t].up \in DOMAIN tasks
          BY <1>1, <2>3, <5>1 DEF GathersOK
        <5>3. tasks \in Seq(Tasks) /\ t <= u
          <6>1. t \in DOMAIN tasks /\ u \in DOMAIN tasks /\ tasks \in Seq(Tasks)
            BY <1>1, <3>2, <5>1 DEF BuildType
          <6>2. t \in Nat /\ u \in Nat /\ (t < u \/ t = u)
            BY <4>2, <6>1
          <6>3. QED
            BY <6>1, <6>2
        <5>4. t # 1 => tasks[t].up < u
          <6>1. t # 1 => tasks[t].up \in Nat /\ t \in Nat /\ u \in Nat
            BY <3>2, <5>1, <5>2, <5>3
          <6>2. QED
            BY <5>2, <5>3, <6>1
        <5>5. QED
          BY <3>1, <5>1, <5>2, <5>4
      <4>3. \A t \in V : Suspended(t)'
        <5>1. u \in Nat /\ \A t \in U : t \in Nat
          BY <1>1, <3>2 DEF BuildType
        <5>2. \A t \in V : t \in DOMAIN tasks /\ t # u
          BY <5>1
        <5>3. QED
          BY <2>3, <3>2, <5>2
      <4>4. V \in SUBSET DOMAIN tasks'
        BY <3>2
      <4> HIDE DEF V
      <4>5. Raised(u, V)'
        BY <4>1, <4>2, <4>3 DEF Raised
      <4>6. QED
        BY <3>2, <4>4, <4>5 DEF Doomed
    <3>7. CASE i # 1 /\ (Now.err => u \notin U)
      <4> DEFINE V == IF w THEN U \ {u} ELSE U
      <4>1. ASSUME NEW t \in V \cup {c}, t # 1 PROVE tasks[t].up \in V
        <5>1. t \in U \cup {c} /\ tasks[t].up \in U
          BY <2>3, <4>1
        <5>2. SUFFICES ASSUME w, tasks[t].up = u PROVE FALSE
          BY <5>1
        <5>3. Owed(u) = {m}
          BY <3>2, <3>7, <5>1, <5>2
        <5>4. t \in Owed(u)
          <6>1. t \in DOMAIN tasks /\ (Live(t) \/ Queued(t))
            BY <2>2, <2>3, <5>1 DEF Suspended, Queued
          <6>2. QED
            BY <4>1, <5>2, <6>1 DEF Owed
        <5>5. t = m
          BY <5>3, <5>4
        <5>6. m # c
          BY <2>4, <3>1, <3>7
        <5>7. Live(m)
          BY <2>3, <5>1, <5>5, <5>6 DEF Suspended
        <5>8. QED
          BY <3>2, <5>7
      <4>2. V \in SUBSET U /\ \A t \in V : Suspended(t) => Suspended(t)'
        BY <3>2
      <4> HIDE DEF V
      <4>3. DOMAIN tasks \subseteq DOMAIN tasks' /\ \A t \in DOMAIN tasks : tasks'[t].up = tasks[t].up
        BY <3>1, <3>2
      <4>4. \A k \in DOMAIN ready : ready[k].task = c => \E j \in DOMAIN ready' : ready'[j] = ready[k]
        BY <2>4, <3>5, <3>7
      <4>5. QED
        BY <2>1, <4>1, <4>2, <4>3, <4>4, RaisedStays
    <3>8. i = 1 => Now.err /\ u \in U
      BY <2>2, <2>3, <3>1, <3>2
    <3>9. QED
      BY <3>6, <3>7, <3>8
  <2>9. ~Install \/ Doomed'
    <3>1. SUFFICES ASSUME Install PROVE Doomed'
      OBVIOUS
    <3>2. tasks' = tasks /\ ready' = ready
      BY <3>1 DEF Install
    <3>3. \A t : Suspended(t)' <=> Suspended(t)
      BY <3>2 DEF Suspended, Live, Fr, Queued
    <3>4. QED
      BY <2>1, <2>3, <3>2, <3>3, RaisedStays
  <2>10. QED
    <3>1. TRUE \in BOOLEAN /\ FALSE \in BOOLEAN
      OBVIOUS
    <3>2. Ends(TRUE) => Doomed'
      BY <2>6, <3>1
    <3>3. FinishView => Doomed'
      BY <2>6, <3>1 DEF FinishView
    <3>4. QED
      BY <2>5, <2>7, <2>8, <2>9, <3>2, <3>3, StepIs DEF LeafView, IntoView, PopView
<1>4. QED
  BY <1>2, <1>3 DEF Doomed

\* Until an error is on its way up, who was woken waits for nobody.
Kept == ~Doomed => \A t \in DOMAIN tasks : tasks[t].woken => Owed(t) = {}

LEMMA AllSleep ==
  ASSUME Loops, Kept, ~Doomed, NEW t \in DOMAIN tasks, t # 1, Live(t) \/ Queued(t)
  PROVE  Suspended(tasks[t].up) /\ tasks[t].up \in DOMAIN tasks
<1>1. tasks[t].up \in DOMAIN tasks
  BY DEF Loops, GathersOK
<1>2. t \in Owed(tasks[t].up)
  BY DEF Owed
<1>3. ~tasks[tasks[t].up].woken
  BY <1>1, <1>2 DEF Kept
<1>4. QED
  BY <1>1, <1>2, <1>3 DEF Loops, GathersOK

LEMMA NoError ==
  ASSUME Loops, Kept, ~Doomed, NEW i \in DOMAIN ready
  PROVE  ~ready[i].err
<1>1. SUFFICES ASSUME ready[i].err PROVE FALSE
  OBVIOUS
<1> DEFINE U == {t \in DOMAIN tasks : Suspended(t)} c == ready[i].task
<1>2. c \in DOMAIN tasks /\ Queued(c)
  BY DEF Loops, EntriesOK, Queued
<1>3. \A t \in U \cup {c} : t = 1 \/ tasks[t].up \in U
  <2>1. \A t \in U \cup {c} : t \in DOMAIN tasks /\ (Live(t) \/ Queued(t))
    BY <1>2 DEF Suspended
  <2> HIDE DEF c
  <2>2. \A t \in U \cup {c} : t # 1 => Suspended(tasks[t].up) /\ tasks[t].up \in DOMAIN tasks
    BY <2>1, AllSleep
  <2>3. QED
    BY <2>2
<1>4. Raised(c, U)
  BY <1>1, <1>3 DEF Raised
<1>5. QED
  BY <1>2, <1>4 DEF Doomed

LEMMA RaiseDooms ==
  ASSUME Loops, Kept, BuildNext, Ends(TRUE)
  PROVE  Doomed'
<1>1. CASE Doomed
  BY <1>1, DoomedStays
<1>2. CASE ~Doomed
  <2>8. PICK m : m = Me
    OBVIOUS
  <2>9. PICK U : U = {t \in DOMAIN tasks : Suspended(t)}
    OBVIOUS
  <2>1. TRUE \in BOOLEAN /\ BuildType /\ EntriesOK /\ TaskRuns
    BY DEF Loops, Ends
  <2>2. m = Me /\ m \in DOMAIN tasks /\ Live(m) /\ (\A t \in DOMAIN tasks : tasks'[t].up = tasks[t].up) /\ DOMAIN tasks' = DOMAIN tasks
    <3>1. Me \in DOMAIN tasks /\ Live(Me)
      BY <2>1, RunIs
    <3>2. QED
      BY <2>8, <3>1 DEF Ends, Reframed
  <2>3. \A t \in DOMAIN tasks : Suspended(t)' <=> Suspended(t)
    BY <2>1, <2>2, EndsLoop
  <2>4. /\ m = 1 => outcome' = "failed"
        /\ m # 1 => Adds(ready', Entry("done", m, TRUE))
    BY <2>1, <2>2, EndsQueue
  <2>5. CASE m = 1
    BY <2>4, <2>5 DEF Doomed
  <2>6. CASE m # 1
    <3>1. \A t \in U \cup {m} : t \in DOMAIN tasks /\ Live(t)
      BY <2>2, <2>9 DEF Suspended
    <3>2. \A t \in U \cup {m} : t # 1 => tasks[t].up \in U
      BY <1>2, <2>9, <3>1, AllSleep
    <3>3. \E j \in DOMAIN ready' : ready'[j].task = m /\ ready'[j].err
      <4>1. Len(ready) \in DOMAIN ready' /\ ready'[Len(ready)] = Entry("done", m, TRUE)
        BY <2>4, <2>6 DEF Adds
      <4>2. ready'[Len(ready)].task = m /\ ready'[Len(ready)].err
        BY <4>1 DEF Entry
      <4>3. QED
        BY <4>1, <4>2
    <3>4. \A t \in U : Suspended(t)'
      BY <2>3, <2>9
    <3>5. U \in SUBSET DOMAIN tasks'
      BY <2>2, <2>9
    <3>6. \A t \in U \cup {m} : t = 1 \/ tasks'[t].up \in U
      BY <2>2, <3>1, <3>2
    <3>7. Raised(m, U)'
      BY <3>3, <3>4, <3>6 DEF Raised
    <3>8. QED
      BY <2>2, <3>5, <3>7 DEF Doomed
  <2>7. QED
    BY <2>5, <2>6
<1>3. QED
  BY <1>1, <1>2

LEMMA KeptStep ==
  ASSUME Loops, Kept, BuildNext
  PROVE  Kept'
<1>1. SUFFICES ASSUME ~Doomed' PROVE \A t \in DOMAIN tasks' : tasks'[t].woken => Owed(t)' = {}
  BY DEF Kept
<1>2. ~Doomed
  BY <1>1, DoomedStays
<1>3. \A t \in DOMAIN tasks : tasks[t].woken => Owed(t) = {}
  BY <1>2 DEF Kept
<1>4. ASSUME NEW fs, Works(fs) PROVE \A t \in DOMAIN tasks' : tasks'[t].woken => Owed(t)' = {}
  <2>1. DOMAIN tasks' = DOMAIN tasks /\ \A t \in DOMAIN tasks : tasks'[t].woken = tasks[t].woken
    BY <1>4 DEF Works, Reframed
  <2>2. \A t \in DOMAIN tasks : Owed(t)' = Owed(t)
    BY <1>4, WorksLoop
  <2>3. QED
    BY <1>3, <2>1, <2>2
<1>5. ASSUME NEW err \in BOOLEAN, Ends(err) PROVE \A t \in DOMAIN tasks' : tasks'[t].woken => Owed(t)' = {}
  <2>1. DOMAIN tasks' = DOMAIN tasks /\ \A t \in DOMAIN tasks : tasks'[t].woken = tasks[t].woken
    BY <1>5 DEF Ends, Reframed
  <2>2. \A t \in DOMAIN tasks : Owed(t)' = Owed(t)
    BY <1>5, EndsLoop
  <2>3. QED
    BY <1>3, <2>1, <2>2
<1>6. ASSUME GatherView PROVE \A t \in DOMAIN tasks' : tasks'[t].woken => Owed(t)' = {}
  <2> DEFINE m == Me N == Fresh
  <2>1. m = Me /\ N = Fresh /\ tasks'[m].woken = FALSE /\ \A t \in DOMAIN tasks : t # m => tasks'[t] = tasks[t]
    BY <1>6 DEF GatherView
  <2> HIDE DEF m, N
  <2>2. /\ DOMAIN tasks' = DOMAIN tasks \cup N
        /\ \A t \in N : Owed(t)' = {}
        /\ \A t \in DOMAIN tasks : t # m => Owed(t)' = Owed(t)
    BY <1>6, <2>1, GatherLoop
  <2>3. QED
    BY <1>3, <2>1, <2>2
<1>7. ASSUME NEW u, HeardView(u) PROVE \A t \in DOMAIN tasks' : tasks'[t].woken => Owed(t)' = {}
  <2> DEFINE m == Me w == Wakes
  <2>1. m = Me /\ w = Wakes /\ tasks'[u].woken = (tasks[u].woken \/ w) /\ \A t \in DOMAIN tasks : t # u => tasks'[t] = tasks[t]
    BY <1>7 DEF HeardView
  <2> HIDE DEF m, w
  <2>2. /\ DOMAIN tasks' = DOMAIN tasks
        /\ w => Now.err \/ Owed(u) = {m}
        /\ Owed(u)' = Owed(u) \ {m} /\ \A t \in DOMAIN tasks : t # u => Owed(t)' = Owed(t)
        /\ u \in DOMAIN tasks
    BY <1>7, <2>1, HeardLoop
  <2>3. ~Now.err
    <3>1. ready # <<>> /\ BuildType /\ EntriesOK
      BY <1>7 DEF HeardView, Loops
    <3>2. Now = ready[1] /\ 1 \in DOMAIN ready
      BY <3>1, NowIs
    <3>3. QED
      BY <1>2, <3>2, NoError
  <2>4. QED
    BY <1>3, <2>1, <2>2, <2>3
<1>8. ASSUME Install PROVE \A t \in DOMAIN tasks' : tasks'[t].woken => Owed(t)' = {}
  <2>1. tasks' = tasks /\ ready' = ready
    BY <1>8 DEF Install
  <2>2. \A t : Owed(t)' = Owed(t)
    BY <2>1 DEF Owed, Live, Fr, Queued
  <2>3. QED
    BY <1>3, <2>1, <2>2
<1>9. FinishView => \E err \in BOOLEAN : Ends(err)
  BY DEF FinishView
<1>10. \A fs : LeafView(fs) \/ IntoView(fs) \/ PopView(fs) => Works(fs)
  BY DEF LeafView, IntoView, PopView
<1>11. QED
  BY <1>4, <1>5, <1>6, <1>7, <1>8, <1>9, <1>10, StepIs

-----------------------------------------------------------------------------
(* What is on the tracer's stack *)

\* The forwards that were entered and not left.
Entered == UNION {{<<t, j>> : j \in 2 .. Len(Fr(t))} : t \in DOMAIN tasks}
Counted == IsFiniteSet(Entered) /\ Cardinality(Entered) = Len(stack)

LEMMA CountedStep ==
  ASSUME Loops, Counted, BuildNext
  PROVE  Counted'
<1>1. BuildType /\ EntriesOK /\ GathersOK /\ tasks \in Seq(Tasks) /\ stack \in Seq(Stacked)
  BY DEF Loops, BuildType
<1>2. \A t \in DOMAIN tasks : Fr(t) \in Seq(Frames) /\ Len(Fr(t)) \in Nat
  <2>1. \A t \in DOMAIN tasks : tasks[t] \in Tasks
    BY <1>1
  <2>2. QED
    BY <2>1 DEF Tasks, Fr
<1>3. ASSUME Entered' = Entered, stack' = stack PROVE Counted'
  BY <1>3 DEF Counted
<1>4. PICK m : m = Me
  OBVIOUS
<1>5. PICK n : n = Len(Fr(Me))
  OBVIOUS
<1>6. TaskRuns => m \in DOMAIN tasks /\ n = Len(Fr(m)) /\ n \in Nat \ {0}
  BY <1>1, <1>4, <1>5, RunIs
<1> DEFINE Rest == UNION {{<<t, j>> : j \in 2 .. Len(Fr(t))} : t \in DOMAIN tasks \ {m}}
           Mine(k) == {<<m, j>> : j \in 2 .. k}
<1>7. TaskRuns => Entered = Rest \cup Mine(n)
  BY <1>6 DEF Entered
<1>8. ASSUME TaskRuns, NEW fs, Reframed(fs) PROVE Entered' = Rest \cup Mine(Len(fs)) /\ Len(fs) \in Nat
  <2>1. DOMAIN tasks' = DOMAIN tasks /\ (\A t \in DOMAIN tasks : t # m => tasks'[t] = tasks[t]) /\ tasks'[m].frames = fs /\ Len(fs) \in Nat
    BY <1>4, <1>8 DEF Reframed
  <2>2. Entered' = UNION {{<<t, j>> : j \in 2 .. Len(tasks'[t].frames)} : t \in DOMAIN tasks}
    BY <2>1 DEF Entered, Fr
  <2>3. \A t \in DOMAIN tasks \ {m} : {<<t, j>> : j \in 2 .. Len(tasks'[t].frames)} = {<<t, j>> : j \in 2 .. Len(Fr(t))}
    BY <2>1 DEF Fr
  <2>4. {<<m, j>> : j \in 2 .. Len(tasks'[m].frames)} = Mine(Len(fs))
    BY <2>1
  <2> HIDE DEF Mine
  <2>5. m \in DOMAIN tasks
    BY <1>6, <1>8
  <2>6. QED
    BY <2>1, <2>2, <2>3, <2>4, <2>5
<1>9. \A k \in Nat \ {0} : /\ Mine(k + 1) = Mine(k) \cup {<<m, k + 1>>} /\ <<m, k + 1>> \notin Mine(k)
  <2>1. ASSUME NEW k \in Nat \ {0} PROVE Mine(k + 1) = Mine(k) \cup {<<m, k + 1>>} /\ <<m, k + 1>> \notin Mine(k)
    <3>1. 2 .. k + 1 = (2 .. k) \cup {k + 1} /\ k + 1 \notin 2 .. k
      OBVIOUS
    <3>2. QED
      BY <3>1
  <2>2. QED
    BY <2>1
<1>10. \A k : Rest \cap Mine(k) = {}
  OBVIOUS
<1>11. Mine(0) = {} /\ Mine(1) = {}
  OBVIOUS
<1>12. ASSUME TaskRuns, NEW fs, Reframed(fs) PROVE Entered' = Rest \cup Mine(Len(fs)) /\ Entered = Rest \cup Mine(n) /\ Len(fs) \in Nat
  BY <1>7, <1>8, <1>12
<1> HIDE DEF Rest, Mine
<1>13. CASE \E fs : LeafView(fs)
  <2>1. PICK fs : LeafView(fs)
    BY <1>13
  <2>2. TaskRuns /\ Reframed(fs) /\ Len(fs) = n /\ stack' = stack
    BY <1>5, <2>1 DEF LeafView, Works
  <2>3. QED
    BY <1>3, <1>12, <2>2
<1>14. CASE \E fs : IntoView(fs)
  <2>1. PICK fs : IntoView(fs)
    BY <1>14
  <2>2. TaskRuns /\ Reframed(fs) /\ Len(fs) = n + 1
        /\ stack' = Append(stack, [agent |-> Kid, path |-> Under(Innermost.path, Innermost.agent, Kid)])
    BY <1>5, <2>1 DEF IntoView, Works
  <2>3. Len(stack') = Len(stack) + 1
    BY <1>1, <2>2
  <2>4. Entered' = Entered \cup {<<m, n + 1>>} /\ <<m, n + 1>> \notin Entered
    <3>1. n \in Nat \ {0}
      BY <1>6, <2>2
    <3>2. <<m, n + 1>> \in Mine(n + 1) /\ Mine(n + 1) = Mine(n) \cup {<<m, n + 1>>} /\ <<m, n + 1>> \notin Mine(n)
      BY <1>9, <3>1
    <3>3. <<m, n + 1>> \notin Rest
      BY <1>10, <3>2
    <3>4. Entered' = Rest \cup Mine(n + 1) /\ Entered = Rest \cup Mine(n)
      BY <1>12, <2>2
    <3>5. QED
      BY <3>2, <3>3, <3>4
  <2>5. IsFiniteSet(Entered \cup {<<m, n + 1>>}) /\ Cardinality(Entered \cup {<<m, n + 1>>}) = Cardinality(Entered) + 1
    BY <2>4, FS_AddElement DEF Counted
  <2>6. QED
    BY <2>3, <2>4, <2>5 DEF Counted
<1>15. CASE \E fs : PopView(fs)
  <2>1. PICK fs : PopView(fs)
    BY <1>15
  <2>2. TaskRuns /\ Reframed(fs) /\ Len(fs) = n - 1 /\ n > 1 /\ stack' = Front(stack)
    BY <1>5, <2>1 DEF PopView, Works
  <2>3. n - 1 \in Nat \ {0} /\ n - 1 + 1 = n
    BY <1>6, <2>2
  <2>4. Entered' = Entered \ {<<m, n>>} /\ <<m, n>> \in Entered
    <3>1. Mine(n) = Mine(n - 1) \cup {<<m, n>>} /\ <<m, n>> \notin Mine(n - 1)
      BY <1>9, <2>3
    <3>2. <<m, n>> \notin Rest
      BY <1>10, <3>1
    <3>3. Entered' = Rest \cup Mine(n - 1) /\ Entered = Rest \cup Mine(n)
      BY <1>12, <2>2
    <3>4. QED
      BY <3>1, <3>2, <3>3
  <2>5. IsFiniteSet(Entered \ {<<m, n>>}) /\ Cardinality(Entered \ {<<m, n>>}) = Cardinality(Entered) - 1
    BY <2>4, FS_RemoveElement DEF Counted
  <2>6. stack # <<>>
    <3>1. Cardinality(Entered) # 0
      BY <2>4, FS_EmptySet DEF Counted
    <3>2. QED
      BY <3>1 DEF Counted
  <2>7. Len(stack') = Len(stack) - 1
    BY <1>1, <2>2, <2>6, FrontIs
  <2>8. QED
    BY <2>4, <2>5, <2>7 DEF Counted
<1>16. CASE \E err \in BOOLEAN : Ends(err)
  <2>1. TaskRuns /\ Reframed(<<>>) /\ stack' = SubSeq(stack, 1, Len(stack) - (n - 1))
    BY <1>5, <1>16 DEF Ends
  <2>2. n \in Nat \ {0}
    BY <1>6, <2>1
  <2>3. Entered' = Rest /\ Entered = Rest \cup Mine(n)
    <3> DEFINE fs == <<>>
    <3>1. Reframed(fs) /\ Len(fs) = 0
      BY <2>1
    <3> HIDE DEF fs
    <3>2. Entered' = Rest \cup Mine(0) /\ Entered = Rest \cup Mine(n)
      BY <1>12, <2>1, <3>1
    <3>3. QED
      BY <1>11, <3>2
  <2>4. IsFiniteSet(Mine(n)) /\ Cardinality(Mine(n)) = n - 1
    <3> DEFINE P == {k \in 0 .. n - 1 : IsFiniteSet(Mine(k + 1)) /\ Cardinality(Mine(k + 1)) = k}
    <3>1. 0 \in P
      <4>1. Mine(0 + 1) = {} /\ 0 \in 0 .. n - 1
        BY <1>11, <2>2
      <4>2. QED
        BY <4>1, FS_EmptySet
    <3>2. \A k \in 1 .. n - 1 : k - 1 \in P => k \in P
      <4> SUFFICES ASSUME NEW k \in 1 .. n - 1, IsFiniteSet(Mine(k - 1 + 1)), Cardinality(Mine(k - 1 + 1)) = k - 1
                   PROVE  IsFiniteSet(Mine(k + 1)) /\ Cardinality(Mine(k + 1)) = k
        BY <2>2
      <4>1. k - 1 + 1 = k /\ k \in Nat \ {0}
        BY <2>2
      <4>2. Mine(k + 1) = Mine(k) \cup {<<m, k + 1>>} /\ <<m, k + 1>> \notin Mine(k)
        BY <1>9, <4>1
      <4>3. IsFiniteSet(Mine(k) \cup {<<m, k + 1>>}) /\ Cardinality(Mine(k) \cup {<<m, k + 1>>}) = Cardinality(Mine(k)) + 1
        BY <4>1, <4>2, FS_AddElement
      <4>4. QED
        BY <4>1, <4>2, <4>3
    <3> HIDE DEF P
    <3>3. n - 1 \in P
      <4>1. n - 1 \in Nat /\ n - 1 \in 0 .. n - 1
        BY <2>2
      <4>2. \A k \in 0 .. n - 1 : k \in P
        BY <3>1, <3>2, <4>1, Climb
      <4>3. QED
        BY <4>1, <4>2
    <3>4. n - 1 + 1 = n
      BY <2>2
    <3>5. QED
      BY <3>3, <3>4 DEF P
  <2>5. IsFiniteSet(Rest) /\ Cardinality(Rest) = Len(stack) - (n - 1) /\ Cardinality(Rest) \in Nat
    <3>1. IsFiniteSet(Rest)
      BY <2>3, FS_Subset DEF Counted
    <3>2. Cardinality(Rest \cup Mine(n)) = Cardinality(Rest) + Cardinality(Mine(n)) - Cardinality(Rest \cap Mine(n))
      BY <2>4, <3>1, FS_Union
    <3>3. Rest \cap Mine(n) = {} /\ Cardinality({}) = 0
      BY <1>10, FS_EmptySet
    <3>4. Cardinality(Rest) \in Nat /\ Cardinality(Entered) = Len(stack)
      BY <3>1, FS_CardinalityType DEF Counted
    <3>6. Cardinality(Rest \cap Mine(n)) = 0 /\ Cardinality(Rest \cup Mine(n)) = Len(stack)
      BY <2>3, <3>3, <3>4
    <3> DEFINE a == Cardinality(Rest) b == Cardinality(Mine(n)) c == Cardinality(Rest \cup Mine(n)) d == Cardinality(Rest \cap Mine(n))
    <3>7. c = a + b - d /\ b = n - 1 /\ d = 0 /\ c = Len(stack) /\ a \in Nat /\ n \in Nat \ {0} /\ Len(stack) \in Nat
      BY <1>1, <2>2, <2>4, <3>2, <3>4, <3>6
    <3> HIDE DEF a, b, c, d
    <3>8. a = Len(stack) - (n - 1)
      BY <3>7
    <3>5. QED
      BY <3>1, <3>4, <3>8 DEF a
  <2>6. Len(stack') = Len(stack) - (n - 1)
    <3> DEFINE k == Len(stack) - (n - 1)
    <3>1. k \in Nat /\ k \in Int /\ 1 \in Int /\ \A i \in 1 .. k : stack[i] \in Stacked
      BY <1>1, <2>2, <2>5
    <3>2. stack' = SubSeq(stack, 1, k)
      BY <2>1
    <3> HIDE DEF k
    <3>3. Len(SubSeq(stack, 1, k)) = IF 1 <= k THEN k - 1 + 1 ELSE 0
      BY <3>1, SubSeqProperties
    <3>4. Len(SubSeq(stack, 1, k)) = k
      BY <3>1, <3>3
    <3>5. QED
      BY <3>2, <3>4 DEF k
  <2>7. QED
    BY <2>3, <2>5, <2>6 DEF Counted
<1>17. CASE GatherView
  <2>1. PICK N : N = Fresh
    OBVIOUS
  <2>2. /\ DOMAIN tasks' = DOMAIN tasks \cup N /\ DOMAIN tasks \cap N = {} /\ m \in DOMAIN tasks
        /\ \A t \in N : \E i \in 1 .. Len(Top.todo) : t = Len(tasks) + i
    BY <1>4, <1>17, <2>1, GatherLoop
  <2>3. \A t \in DOMAIN tasks : Len(tasks'[t].frames) = Len(Fr(t))
    BY <1>4, <1>5, <1>17 DEF GatherView, Fr
  <2>4. \A t \in N : Len(tasks'[t].frames) = 1
    <3>1. ASSUME NEW i \in 1 .. Len(Top.todo) PROVE Len(tasks'[Len(tasks) + i].frames) = 1
      <4>1. \E f : tasks'[Len(tasks) + i] = [up |-> Me, left |-> 0, woken |-> FALSE, frames |-> <<f>>]
        BY <1>17 DEF GatherView
      <4>2. PICK f : tasks'[Len(tasks) + i] = [up |-> Me, left |-> 0, woken |-> FALSE, frames |-> <<f>>]
        BY <4>1
      <4>3. tasks'[Len(tasks) + i].frames = <<f>>
        BY <4>2
      <4>4. QED
        BY <4>3
    <3>2. QED
      BY <2>2, <3>1
  <2>5. Entered' = UNION {{<<t, j>> : j \in 2 .. Len(tasks'[t].frames)} : t \in DOMAIN tasks \cup N}
    BY <2>2 DEF Entered, Fr
  <2>6. /\ \A t \in DOMAIN tasks : {<<t, j>> : j \in 2 .. Len(tasks'[t].frames)} = {<<t, j>> : j \in 2 .. Len(Fr(t))}
        /\ \A t \in N : {<<t, j>> : j \in 2 .. Len(tasks'[t].frames)} = {}
    <3>1. ASSUME NEW t \in DOMAIN tasks
          PROVE  {<<t, j>> : j \in 2 .. Len(tasks'[t].frames)} = {<<t, j>> : j \in 2 .. Len(Fr(t))}
      BY <2>3
    <3>2. ASSUME NEW t \in N
          PROVE  {<<t, j>> : j \in 2 .. Len(tasks'[t].frames)} = {}
      <4>1. Len(tasks'[t].frames) = 1
        BY <2>4
      <4>2. 2 .. 1 = {}
        OBVIOUS
      <4>3. 2 .. Len(tasks'[t].frames) = {}
        BY <4>1, <4>2, Zenon
      <4>4. QED
        BY <4>3, Zenon
    <3>3. QED
      BY <3>1, <3>2, Zenon
  <2>7. Entered' = Entered /\ stack' = stack
    <3>1. Entered' = Entered
      BY <2>5, <2>6 DEF Entered
    <3>2. QED
      BY <1>17, <3>1 DEF GatherView
  <2>8. QED
    BY <1>3, <2>7
<1>18. CASE \E u : HeardView(u)
  <2>1. PICK u : HeardView(u)
    BY <1>18
  <2>2. DOMAIN tasks' = DOMAIN tasks /\ stack' = stack /\ \A t \in DOMAIN tasks : tasks'[t].frames = tasks[t].frames
    BY <2>1 DEF HeardView
  <2>5. \A t \in DOMAIN tasks : {<<t, j>> : j \in 2 .. Len(tasks'[t].frames)} = {<<t, j>> : j \in 2 .. Len(tasks[t].frames)}
    BY <2>2
  <2>6. Entered' = UNION {{<<t, j>> : j \in 2 .. Len(tasks'[t].frames)} : t \in DOMAIN tasks}
    BY <2>2 DEF Entered, Fr
  <2>3. Entered' = Entered
    BY <2>5, <2>6 DEF Entered, Fr
  <2>4. QED
    BY <1>3, <2>2, <2>3
<1>19. CASE Install
  <2>1. tasks' = tasks /\ stack' = stack
    BY <1>19 DEF Install
  <2>2. Entered' = Entered
    BY <2>1 DEF Entered, Fr
  <2>3. QED
    BY <1>3, <2>1, <2>2
<1>20. FinishView => \E err \in BOOLEAN : Ends(err)
  BY DEF FinishView
<1>21. QED
  BY <1>13, <1>14, <1>15, <1>16, <1>17, <1>18, <1>19, <1>20, StepIs

\* When there is nothing to run, all tasks are over and the stack is empty.
LEMMA AllOver ==
  ASSUME Loops, Counted, ready = <<>>
  PROVE  stack = <<>> /\ outcome # "tracing" /\ \A t \in DOMAIN tasks : ~Live(t)
<1>1. tasks \in Seq(Tasks) /\ stack \in Seq(Stacked) /\ DOMAIN tasks = 1 .. Len(tasks) /\ Len(tasks) \in Nat
  BY DEF Loops, BuildType
<1>2. \A t : ~Queued(t)
  BY DEF Queued
<1>3. \A t \in DOMAIN tasks : ~Live(t)
  <2> DEFINE S == {t \in DOMAIN tasks : Live(t)}
  <2>1. SUFFICES ASSUME S # {} PROVE FALSE
    OBVIOUS
  <2>2. S \subseteq 1 .. Len(tasks) /\ Len(tasks) \in Nat
    BY <1>1
  <2> HIDE DEF S
  <2>3. PICK t \in S : \A s \in S : t >= s
    BY <2>1, <2>2, BoundedMax
  <2>4. t \in DOMAIN tasks /\ Suspended(t)
    BY <1>2 DEF S, Suspended
  <2>5. Owed(t) # {}
    BY <2>4 DEF Loops, GathersOK
  <2>6. PICK c : c \in Owed(t)
    BY <2>5
  <2>7. c \in DOMAIN tasks /\ c # 1 /\ tasks[c].up = t /\ Live(c)
    BY <1>2, <2>6 DEF Owed
  <2>8. t < c /\ c \in S /\ t \in S
    BY <2>7 DEF Loops, GathersOK, S
  <2>9. QED
    BY <2>2, <2>3, <2>8
<1>4. Entered = {}
  <2>1. \A t \in DOMAIN tasks : 2 .. Len(Fr(t)) = {}
    BY <1>3 DEF Live
  <2>2. QED
    BY <2>1, Zenon DEF Entered
<1>5. Len(stack) = 0
  BY <1>4, FS_EmptySet DEF Counted
<1>6. QED
  BY <1>1, <1>3, <1>5 DEF Loops, GathersOK

LEMMA KeptStart ==
  ASSUME BuildInit
  PROVE  Kept /\ Counted
<1>1. /\ stack = <<>>
      /\ tasks = <<[up |-> 1, left |-> 0, woken |-> FALSE, frames |-> <<Frame(tree.root, <<>>, 1)>>]>>
  BY DEF BuildInit
<1>2. DOMAIN tasks = {1} /\ tasks[1].woken = FALSE /\ Len(Fr(1)) = 1
  BY <1>1 DEF Fr
<1>3. Kept
  BY <1>2 DEF Kept
<1>4. Entered = {}
  <2>1. \A t \in DOMAIN tasks : Len(Fr(t)) = 1
    BY <1>2
  <2>2. 2 .. 1 = {}
    OBVIOUS
  <2>3. \A t \in DOMAIN tasks : 2 .. Len(Fr(t)) = {}
    BY <2>1, <2>2, Zenon
  <2>4. QED
    BY <2>3, Zenon DEF Entered
<1>5. Len(stack) = 0
  BY <1>1
<1>6. QED
  BY <1>3, <1>4, <1>5, FS_EmptySet DEF Counted

-----------------------------------------------------------------------------
(* Who was called *)

Seen == {nodes[k].agent : k \in DOMAIN nodes}
Pending(a, c) == \E t \in DOMAIN tasks : \E j \in DOMAIN Fr(t) : Fr(t)[j].agent = a /\ c \in ToSet(Fr(t)[j].todo)
Idle(a) == TaskRuns /\ Top.agent = a /\ Top.todo = <<>> /\ Bypassed

\* Until an error is on its way up, whoever was called takes what it is handed, and
\* each of its calls was made or is yet to be made; one that calls nothing is about
\* to be refused.
Called(a) ==
  /\ a \notin tree.bad
  /\ \A c \in ToSet(CallsOf(a)) : c \in Seen \/ Pending(a, c)
  /\ IsLeaf(a) \/ CallsOf(a) # <<>> \/ Idle(a)
SeenOK == tree.root \in Seen /\ (~Doomed => \A a \in Seen : Called(a))

\* What is to be called stays so unless it is called.
LEMMA CalledStays ==
  ASSUME tree' = tree, Seen \subseteq Seen', NEW a, Called(a), ~Idle(a),
         \A c : Pending(a, c) => Pending(a, c)' \/ c \in Seen'
  PROVE  Called(a)'
<1>1. CallsOf(a)' = CallsOf(a) /\ IsLeaf(a)' = IsLeaf(a)
  BY DEF CallsOf, IsLeaf
<1>2. \A c \in ToSet(CallsOf(a)) : c \in Seen' \/ Pending(a, c)'
  BY DEF Called
<1>3. a \notin tree'.bad /\ (IsLeaf(a)' \/ CallsOf(a)' # <<>>)
  BY <1>1 DEF Called
<1>4. ToSet(CallsOf(a))' = ToSet(CallsOf(a))
  BY <1>1 DEF ToSet
<1>5. QED
  BY <1>2, <1>3, <1>4 DEF Called

\* A call that is noted.
LEMMA SeenNotes ==
  ASSUME BuildType, NEW c \in Family, NEW site, Notes(c, site)
  PROVE  Seen' = Seen \cup {c}
<1> DEFINE n == Len(nodes)
<1>1. DOMAIN nodes = 1 .. n /\ n \in Nat
  BY DEF BuildType
<1>2. DOMAIN nodes' = 1 .. n + 1 /\ (\A k \in 1 .. n : nodes'[k] = nodes[k]) /\ nodes'[n + 1].agent = c
  BY <1>1 DEF Notes
<1> HIDE DEF n
<1>3. Seen' = {nodes'[k].agent : k \in 1 .. n + 1}
  BY <1>2 DEF Seen
<1>4. Seen = {nodes'[k].agent : k \in 1 .. n}
  BY <1>1, <1>2 DEF Seen
<1>5. 1 .. n + 1 = 1 .. n \cup {n + 1}
  BY <1>1
<1>6. QED
  BY <1>2, <1>3, <1>4, <1>5

\* What a call leaves to be called, by the tasks whose frames it does not change.
LEMMA PendingElsewhere ==
  ASSUME NEW a, NEW c, NEW t \in DOMAIN tasks, NEW j \in DOMAIN Fr(t), Fr(t)[j].agent = a, c \in ToSet(Fr(t)[j].todo),
         t \in DOMAIN tasks', j \in DOMAIN tasks'[t].frames, tasks'[t].frames[j] = Fr(t)[j]
  PROVE  Pending(a, c)'
BY DEF Pending, Fr

\* A task that goes on has the same to call but for what it has called.
LEMMA WorksPending ==
  ASSUME Loops, NEW fs, Works(fs), NEW a, NEW c, Pending(a, c)
  PROVE  Pending(a, c)' \/ (Top.agent = a /\ c \in ToSet(Top.todo))
<1> DEFINE n == Len(Fr(Me))
<1>1. PICK m : m = Me
  OBVIOUS
<1>2. /\ m \in DOMAIN tasks /\ n \in Nat \ {0} /\ Top = Fr(m)[n] /\ DOMAIN Fr(m) = 1 .. n
  BY <1>1, RunIs DEF Loops, Works
<1>3. /\ DOMAIN tasks' = DOMAIN tasks /\ (\A t \in DOMAIN tasks : t # m => tasks'[t] = tasks[t]) /\ tasks'[m].frames = fs
      /\ (\A j \in 1 .. n - 1 : fs[j] = Fr(m)[j]) /\ Len(fs) >= n - 1 /\ fs \in Seq(Frames)
  BY <1>1 DEF Works, Reframed
<1>4a. PICK t \in DOMAIN tasks : \E j \in DOMAIN Fr(t) : Fr(t)[j].agent = a /\ c \in ToSet(Fr(t)[j].todo)
  BY DEF Pending
<1>4. PICK j \in DOMAIN Fr(t) : Fr(t)[j].agent = a /\ c \in ToSet(Fr(t)[j].todo)
  BY <1>4a
<1>5. CASE t # m
  <2>1. tasks'[t].frames = Fr(t)
    BY <1>3, <1>5 DEF Fr
  <2>2. QED
    BY <1>3, <1>4, <2>1, PendingElsewhere
<1>6. CASE t = m /\ j # n
  <2>1. j \in 1 .. n - 1 /\ n - 1 \in Nat
    BY <1>2, <1>6
  <2> HIDE DEF n
  <2>2. j \in DOMAIN fs
    BY <1>3, <2>1
  <2>3. QED
    BY <1>3, <1>4, <1>6, <2>1, <2>2, PendingElsewhere
<1>7. CASE t = m /\ j = n
  BY <1>2, <1>4, <1>7
<1>8. QED
  BY <1>5, <1>6, <1>7

LEMMA SeenStep ==
  ASSUME Loops, Kept, SeenOK, BuildNext
  PROVE  SeenOK'
<1>1. BuildType /\ EntriesOK /\ GathersOK /\ tree' = tree /\ tree \in Trees
  BY TypeStep DEF Loops, BuildType
<1>2. ASSUME Seen \subseteq Seen',
             ~Doomed, ~Doomed' => \A a \in Seen' : Called(a)'
      PROVE  SeenOK'
  BY <1>1, <1>2 DEF SeenOK
<1>3. ASSUME Seen' = Seen, Doomed' PROVE SeenOK'
  BY <1>1, <1>3 DEF SeenOK
<1>4. ~Doomed' => ~Doomed
  BY DoomedStays
<1>5. ~Doomed' => \A a \in Seen : Called(a)
  BY <1>4 DEF SeenOK
<1>6. UNCHANGED nodes => Seen' = Seen
  BY DEF Seen
<1>7. ASSUME Seen \subseteq Seen', ~Doomed' => \A a \in Seen' : Called(a)' PROVE SeenOK'
  BY <1>1, <1>7 DEF SeenOK
<1>8. ASSUME NEW a, TaskRuns => Top.todo # <<>> \/ ~Bypassed PROVE ~Idle(a)
  BY <1>8 DEF Idle
<1>9. ASSUME NEW fs, LeafView(fs) \/ IntoView(fs) PROVE SeenOK'
  <2>1. /\ Works(fs) /\ TaskRuns /\ Top.todo # <<>> /\ Notes(Kid, KidSite) /\ Kid \notin tree.bad
        /\ fs[Len(Fr(Me))] = Advanced(Top) /\ Len(fs) >= Len(Fr(Me)) /\ ready' = ready
    BY <1>1, <1>9, RunIs DEF LeafView, IntoView, Works
  <2>2. /\ Kid \in Family /\ ToSet(Top.todo) = {Kid} \cup ToSet(Tail(Top.todo))
        /\ Advanced(Top).agent = Top.agent /\ Advanced(Top).todo = Tail(Top.todo)
    BY <1>1, <2>1, KidIs, AdvancedIs
  <2>3. Seen' = Seen \cup {Kid}
    BY <1>1, <2>1, <2>2, SeenNotes
  <2>4. \A a : ~Idle(a)
    BY <2>1, <1>8
  <2>5. PICK m : m = Me
    OBVIOUS
  <2>6. m \in DOMAIN tasks /\ Len(Fr(m)) \in Nat \ {0} /\ tasks'[m].frames = fs /\ fs \in Seq(Frames) /\ DOMAIN tasks' = DOMAIN tasks
    BY <1>1, <2>1, <2>5, RunIs DEF Works, Reframed
  <2>7. ASSUME NEW a, NEW c, Pending(a, c) PROVE Pending(a, c)' \/ c \in Seen'
    <3>1. CASE a = Top.agent /\ c \in ToSet(Top.todo) /\ c # Kid
      <4>1. a = Advanced(Top).agent /\ c \in ToSet(Advanced(Top).todo)
        BY <2>2, <3>1
      <4>2. Len(Fr(m)) \in DOMAIN fs /\ fs[Len(Fr(m))] = Advanced(Top)
        BY <2>1, <2>5, <2>6
      <4>3. QED
        BY <2>6, <4>1, <4>2 DEF Pending, Fr
    <3>2. QED
      BY <2>1, <2>3, <2>7, <3>1, WorksPending
  <2>8. \A a \in Seen : ~Doomed' => Called(a)'
    BY <1>1, <1>5, <2>3, <2>4, <2>7, CalledStays
  <2>9. PICK k : k = Kid
    OBVIOUS
  <2>10. CASE LeafView(fs)
    <3>1. IsLeaf(k)
      BY <2>9, <2>10 DEF LeafView
    <3>2. CallsOf(k) = <<>>
      BY <1>1, <2>2, <2>9, <3>1, TreeIs
    <3>3. IsLeaf(k)' /\ CallsOf(k)' = <<>> /\ k \notin tree'.bad
      BY <1>1, <2>1, <2>9, <3>1, <3>2 DEF IsLeaf, CallsOf
    <3>4. ToSet(CallsOf(k))' = {}
      BY <3>3 DEF ToSet
    <3>5. Called(k)'
      BY <3>3, <3>4 DEF Called
    <3>6. QED
      BY <1>7, <2>3, <2>8, <2>9, <3>5
  <2>11. CASE IntoView(fs)
    <3>1. PICK f : f = Frame(k, KidSite, Len(nodes) + 1)
      OBVIOUS
    <3>2. PICK n : n = Len(Fr(Me))
      OBVIOUS
    <3>3. /\ fs[n + 1] = f /\ Len(fs) = n + 1 /\ n \in Nat /\ n + 1 \in DOMAIN fs /\ fs # <<>>
          /\ ~IsLeaf(k) /\ k \in Family
      BY <2>2, <2>5, <2>6, <2>9, <2>11, <3>1, <3>2 DEF IntoView
    <3>4. f.agent = k /\ f.todo = CallsOf(k) /\ f.before = Len(nodes) + 1
      <4>1. KidSite \in Sites /\ Len(nodes) + 1 \in Nat
        BY <1>1, <2>1, KidIs DEF BuildType
      <4>2. QED
        BY <1>1, <3>1, <3>3, <4>1, FrameIs
    <3>5. CallsOf(k)' = CallsOf(k) /\ IsLeaf(k)' = IsLeaf(k) /\ k \notin tree'.bad
      BY <1>1, <2>1, <2>9 DEF CallsOf, IsLeaf
    <3>6. ToSet(CallsOf(k))' = ToSet(CallsOf(k))
      BY <3>5 DEF ToSet
    <3>7. \A c \in ToSet(CallsOf(k)) : Pending(k, c)'
      BY <2>6, <3>3, <3>4 DEF Pending, Fr
    <3>8. CallsOf(k) = <<>> => Idle(k)'
      <4>1. SUFFICES ASSUME CallsOf(k) = <<>> PROVE Idle(k)'
        OBVIOUS
      <4>2. Me' = m /\ TaskRuns'
        BY <2>1, <2>5 DEF Me, Now, TaskRuns
      <4>3. Top' = f
        <5>1. Top' = Last(fs)
          BY <2>6, <4>2 DEF Top
        <5>2. QED
          BY <3>3, <5>1 DEF Last
      <4>4. Len(nodes') = Len(nodes) + 1
        BY <2>1 DEF Notes
      <4>5. Bypassed'
        BY <1>1, <3>3, <3>4, <4>3, <4>4 DEF Bypassed, IsLeaf
      <4>6. QED
        BY <3>4, <4>1, <4>2, <4>3, <4>5 DEF Idle
    <3>9. Called(k)'
      BY <3>5, <3>6, <3>7, <3>8 DEF Called
    <3>10. QED
      BY <1>7, <2>3, <2>8, <2>9, <3>9
  <2>12. QED
    BY <1>9, <2>10, <2>11
<1>10. ASSUME UNCHANGED nodes, \A a : ~Idle(a), \A a, c : Pending(a, c) => Pending(a, c)' PROVE SeenOK'
  <2>1. Seen' = Seen
    BY <1>6, <1>10
  <2>2. \A a \in Seen : ~Doomed' => Called(a)'
    BY <1>1, <1>5, <1>10, <2>1, CalledStays
  <2>3. QED
    BY <1>7, <2>1, <2>2
<1>11. ASSUME NEW fs, PopView(fs) PROVE SeenOK'
  <2>1. Works(fs) /\ UNCHANGED nodes /\ Top.todo = <<>> /\ ~Bypassed
    BY <1>11 DEF PopView
  <2>2. ToSet(Top.todo) = {}
    BY <2>1 DEF ToSet
  <2>3. \A a, c : Pending(a, c) => Pending(a, c)'
    BY <2>1, <2>2, WorksPending
  <2>4. QED
    BY <1>8, <1>10, <2>1, <2>3
<1>12. ASSUME Ends(TRUE) PROVE SeenOK'
  <2>1. UNCHANGED nodes
    BY <1>12 DEF Ends
  <2>2. QED
    BY <1>3, <1>6, <1>12, <2>1, RaiseDooms
<1>13. ASSUME FinishView PROVE SeenOK'
  <2>1. /\ UNCHANGED nodes /\ Top.todo = <<>> /\ ~Bypassed /\ Len(Fr(Me)) = 1 /\ TaskRuns
        /\ DOMAIN tasks' = DOMAIN tasks /\ (\A t \in DOMAIN tasks : t # Me => tasks'[t] = tasks[t])
    BY <1>13 DEF FinishView, Ends, Reframed
  <2>2. DOMAIN Fr(Me) = {1} /\ Top = Fr(Me)[1]
    BY <1>1, <2>1, RunIs
  <2>3. ASSUME NEW a, NEW c, Pending(a, c) PROVE Pending(a, c)'
    <3>1a. PICK t \in DOMAIN tasks : \E j \in DOMAIN Fr(t) : Fr(t)[j].agent = a /\ c \in ToSet(Fr(t)[j].todo)
      BY <2>3 DEF Pending
    <3>1. PICK j \in DOMAIN Fr(t) : Fr(t)[j].agent = a /\ c \in ToSet(Fr(t)[j].todo)
      BY <3>1a
    <3>2. t # Me
      BY <2>1, <2>2, <3>1 DEF ToSet
    <3>3. tasks'[t].frames = Fr(t)
      BY <2>1, <3>2 DEF Fr
    <3>4. QED
      BY <2>1, <3>1, <3>3, PendingElsewhere
  <2>4. QED
    BY <1>8, <1>10, <2>1, <2>3
<1>14. ASSUME GatherView PROVE SeenOK'
  <2>1. PICK m : m = Me
    OBVIOUS
  <2>2. PICK N : N = Fresh
    OBVIOUS
  <2>3. /\ DOMAIN tasks' = DOMAIN tasks \cup N /\ m \in DOMAIN tasks /\ \A i \in 1 .. Len(Top.todo) : Len(tasks) + i \in N
    BY <1>14, <2>1, <2>2, GatherLoop
  <2>4. /\ UNCHANGED nodes /\ Top.todo # <<>> /\ TaskRuns
        /\ (\A t \in DOMAIN tasks : t # m => tasks'[t] = tasks[t])
        /\ Len(tasks'[m].frames) = Len(Fr(m)) /\ tasks' \in Seq(Tasks)
        /\ \A j \in 1 .. Len(Fr(m)) - 1 : tasks'[m].frames[j] = Fr(m)[j]
    BY <1>14, <2>1 DEF GatherView
  <2>5. /\ Len(Fr(m)) \in Nat \ {0} /\ Top = Fr(m)[Len(Fr(m))] /\ DOMAIN Fr(m) = 1 .. Len(Fr(m)) /\ Top \in Frames
    BY <1>1, <2>1, <2>4, RunIs
  <2>6. Top.todo \in Seq(Family)
    BY <2>5 DEF Frames
  <2>7. DOMAIN tasks'[m].frames = DOMAIN Fr(m)
    <3>0. tasks' \in Seq(Tasks) /\ m \in DOMAIN tasks'
      <4>1. tasks' \in Seq(Tasks)
        BY <2>4
      <4>2. m \in DOMAIN tasks'
        BY <2>3
      <4>3. QED
        BY <4>1, <4>2
    <3>1. tasks'[m] \in Tasks
      BY <3>0
    <3>2. tasks'[m].frames \in Seq(Frames)
      BY <3>1 DEF Tasks
    <3>3. QED
      BY <2>4, <2>5, <3>2
  <2>8. ASSUME NEW a, NEW c, Pending(a, c) PROVE Pending(a, c)'
    <3>1a. PICK t \in DOMAIN tasks : \E j \in DOMAIN Fr(t) : Fr(t)[j].agent = a /\ c \in ToSet(Fr(t)[j].todo)
      BY <2>8 DEF Pending
    <3>1. PICK j \in DOMAIN Fr(t) : Fr(t)[j].agent = a /\ c \in ToSet(Fr(t)[j].todo)
      BY <3>1a
    <3>2. CASE t # m \/ j # Len(Fr(m))
      <4>1. t \in DOMAIN tasks' /\ j \in DOMAIN tasks'[t].frames /\ tasks'[t].frames[j] = Fr(t)[j]
        <5>1. CASE t # m
          BY <2>3, <2>4, <5>1 DEF Fr
        <5>2. CASE t = m /\ j # Len(Fr(m))
          <6>1. j \in 1 .. Len(Fr(m)) - 1
            BY <2>5, <5>2
          <6>2. QED
            BY <2>3, <2>4, <2>7, <5>2, <6>1
        <5>3. QED
          BY <3>2, <5>1, <5>2
      <4>2. QED
        BY <3>1, <4>1, PendingElsewhere
    <3>3. CASE t = m /\ j = Len(Fr(m))
      <4>1. a = Top.agent /\ c \in ToSet(Top.todo)
        BY <2>5, <3>1, <3>3
      <4>2. PICK i \in 1 .. Len(Top.todo) : Top.todo[i] = c
        BY <2>6, <4>1 DEF ToSet
      <4>3. PICK f : f = [agent |-> Top.agent, site |-> Top.site, todo |-> <<Top.todo[i]>>, before |-> Top.before, spreads |-> FALSE]
        OBVIOUS
      <4>4. tasks'[Len(tasks) + i] = [up |-> Me, left |-> 0, woken |-> FALSE, frames |-> <<f>>]
        BY <1>14, <4>3 DEF GatherView
      <4>5. tasks'[Len(tasks) + i].frames = <<f>> /\ f.agent = a /\ f.todo = <<c>>
        <5>1. tasks'[Len(tasks) + i].frames = <<f>>
          BY <4>4
        <5>2. f.agent = a /\ f.todo = <<c>>
          BY <4>1, <4>2, <4>3
        <5>3. QED
          BY <5>1, <5>2
      <4>6. c \in ToSet(f.todo) /\ 1 \in DOMAIN tasks'[Len(tasks) + i].frames /\ tasks'[Len(tasks) + i].frames[1] = f
        BY <4>5 DEF ToSet
      <4>7. Len(tasks) + i \in DOMAIN tasks'
        BY <2>3
      <4>8. QED
        BY <4>5, <4>6, <4>7 DEF Pending, Fr
    <3>4. QED
      BY <3>2, <3>3
  <2>9. QED
    BY <1>8, <1>10, <2>4, <2>8
<1>15. ASSUME NEW u, HeardView(u) PROVE SeenOK'
  <2>1. /\ UNCHANGED nodes /\ Now.what = "done" /\ DOMAIN tasks' = DOMAIN tasks
        /\ \A t \in DOMAIN tasks : tasks'[t].frames = Fr(t)
    BY <1>15 DEF HeardView, Fr
  <2>2. \A a, c : Pending(a, c) => Pending(a, c)'
    BY <2>1 DEF Pending, Fr
  <2>3. ~TaskRuns
    BY <2>1 DEF TaskRuns
  <2>4. QED
    BY <1>8, <1>10, <2>1, <2>2, <2>3
<1>16. ASSUME Install PROVE SeenOK'
  <2>1. tree' = tree /\ tasks' = tasks /\ nodes' = nodes /\ ready' = ready
    BY <1>16 DEF Install
  <2>2. Seen' = Seen /\ \A a : Idle(a)' = Idle(a) /\ CallsOf(a)' = CallsOf(a) /\ IsLeaf(a)' = IsLeaf(a)
    BY <2>1 DEF Seen, Idle, TaskRuns, Now, Top, Me, Bypassed, IsLeaf, CallsOf
  <2>3. \A a, c : Pending(a, c)' = Pending(a, c)
    BY <2>1 DEF Pending, Fr
  <2>4. \A a : ToSet(CallsOf(a))' = ToSet(CallsOf(a))
    BY <2>2 DEF ToSet
  <2>5. \A a : Called(a)' <=> Called(a)
    BY <2>1, <2>2, <2>3, <2>4 DEF Called
  <2>6. QED
    BY <1>5, <1>7, <2>2, <2>5
<1>17. QED
  BY <1>9, <1>11, <1>12, <1>13, <1>14, <1>15, <1>16, StepIs

LEMMA SeenStart ==
  ASSUME BuildInit
  PROVE  SeenOK
<1>1. /\ tree \in Trees
      /\ nodes = <<[path |-> <<>>, agent |-> tree.root, site |-> <<>>]>>
      /\ tasks = <<[up |-> 1, left |-> 0, woken |-> FALSE, frames |-> <<Frame(tree.root, <<>>, 1)>>]>>
      /\ ready = <<Entry("run", 1, FALSE)>>
  BY DEF BuildInit
<1>2. tree.root \in Family /\ tree.root \notin tree.bad /\ <<>> \in Sites
  BY <1>1, TreeIs DEF Sites
<1>3. PICK f : f = Frame(tree.root, <<>>, 1)
  OBVIOUS
<1>4. f.agent = tree.root /\ f.todo = CallsOf(tree.root) /\ f.before = 1
  BY <1>1, <1>2, <1>3, FrameIs
<1>5. Seen = {tree.root} /\ Len(nodes) = 1
  <2>1. DOMAIN nodes = {1} /\ nodes[1].agent = tree.root /\ Len(nodes) = 1
    BY <1>1
  <2>2. QED
    BY <2>1 DEF Seen
<1>6. 1 \in DOMAIN tasks /\ Fr(1) = <<f>> /\ 1 \in DOMAIN Fr(1) /\ Fr(1)[1] = f
  <2>1. tasks = <<[up |-> 1, left |-> 0, woken |-> FALSE, frames |-> <<f>>]>>
    BY <1>1, <1>3
  <2>2. QED
    BY <2>1 DEF Fr
<1>7. \A c \in ToSet(CallsOf(tree.root)) : Pending(tree.root, c)
  BY <1>4, <1>6 DEF Pending
<1>8. CallsOf(tree.root) = <<>> => IsLeaf(tree.root) \/ Idle(tree.root)
  <2>1. Now = Entry("run", 1, FALSE) /\ ready # <<>>
    BY <1>1 DEF Now
  <2>2. Me = 1 /\ TaskRuns
    <3>1. Now.what = "run" /\ Now.task = 1
      BY <2>1 DEF Entry
    <3>2. QED
      BY <2>1, <3>1 DEF Me, TaskRuns
  <2>3. Top = f
    BY <1>6, <2>2 DEF Top, Last, Fr
  <2>4. QED
    BY <1>4, <1>5, <2>2, <2>3 DEF Idle, Bypassed
<1>9. QED
  BY <1>2, <1>5, <1>7, <1>8 DEF SeenOK, Called

-----------------------------------------------------------------------------
(* The trace ends *)

TraceInv == Loops /\ Kept /\ Counted /\ SeenOK

LEMMA TraceInvStart == BuildInit => TraceInv
BY LoopsStart, KeptStart, SeenStart DEF TraceInv

LEMMA TraceInvStep ==
  ASSUME TraceInv, BuildNext
  PROVE  TraceInv'
BY LoopsStep, KeptStep, CountedStep, SeenStep DEF TraceInv

\* A trace that ended well has called all that the root leads to.
LEMMA AllCalled ==
  ASSUME TraceInv, ready = <<>>, outcome # "failed"
  PROVE  \A a \in Within(tree.root) : a \in Seen /\ a \notin tree.bad /\ (IsLeaf(a) \/ CallsOf(a) # <<>>)
<1>1. tree \in Trees /\ tree.root \in Family /\ tree.root \in Seen
  BY TreeIs DEF TraceInv, Loops, BuildType, SeenOK
<1>2. ~Doomed
  BY DEF Doomed, Raised
<1>3. \A t \in DOMAIN tasks : ~Live(t)
  BY AllOver DEF TraceInv
<1>4. \A a, c : ~Pending(a, c)
  <2>1. \A t \in DOMAIN tasks : DOMAIN Fr(t) = {}
    BY <1>3 DEF Live
  <2>2. QED
    BY <2>1 DEF Pending
<1>5. \A a : ~Idle(a)
  BY DEF Idle, TaskRuns
<1>6. \A a \in Seen : Called(a)
  BY <1>2 DEF TraceInv, SeenOK
<1>7. \A a \in Seen : a \notin tree.bad /\ (IsLeaf(a) \/ CallsOf(a) # <<>>) /\ ToSet(CallsOf(a)) \subseteq Seen
  BY <1>4, <1>5, <1>6 DEF Called
<1>8. Within(tree.root) \subseteq Seen
  BY <1>1, <1>7, WithinIs
<1>9. QED
  BY <1>7, <1>8

LEMMA TraceEndsHolds ==
  ASSUME TraceInv
  PROVE  TraceEnds
BY AllOver, AllCalled DEF TraceEnds, TraceInv

LEMMA TraceRests ==
  ASSUME TraceInv, UNCHANGED buildvars
  PROVE  TraceInv'
<1>1. tree' = tree /\ ready' = ready /\ tasks' = tasks /\ stack' = stack /\ nodes' = nodes /\ outcome' = outcome
  BY DEF buildvars
<1>2. \A t : /\ Fr(t)' = Fr(t) /\ (Live(t)' <=> Live(t)) /\ (Queued(t)' <=> Queued(t)) /\ Owed(t)' = Owed(t)
            /\ (Suspended(t)' <=> Suspended(t))
  BY <1>1 DEF Fr, Live, Queued, Owed, Suspended
<1>3. BuildType' /\ EntriesOK' /\ GathersOK'
  <2>1. BuildType' = BuildType
    BY <1>1 DEF BuildType, Queue, Tasks, Stacked, Noted, Frames, Sites, Family
  <2>2. EntriesOK' /\ GathersOK'
    BY <1>1, <1>2 DEF EntriesOK, GathersOK, TraceInv, Loops
  <2>3. QED
    BY <2>1, <2>2 DEF TraceInv, Loops
<1>4. Doomed' <=> Doomed
  BY <1>1 DEF Doomed, Raised, Suspended, Live, Queued, Fr
<1>5. Kept' /\ Counted'
  <2>1. Entered' = Entered
    BY <1>1 DEF Entered, Fr
  <2>2. QED
    BY <1>1, <1>2, <1>4, <2>1 DEF Kept, Counted, TraceInv
<1>6. SeenOK'
  <2>1. Seen' = Seen /\ \A a : Idle(a)' = Idle(a) /\ CallsOf(a)' = CallsOf(a) /\ IsLeaf(a)' = IsLeaf(a)
    BY <1>1 DEF Seen, Idle, TaskRuns, Now, Top, Me, Bypassed, IsLeaf, CallsOf
  <2>2. \A a, c : Pending(a, c)' = Pending(a, c)
    BY <1>1 DEF Pending, Fr
  <2>3. \A a : ToSet(CallsOf(a))' = ToSet(CallsOf(a))
    BY <2>1 DEF ToSet
  <2>4. \A a : Called(a)' <=> Called(a)
    BY <1>1, <2>1, <2>2, <2>3 DEF Called
  <2>5. QED
    BY <1>1, <1>4, <2>1, <2>4 DEF SeenOK, TraceInv
<1>7. QED
  BY <1>3, <1>5, <1>6 DEF TraceInv, Loops

-----------------------------------------------------------------------------
(* Where forwards are *)

LEMMA TreeStays ==
  ASSUME tree' = tree
  PROVE  /\ Family' = Family /\ Paths' = Paths /\ (Calm' <=> Calm)
         /\ \A a : CallsOf(a)' = CallsOf(a) /\ (IsLeaf(a)' <=> IsLeaf(a)) /\ Within(a)' = Within(a) /\ AgentAt(a)' = AgentAt(a)
<1>1. \A a : Within(a)' = Within(a)
  BY DEF Within, CallsOf
<1>2. \A a : CallsOf(a)' = CallsOf(a) /\ (IsLeaf(a)' <=> IsLeaf(a)) /\ AgentAt(a)' = AgentAt(a)
  BY DEF CallsOf, IsLeaf, AgentAt
<1>3. Calm' <=> Calm
  BY <1>1, <1>2 DEF Calm
<1>4. Paths' = Paths /\ Family' = Family
  BY DEF Paths, Family
<1>5. QED
  BY <1>1, <1>2, <1>3, <1>4

\* The agents of nodes and forwards are where their sites say; what gathers has all
\* its calls yet to make or none, and its tasks gather no more for it.
FrameOK(f, t, j) ==
  /\ f.agent \in Seen /\ f.site \in Paths /\ AgentAt(f.site) = f.agent
  /\ ToSet(f.todo) \subseteq ToSet(CallsOf(f.agent))
  /\ f.spreads => f.todo = CallsOf(f.agent) \/ f.todo = <<>>
  /\ t # 1 /\ j = 1 => ~f.spreads /\ tree.kind[f.agent] = "gather"
  /\ t = 1 \/ j # 1 => (f.spreads <=> tree.kind[f.agent] = "gather")
FramesOK ==
  \A t \in DOMAIN tasks : \A j \in DOMAIN Fr(t) :
    FrameOK(Fr(t)[j], t, j) /\ Len(Fr(t)[j].site) = Len(Fr(t)[1].site) + (j - 1)
NodesOK ==
  \A k \in DOMAIN nodes :
    nodes[k].agent \in Within(tree.root) /\ nodes[k].site \in Paths /\ AgentAt(nodes[k].site) = nodes[k].agent

\* A forward after a step: as before, the one that ran, one that was entered or one
\* that a gather handed to a task.
HandedOf(i) == [agent |-> Top.agent, site |-> Top.site, todo |-> <<Top.todo[i]>>, before |-> Top.before, spreads |-> FALSE]
Stayed(t, j, g) == t \in DOMAIN tasks /\ j \in DOMAIN Fr(t) /\ g = Fr(t)[j]
WentOn(t, j, g) ==
  /\ TaskRuns /\ t = Me /\ j = Len(Fr(Me)) /\ Top.todo # <<>>
  /\ \/ g = Advanced(Top) /\ ~Top.spreads
     \/ g = Spent(Top) /\ Top.spreads
WasEntered(t, j, g) ==
  /\ TaskRuns /\ t = Me /\ j = Len(Fr(Me)) + 1 /\ Top.todo # <<>> /\ ~Top.spreads
  /\ ~IsLeaf(Kid) /\ Kid \in Seen' /\ g = Frame(Kid, KidSite, Len(nodes) + 1)
WasHanded(t, j, g) ==
  /\ TaskRuns /\ t \notin DOMAIN tasks /\ j = 1 /\ Top.todo # <<>> /\ Top.spreads
  /\ \E i \in 1 .. Len(Top.todo) : t = Len(tasks) + i /\ g = HandedOf(i)
Moved(t, j, g) == Stayed(t, j, g) \/ WentOn(t, j, g) \/ WasEntered(t, j, g) \/ WasHanded(t, j, g)

LEMMA MovesAre ==
  ASSUME Loops, BuildNext
  PROVE  \A t \in DOMAIN tasks' : \A j \in DOMAIN tasks'[t].frames : Moved(t, j, tasks'[t].frames[j])
<1>1. BuildType /\ EntriesOK /\ GathersOK
  BY DEF Loops
<1>2. ASSUME NEW t \in DOMAIN tasks, tasks'[t].frames = Fr(t)
      PROVE  \A j \in DOMAIN tasks'[t].frames : Moved(t, j, tasks'[t].frames[j])
  BY <1>2 DEF Moved, Stayed
<1>3. ASSUME NEW fs, LeafView(fs) \/ IntoView(fs) \/ PopView(fs), NEW t \in DOMAIN tasks', NEW j \in DOMAIN tasks'[t].frames
      PROVE  Moved(t, j, tasks'[t].frames[j])
  <2>1. Works(fs)
    BY <1>3 DEF LeafView, IntoView, PopView
  <2>2. PICK m : m = Me
    OBVIOUS
  <2>3. PICK n : n = Len(Fr(Me))
    OBVIOUS
  <2>4. /\ m \in DOMAIN tasks /\ n \in Nat \ {0} /\ DOMAIN Fr(m) = 1 .. n /\ TaskRuns
        /\ DOMAIN tasks' = DOMAIN tasks /\ (\A s \in DOMAIN tasks : s # m => tasks'[s] = tasks[s]) /\ tasks'[m].frames = fs
        /\ (\A i \in 1 .. n - 1 : fs[i] = Fr(m)[i]) /\ fs \in Seq(Frames) /\ DOMAIN fs = 1 .. Len(fs)
    BY <1>1, <2>1, <2>2, <2>3, RunIs DEF Works, Reframed
  <2>5. CASE t # m
    BY <1>2, <2>4, <2>5 DEF Fr
  <2>6. CASE t = m /\ j \in 1 .. n - 1
    <3>1. j \in DOMAIN Fr(m)
      BY <2>4, <2>6
    <3>2. QED
      BY <2>4, <2>6, <3>1 DEF Moved, Stayed
  <2>7. CASE t = m /\ j \notin 1 .. n - 1
    <3>1. j = n \/ (j = n + 1 /\ IntoView(fs))
      <4>1. Len(fs) = n \/ (Len(fs) = n + 1 /\ IntoView(fs)) \/ Len(fs) = n - 1
        BY <1>3, <2>3 DEF LeafView, IntoView, PopView
      <4>2. j \in 1 .. Len(fs)
        BY <2>4, <2>7
      <4>3. n \in Nat \ {0} /\ j \notin 1 .. n - 1
        BY <2>4, <2>7
      <4>4. n \in Nat \ {0} /\ j \notin 1 .. n - 1 /\ j \in 1 .. n + 1 => j = n \/ j = n + 1
        OBVIOUS
      <4>5. n \in Nat /\ j \in 1 .. n => j \in 1 .. n + 1 /\ j # n + 1
        OBVIOUS
      <4>6. n \in Nat /\ j \in 1 .. n - 1 => j \in 1 .. n + 1
        OBVIOUS
      <4>7. CASE Len(fs) = n
        BY <4>2, <4>3, <4>4, <4>5, <4>7
      <4>8. CASE Len(fs) = n + 1 /\ IntoView(fs)
        BY <4>2, <4>3, <4>4, <4>8
      <4>9. CASE Len(fs) = n - 1
        BY <4>2, <4>3, <4>9
      <4>10. QED
        BY <4>1, <4>7, <4>8, <4>9
    <3>2. ~PopView(fs)
      <4>1. PopView(fs) => Len(fs) = n - 1
        BY <2>3 DEF PopView
      <4>2. QED
        BY <2>4, <2>7, <4>1
    <3>3. /\ Top.todo # <<>> /\ ~Top.spreads /\ fs[n] = Advanced(Top)
      BY <1>3, <2>3, <3>2 DEF LeafView, IntoView
    <3>4. CASE j = n
      BY <2>2, <2>3, <2>4, <2>7, <3>3, <3>4 DEF Moved, WentOn
    <3>5. CASE j = n + 1 /\ IntoView(fs)
      <4>1. ~IsLeaf(Kid) /\ fs[n + 1] = Frame(Kid, KidSite, Len(nodes) + 1) /\ Notes(Kid, KidSite)
        BY <2>3, <3>5 DEF IntoView
      <4>2. Kid \in Seen'
        BY <1>1, <2>4, <3>3, <4>1, KidIs, SeenNotes
      <4>3. QED
        BY <2>2, <2>3, <2>4, <2>7, <3>3, <3>5, <4>1, <4>2 DEF Moved, WasEntered
    <3>6. QED
      BY <3>1, <3>4, <3>5
  <2>8. QED
    BY <2>5, <2>6, <2>7
<1>4. ASSUME NEW err \in BOOLEAN, Ends(err), NEW t \in DOMAIN tasks', NEW j \in DOMAIN tasks'[t].frames
      PROVE  Moved(t, j, tasks'[t].frames[j])
  <2>1. /\ DOMAIN tasks' = DOMAIN tasks /\ tasks'[Me].frames = <<>>
        /\ (\A s \in DOMAIN tasks : s # Me => tasks'[s] = tasks[s])
    BY <1>4 DEF Ends, Reframed
  <2>2. t # Me
    BY <1>4, <2>1
  <2>3. QED
    BY <1>2, <1>4, <2>1, <2>2 DEF Fr
<1>5. ASSUME GatherView, NEW t \in DOMAIN tasks', NEW j \in DOMAIN tasks'[t].frames
      PROVE  Moved(t, j, tasks'[t].frames[j])
  <2>1. PICK m : m = Me
    OBVIOUS
  <2>2. PICK N : N = Fresh
    OBVIOUS
  <2>3. PICK n : n = Len(Fr(Me))
    OBVIOUS
  <2>4. /\ DOMAIN tasks' = DOMAIN tasks \cup N /\ m \in DOMAIN tasks /\ DOMAIN tasks \cap N = {}
        /\ \A s \in N : \E i \in 1 .. Len(Top.todo) : s = Len(tasks) + i
    BY <1>5, <2>1, <2>2, GatherLoop
  <2>5. /\ TaskRuns /\ Top.todo # <<>> /\ Top.spreads
        /\ (\A s \in DOMAIN tasks : s # m => tasks'[s] = tasks[s])
        /\ Len(tasks'[m].frames) = n /\ tasks'[m].frames[n] = Spent(Top)
        /\ \A i \in 1 .. n - 1 : tasks'[m].frames[i] = Fr(m)[i]
    BY <1>5, <2>1, <2>3 DEF GatherView
  <2>6. n \in Nat \ {0} /\ DOMAIN Fr(m) = 1 .. n
    BY <1>1, <2>1, <2>3, <2>5, RunIs
  <2>7. CASE t \in DOMAIN tasks /\ t # m
    BY <1>2, <1>5, <2>5, <2>7 DEF Fr
  <2>8. CASE t = m
    <3>1. DOMAIN tasks'[m].frames = 1 .. n
      <4>1. tasks' \in Seq(Tasks)
        BY <1>5 DEF GatherView
      <4>2. m \in DOMAIN tasks'
        BY <2>4
      <4>3. tasks'[m] \in Tasks
        BY <4>1, <4>2
      <4>4. tasks'[m].frames \in Seq(Frames)
        BY <4>3 DEF Tasks
      <4>5. QED
        BY <2>5, <4>4
    <3>2. j \in 1 .. n - 1 \/ j = n
      BY <1>5, <2>6, <2>8, <3>1
    <3>3. CASE j \in 1 .. n - 1
      <4>1. j \in DOMAIN Fr(m)
        BY <2>6, <3>3
      <4>2. QED
        BY <2>4, <2>5, <2>8, <3>3, <4>1 DEF Moved, Stayed
    <3>4. CASE j = n
      BY <2>1, <2>3, <2>5, <2>8, <3>4 DEF Moved, WentOn
    <3>5. QED
      BY <3>2, <3>3, <3>4
  <2>9. CASE t \in N
    <3>1. PICK i \in 1 .. Len(Top.todo) : t = Len(tasks) + i
      BY <2>4, <2>9
    <3>2. PICK f : f = HandedOf(i)
      OBVIOUS
    <3>3. tasks'[t] = [up |-> Me, left |-> 0, woken |-> FALSE, frames |-> <<f>>]
      BY <1>5, <3>1, <3>2 DEF GatherView, HandedOf
    <3>4. tasks'[t].frames = <<f>>
      BY <3>3
    <3>5. j = 1 /\ tasks'[t].frames[j] = f
      BY <1>5, <3>4
    <3>6. t \notin DOMAIN tasks
      BY <2>4, <2>9
    <3>7. WasHanded(t, j, f)
      BY <2>5, <3>1, <3>2, <3>5, <3>6 DEF WasHanded
    <3>8. QED
      BY <3>5, <3>7 DEF Moved
  <2>10. QED
    BY <1>5, <2>4, <2>7, <2>8, <2>9
<1>6. ASSUME NEW u, HeardView(u), NEW t \in DOMAIN tasks', NEW j \in DOMAIN tasks'[t].frames
      PROVE  Moved(t, j, tasks'[t].frames[j])
  <2>1. DOMAIN tasks' = DOMAIN tasks /\ \A s \in DOMAIN tasks : tasks'[s].frames = Fr(s)
    BY <1>6 DEF HeardView, Fr
  <2>2. QED
    BY <1>2, <1>6, <2>1
<1>7. ASSUME Install, NEW t \in DOMAIN tasks', NEW j \in DOMAIN tasks'[t].frames
      PROVE  Moved(t, j, tasks'[t].frames[j])
  <2>1. tasks' = tasks
    BY <1>7 DEF Install
  <2>2. QED
    BY <1>2, <1>7, <2>1 DEF Fr
<1>8. FinishView => \E err \in BOOLEAN : Ends(err)
  BY DEF FinishView
<1>9. Ends(TRUE) => \E err \in BOOLEAN : Ends(err)
  OBVIOUS
<1>10. CASE \E fs : LeafView(fs) \/ IntoView(fs) \/ PopView(fs)
  BY <1>3, <1>10
<1>11. CASE \E err \in BOOLEAN : Ends(err)
  BY <1>4, <1>11
<1>12. CASE GatherView
  BY <1>5, <1>12
<1>13. CASE \E u : HeardView(u)
  BY <1>6, <1>13
<1>14. CASE Install
  BY <1>7, <1>14
<1>15. QED
  BY <1>8, <1>9, <1>10, <1>11, <1>12, <1>13, <1>14, StepIs

LEMMA FirstStays ==
  ASSUME Loops, BuildNext, NEW t \in DOMAIN tasks, t \in DOMAIN tasks', Live(t)'
  PROVE  /\ Live(t) /\ 1 \in DOMAIN Fr(t) /\ 1 \in DOMAIN tasks'[t].frames
         /\ tasks'[t].frames[1].agent = Fr(t)[1].agent /\ tasks'[t].frames[1].site = Fr(t)[1].site
<1>1. BuildType /\ EntriesOK /\ BuildType'
  BY TypeStep DEF Loops
<1>2. 1 \in DOMAIN tasks'[t].frames
  <2>1. tasks'[t] \in Tasks'
    BY <1>1 DEF BuildType
  <2>2. tasks'[t].frames \in Seq(Frames')
    BY <2>1 DEF Tasks
  <2>3. tasks'[t].frames # <<>>
    BY DEF Live, Fr
  <2>4. QED
    BY <2>2, <2>3
<1>3. Moved(t, 1, tasks'[t].frames[1])
  BY <1>2, MovesAre
<1>4. PICK g : g = tasks'[t].frames[1]
  OBVIOUS
<1>5. CASE Stayed(t, 1, g)
  BY <1>2, <1>4, <1>5 DEF Stayed, Live
<1>6. CASE WentOn(t, 1, g)
  <2>1. /\ TaskRuns /\ t = Me /\ Len(Fr(Me)) = 1 /\ (g = Advanced(Top) \/ g = Spent(Top))
    BY <1>6 DEF WentOn
  <2>2. Live(Me) /\ Top = Fr(Me)[1] /\ 1 \in DOMAIN Fr(Me)
    BY <1>1, <2>1, RunIs
  <2>3. g.agent = Top.agent /\ g.site = Top.site
    BY <1>1, <2>1, AdvancedIs
  <2>4. QED
    BY <1>2, <1>4, <2>1, <2>2, <2>3
<1>7. ~WasEntered(t, 1, g)
  <2>1. SUFFICES ASSUME WasEntered(t, 1, g) PROVE FALSE
    OBVIOUS
  <2>2. TaskRuns /\ 1 = Len(Fr(Me)) + 1
    BY <2>1 DEF WasEntered
  <2>3. Len(Fr(Me)) \in Nat \ {0}
    BY <1>1, <2>2, RunIs
  <2>4. QED
    BY <2>2, <2>3
<1>8. ~WasHanded(t, 1, g)
  BY DEF WasHanded
<1>9. QED
  BY <1>3, <1>4, <1>5, <1>6, <1>7, <1>8 DEF Moved

LEMMA SeenGrows ==
  ASSUME Loops, BuildNext
  PROVE  Seen \subseteq Seen' /\ \A k \in DOMAIN nodes : k \in DOMAIN nodes' /\ nodes'[k] = nodes[k]
<1>1. BuildType /\ EntriesOK
  BY DEF Loops
<1>2. SUFFICES \A k \in DOMAIN nodes : k \in DOMAIN nodes' /\ nodes'[k] = nodes[k]
  BY DEF Seen
<1>3. CASE UNCHANGED nodes
  BY <1>3
<1>4. ASSUME NEW c, NEW s, Notes(c, s) PROVE \A k \in DOMAIN nodes : k \in DOMAIN nodes' /\ nodes'[k] = nodes[k]
  <2>1. nodes \in Seq(Noted) /\ nodes' \in Seq(Noted) /\ Len(nodes') = Len(nodes) + 1 /\ \A k \in DOMAIN nodes : nodes'[k] = nodes[k]
    BY <1>1, <1>4 DEF BuildType, Notes
  <2>2. QED
    BY <2>1
<1>5. UNCHANGED nodes \/ Notes(Kid, KidSite)
  <2>1. \A fs : LeafView(fs) \/ IntoView(fs) => Notes(Kid, KidSite)
    BY DEF LeafView, IntoView
  <2>2. \A fs : PopView(fs) => UNCHANGED nodes
    BY DEF PopView
  <2>3. Ends(TRUE) \/ FinishView \/ GatherView \/ (\E u : HeardView(u)) \/ Install => UNCHANGED nodes
    BY DEF Ends, FinishView, GatherView, HeardView, Install
  <2>4. QED
    BY <2>1, <2>2, <2>3, StepIs
<1>6. QED
  BY <1>3, <1>4, <1>5

LEMMA FrameStays ==
  ASSUME tree' = tree, Seen \subseteq Seen', NEW f, NEW t, NEW j, FrameOK(f, t, j)
  PROVE  FrameOK(f, t, j)'
<1>1. Paths' = Paths /\ AgentAt(f.site)' = AgentAt(f.site) /\ CallsOf(f.agent)' = CallsOf(f.agent)
  BY TreeStays
<1>2. ToSet(CallsOf(f.agent))' = ToSet(CallsOf(f.agent)) /\ ToSet(f.todo)' = ToSet(f.todo)
  BY <1>1 DEF ToSet
<1>3. QED
  BY <1>1, <1>2 DEF FrameOK

\* The forward that runs.
LEMMA TopIs ==
  ASSUME Loops, FramesOK, TaskRuns
  PROVE  /\ FrameOK(Top, Me, Len(Fr(Me))) /\ Top \in Frames /\ Top.agent \in Family /\ Top.todo \in Seq(Family) /\ Top.site \in Sites
         /\ Len(Top.site) = Len(Fr(Me)[1].site) + (Len(Fr(Me)) - 1)
         /\ Top.spreads => /\ tree.kind[Top.agent] = "gather" /\ (Me = 1 \/ Len(Fr(Me)) # 1)
                           /\ Top.todo # <<>> => Top.todo = CallsOf(Top.agent)
         /\ Top.todo # <<>> => /\ Kid \in ToSet(CallsOf(Top.agent)) /\ Kid \in Family /\ KidSite \in Sites
                               /\ KidSite \in Paths /\ AgentAt(KidSite) = Kid /\ Len(KidSite) = Len(Top.site) + 1
<1>1. BuildType /\ EntriesOK /\ tree \in Trees
  BY DEF Loops, BuildType
<1>2. PICK m : m = Me
  OBVIOUS
<1>3. PICK n : n = Len(Fr(Me))
  OBVIOUS
<1>4. m \in DOMAIN tasks /\ n \in DOMAIN Fr(m) /\ n \in Nat \ {0} /\ Top = Fr(m)[n] /\ Top \in Frames
  BY <1>1, <1>2, <1>3, RunIs
<1>5. FrameOK(Top, m, n) /\ Len(Top.site) = Len(Fr(m)[1].site) + (n - 1)
  BY <1>4 DEF FramesOK
<1>6. Top.agent \in Family /\ Top.todo \in Seq(Family) /\ Top.site \in Sites
  BY <1>4 DEF Frames
<1>7. Top.spreads => /\ tree.kind[Top.agent] = "gather" /\ (m = 1 \/ n # 1)
                     /\ Top.todo # <<>> => Top.todo = CallsOf(Top.agent)
  BY <1>5 DEF FrameOK
<1>8. ASSUME Top.todo # <<>>
      PROVE  /\ Kid \in ToSet(CallsOf(Top.agent)) /\ Kid \in Family /\ KidSite \in Sites
             /\ KidSite \in Paths /\ AgentAt(KidSite) = Kid /\ Len(KidSite) = Len(Top.site) + 1
  <2>1. Kid \in Family /\ Kid \in ToSet(Top.todo) /\ KidSite \in Sites
    BY <1>1, <1>8, KidIs
  <2>2. Kid \in ToSet(CallsOf(Top.agent)) /\ Top.site \in Paths /\ Top.agent = AgentAt(Top.site)
    BY <1>5, <2>1 DEF FrameOK
  <2>3. PICK s : s = Top.site
    OBVIOUS
  <2>4. PICK a : a = Top.agent
    OBVIOUS
  <2>5. PICK k : k = Kid
    OBVIOUS
  <2>6. KidSite = Under(s, a, k) /\ s \in Seq(Nat \X Family) /\ a \in Family /\ k \in Family
    BY <1>6, <2>1, <2>3, <2>4, <2>5 DEF KidSite, Sites
  <2>7. /\ Len(Under(s, a, k)) = Len(s) + 1 /\ Under(s, a, k) \in Paths /\ AgentAt(Under(s, a, k)) = k
    BY <1>1, <2>2, <2>3, <2>4, <2>5, <2>6, UnderIs
  <2>8. QED
    BY <2>1, <2>2, <2>3, <2>5, <2>6, <2>7
<1>9. QED
  BY <1>2, <1>3, <1>4, <1>5, <1>6, <1>7, <1>8

LEMMA FramesStep ==
  ASSUME Loops, FramesOK, BuildNext
  PROVE  FramesOK'
<1>1. BuildType /\ EntriesOK /\ GathersOK /\ tree' = tree /\ tree \in Trees /\ BuildType'
  BY TypeStep DEF Loops, BuildType
<1>2. Seen \subseteq Seen'
  BY SeenGrows
<1>12. SUFFICES ASSUME NEW t \in DOMAIN tasks', NEW j \in DOMAIN tasks'[t].frames
                PROVE  FrameOK(Fr(t)[j], t, j)' /\ Len(tasks'[t].frames[j].site) = Len(tasks'[t].frames[1].site) + (j - 1)
  BY <1>12 DEF FramesOK, Fr
<1>3. PICK g : g = tasks'[t].frames[j]
  OBVIOUS
<1>13. SUFFICES FrameOK(g, t, j)' /\ Len(g.site) = Len(tasks'[t].frames[1].site) + (j - 1)
  BY <1>3, <1>13 DEF FrameOK, Fr
<1>4. /\ g \in Frames /\ g.site \in Sites /\ Len(g.site) \in Nat /\ 1 \in DOMAIN tasks'[t].frames /\ Live(t)' /\ j \in Nat
  <2>1. tasks' \in Seq(Tasks)'
    BY <1>1 DEF BuildType
  <2>2. Tasks' = Tasks /\ Frames' = Frames
    BY <1>1 DEF Tasks, Frames, Sites, Family
  <2>3. tasks'[t] \in Tasks
    BY <2>1, <2>2
  <2>4. tasks'[t].frames \in Seq(Frames)
    BY <2>3 DEF Tasks
  <2>5. g \in Frames /\ 1 \in DOMAIN tasks'[t].frames /\ tasks'[t].frames # <<>> /\ j \in Nat
    BY <1>3, <2>4
  <2>6. g.site \in Sites
    BY <2>5 DEF Frames
  <2>7. QED
    BY <2>5, <2>6 DEF Live, Fr, Sites
<1>5. t \in DOMAIN tasks => tasks'[t].frames[1].site = Fr(t)[1].site
  BY <1>4, FirstStays
<1>6. Moved(t, j, g)
  BY <1>3, MovesAre
<1>7. CASE Stayed(t, j, g)
  <2>1. t \in DOMAIN tasks /\ j \in DOMAIN Fr(t) /\ g = Fr(t)[j]
    BY <1>7 DEF Stayed
  <2>2. FrameOK(g, t, j) /\ Len(g.site) = Len(Fr(t)[1].site) + (j - 1)
    BY <2>1 DEF FramesOK
  <2>3. QED
    BY <1>1, <1>2, <1>5, <2>1, <2>2, FrameStays
<1>8. CASE WentOn(t, j, g)
  <2>1. /\ TaskRuns /\ t = Me /\ j = Len(Fr(Me)) /\ Top.todo # <<>>
        /\ \/ g = Advanced(Top) /\ ~Top.spreads
           \/ g = Spent(Top) /\ Top.spreads
    BY <1>8 DEF WentOn
  <2>2. FrameOK(Top, t, j) /\ Len(Top.site) = Len(Fr(t)[1].site) + (j - 1) /\ t \in DOMAIN tasks
    BY <1>1, <2>1, TopIs, RunIs
  <2>3. /\ g.agent = Top.agent /\ g.site = Top.site /\ g.spreads = Top.spreads
        /\ (g.todo = Tail(Top.todo) /\ ~Top.spreads) \/ g.todo = <<>>
    BY <1>1, <2>1, AdvancedIs
  <2>4. ToSet(g.todo) \subseteq ToSet(Top.todo)
    <3>1. ToSet(Tail(Top.todo)) \subseteq ToSet(Top.todo)
      BY <1>1, <2>1, KidIs
    <3>2. ToSet(<<>>) = {}
      BY DEF ToSet
    <3>3. QED
      BY <2>3, <3>1, <3>2
  <2>5. FrameOK(g, t, j)
    BY <2>2, <2>3, <2>4 DEF FrameOK
  <2>6. QED
    BY <1>1, <1>2, <1>5, <2>2, <2>3, <2>5, FrameStays
<1>9. CASE WasEntered(t, j, g)
  <2>1. /\ TaskRuns /\ t = Me /\ j = Len(Fr(Me)) + 1 /\ Top.todo # <<>> /\ Kid \in Seen' /\ g = Frame(Kid, KidSite, Len(nodes) + 1)
    BY <1>9 DEF WasEntered
  <2>2. PICK k : k = Kid
    OBVIOUS
  <2>3. PICK s : s = KidSite
    OBVIOUS
  <2>4. /\ k \in Family /\ s \in Sites /\ s \in Paths /\ AgentAt(s) = k /\ Len(s) = Len(Top.site) + 1
        /\ Len(Top.site) = Len(Fr(t)[1].site) + (Len(Fr(t)) - 1)
    BY <2>1, <2>2, <2>3, TopIs
  <2>5. Len(Fr(t)) \in Nat \ {0} /\ t \in DOMAIN tasks
    BY <1>1, <2>1, RunIs
  <2>6. g.agent = k /\ g.site = s /\ g.todo = CallsOf(k) /\ g.spreads = (tree.kind[k] = "gather")
    <3>1. Len(nodes) + 1 \in Nat
      BY <1>1 DEF BuildType
    <3>2. QED
      BY <1>1, <2>1, <2>2, <2>3, <2>4, <3>1, FrameIs
  <2>7. j # 1
    BY <2>1, <2>5
  <2>8. k \in Seen' /\ AgentAt(s)' = k /\ s \in Paths' /\ CallsOf(k)' = CallsOf(k)
    BY <1>1, <2>1, <2>2, <2>4, TreeStays
  <2>9. ToSet(g.todo)' = ToSet(CallsOf(k))'
    BY <2>6, <2>8 DEF ToSet
  <2>10. FrameOK(g, t, j)'
    BY <1>1, <2>6, <2>7, <2>8, <2>9 DEF FrameOK
  <2>11. Len(g.site) = Len(tasks'[t].frames[1].site) + (j - 1)
    <3>1. Fr(t)[1].site = tasks'[t].frames[1].site /\ Len(s) \in Nat /\ g.site = s
      BY <1>4, <1>5, <2>5, <2>6
    <3>2. Len(s) = Len(Fr(t)[1].site) + (Len(Fr(t)) - 1) + 1 /\ j = Len(Fr(t)) + 1
      BY <2>1, <2>4
    <3>3. Len(Fr(t)[1].site) \in Int
      <4>1. 1 \in DOMAIN Fr(t) /\ Fr(t) \in Seq(Frames)
        BY <1>1, <2>1, RunIs
      <4>2. Fr(t)[1] \in Frames
        BY <4>1
      <4>3. QED
        BY <4>2 DEF Frames, Sites
    <3>4. QED
      BY <2>5, <3>1, <3>2, <3>3
  <2>12. QED
    BY <2>10, <2>11
<1>10. CASE WasHanded(t, j, g)
  <2>1. TaskRuns /\ t \notin DOMAIN tasks /\ j = 1 /\ Top.todo # <<>> /\ Top.spreads
    BY <1>10 DEF WasHanded
  <2>2. PICK i \in 1 .. Len(Top.todo) : g = HandedOf(i)
    BY <1>10 DEF WasHanded
  <2>3. /\ Top.agent \in Seen /\ Top.site \in Paths /\ AgentAt(Top.site) = Top.agent
        /\ ToSet(Top.todo) \subseteq ToSet(CallsOf(Top.agent)) /\ tree.kind[Top.agent] = "gather" /\ Top.todo \in Seq(Family)
    BY <2>1, TopIs DEF FrameOK
  <2>4. PICK c : c = Top.todo[i]
    OBVIOUS
  <2>5. g.agent = Top.agent /\ g.site = Top.site /\ g.todo = <<c>> /\ g.spreads = FALSE
    BY <2>2, <2>4 DEF HandedOf
  <2>6. ToSet(g.todo) \subseteq ToSet(Top.todo)
    <3>1. c \in ToSet(Top.todo)
      BY <2>3, <2>4 DEF ToSet
    <3>2. ToSet(<<c>>) = {c}
      BY DEF ToSet
    <3>3. QED
      BY <2>5, <3>1, <3>2
  <2>7. t # 1
    BY <1>1, <2>1 DEF GathersOK
  <2>8. FrameOK(g, t, j)
    BY <2>1, <2>3, <2>5, <2>6, <2>7 DEF FrameOK
  <2>9. Len(g.site) = Len(tasks'[t].frames[1].site) + (j - 1)
    BY <1>3, <1>4, <2>1
  <2>10. QED
    BY <1>1, <1>2, <2>8, <2>9, FrameStays
<1>11. QED
  BY <1>6, <1>7, <1>8, <1>9, <1>10 DEF Moved

LEMMA NodesStep ==
  ASSUME Loops, FramesOK, NodesOK, BuildNext
  PROVE  NodesOK'
<1>1. BuildType /\ EntriesOK /\ tree' = tree /\ tree \in Trees /\ tree.root \in Family
  BY TypeStep, TreeIs DEF Loops, BuildType
<1>2. SUFFICES ASSUME NEW k \in DOMAIN nodes'
               PROVE  /\ nodes'[k].agent \in Within(tree.root) /\ nodes'[k].site \in Paths
                      /\ AgentAt(nodes'[k].site) = nodes'[k].agent
  <2>1. Within(tree.root)' = Within(tree.root) /\ Paths' = Paths /\ \A p : AgentAt(p)' = AgentAt(p)
    <3>1. PICK r : r = tree.root
      OBVIOUS
    <3>2. Within(r)' = Within(r) /\ Paths' = Paths /\ \A p : AgentAt(p)' = AgentAt(p)
      BY <1>1, TreeStays
    <3>3. QED
      BY <1>1, <3>1, <3>2
  <2>2. QED
    BY <1>2, <2>1 DEF NodesOK
<1>3. \A i \in DOMAIN nodes : nodes'[i] = nodes[i]
  BY SeenGrows
<1>4. CASE k \in DOMAIN nodes
  BY <1>3, <1>4 DEF NodesOK
<1>5. CASE k \notin DOMAIN nodes
  <2>1. PICK fs : LeafView(fs) \/ IntoView(fs)
    <3>1. UNCHANGED nodes => k \in DOMAIN nodes
      BY <1>2
    <3>2. \A fs : PopView(fs) => UNCHANGED nodes
      BY DEF PopView
    <3>3. Ends(TRUE) \/ FinishView \/ GatherView \/ (\E u : HeardView(u)) \/ Install => UNCHANGED nodes
      BY DEF Ends, FinishView, GatherView, HeardView, Install
    <3>4. QED
      BY <1>5, <3>1, <3>2, <3>3, StepIs
  <2>2. Notes(Kid, KidSite) /\ TaskRuns /\ Top.todo # <<>>
    BY <2>1 DEF LeafView, IntoView, Works
  <2>3. PICK c : c = Kid
    OBVIOUS
  <2>4. PICK s : s = KidSite
    OBVIOUS
  <2>5. k = Len(nodes) + 1 /\ nodes'[k].agent = c /\ nodes'[k].site = s
    <3>1. nodes \in Seq(Noted) /\ nodes' \in Seq(Noted) /\ Len(nodes') = Len(nodes) + 1
      BY <1>1, <2>2 DEF Notes, BuildType
    <3>2. k = Len(nodes) + 1
      BY <1>2, <1>5, <3>1
    <3>3. PICK p : p = Under(Innermost.path, Innermost.agent, Kid)
      OBVIOUS
    <3>4. nodes'[k] = [path |-> p, agent |-> c, site |-> s]
      BY <2>2, <2>3, <2>4, <3>2, <3>3 DEF Notes
    <3>5. QED
      BY <3>2, <3>4
  <2>6. s \in Paths /\ AgentAt(s) = c /\ c \in ToSet(CallsOf(Top.agent)) /\ FrameOK(Top, Me, Len(Fr(Me)))
    BY <2>2, <2>3, <2>4, TopIs
  <2>7. Top.agent \in Within(tree.root)
    BY <2>6 DEF FrameOK, Seen, NodesOK
  <2>8. c \in Within(tree.root)
    BY <1>1, <2>6, <2>7, WithinIs
  <2>9. QED
    BY <2>5, <2>6, <2>8
<1>6. QED
  BY <1>4, <1>5

LEMMA FramesStart ==
  ASSUME BuildInit
  PROVE  FramesOK /\ NodesOK
<1>1. /\ tree \in Trees
      /\ nodes = <<[path |-> <<>>, agent |-> tree.root, site |-> <<>>]>>
      /\ tasks = <<[up |-> 1, left |-> 0, woken |-> FALSE, frames |-> <<Frame(tree.root, <<>>, 1)>>]>>
  BY DEF BuildInit
<1>2. tree.root \in Family /\ <<>> \in Sites /\ <<>> \in Paths /\ AgentAt(<<>>) = tree.root /\ tree.root \in Within(tree.root)
  BY <1>1, TreeIs, PathsAre, WithinIs DEF Sites
<1>3. PICK f : f = Frame(tree.root, <<>>, 1)
  OBVIOUS
<1>4. f.agent = tree.root /\ f.todo = CallsOf(tree.root) /\ f.site = <<>> /\ f.spreads = (tree.kind[tree.root] = "gather")
  BY <1>1, <1>2, <1>3, FrameIs
<1>5. DOMAIN tasks = {1} /\ Fr(1) = <<f>> /\ DOMAIN Fr(1) = {1} /\ Fr(1)[1] = f
  <2>1. tasks = <<[up |-> 1, left |-> 0, woken |-> FALSE, frames |-> <<f>>]>>
    BY <1>1, <1>3
  <2>2. QED
    BY <2>1 DEF Fr
<1>6. DOMAIN nodes = {1} /\ nodes[1].agent = tree.root /\ nodes[1].site = <<>>
  BY <1>1
<1>7. tree.root \in Seen
  BY <1>6 DEF Seen
<1>8. FrameOK(f, 1, 1)
  BY <1>2, <1>4, <1>7 DEF FrameOK
<1>9. FramesOK
  BY <1>4, <1>5, <1>8 DEF FramesOK
<1>10. NodesOK
  BY <1>2, <1>6 DEF NodesOK
<1>11. QED
  BY <1>9, <1>10

-----------------------------------------------------------------------------
(* One chain of tasks, as long as no gather runs beside another call *)

Plain(a) == \A d \in Within(a) : tree.kind[d] # "gather"

\* The place n of the stack is that of a call of agent a at site s.
Shown(n, a, s) ==
  \/ n = 0 /\ a = tree.root /\ s = <<>>
  \/ n \in DOMAIN stack /\ stack[n].agent = a /\ stack[n].path = s
OnStack(b) ==
  \A t \in DOMAIN tasks : Live(t) => \A j \in DOMAIN Fr(t) : Shown(b[t] + (j - 1), Fr(t)[j].agent, Fr(t)[j].site)
Based(b) ==
  \A t \in DOMAIN tasks : Live(t) /\ t # 1 => Live(tasks[t].up) /\ b[t] = b[tasks[t].up] + (Len(Fr(tasks[t].up)) - 1)
Nested(b) ==
  \A s, t \in DOMAIN tasks : Suspended(s) /\ Suspended(t) /\ s < t =>
    s <= tasks[t].up /\ b[s] + (Len(Fr(s)) - 1) <= b[t]

\* z is the last of the chain: the others lead to it, or wait behind it for their turn.
Holds(b, z, t) ==
  /\ Suspended(t) /\ z # 1 /\ t <= tasks[z].up /\ b[t] + (Len(Fr(t)) - 1) <= b[z]
  /\ \E k \in DOMAIN tasks : k # 1 /\ Live(k) /\ tasks[k].up = t
Waits(z, t) ==
  /\ Live(t) /\ t # 1 /\ z # 1 /\ tasks[t].up = tasks[z].up /\ Len(Fr(t)) = 1 /\ Fr(t)[1].todo # <<>>
  /\ \E i, j \in DOMAIN ready : i < j /\ ready[i].task = z /\ ready[j].task = t
Roles(b, z) == \A t \in DOMAIN tasks : Live(t) => t = z \/ Holds(b, z, t) \/ Waits(z, t)
Tip(b, z) == z \in DOMAIN tasks /\ Live(z) /\ Live(1) /\ b[1] = 0 /\ Len(stack) = b[z] + (Len(Fr(z)) - 1)

\* x: which of the calls of a gather a task makes; here with forwards fs.
KidOf(i, fs) == CallsOf(fs[1].agent)[i]
MadeFrames(i, fs) ==
  /\ i \in DOMAIN CallsOf(fs[1].agent)
  /\ fs[1].todo = <<>> \/ fs[1].todo = <<KidOf(i, fs)>>
  /\ \A j \in DOMAIN fs : j # 1 => /\ fs[1].todo = <<>> /\ fs[j].agent \in Within(KidOf(i, fs))
                                   /\ j = 2 => fs[j].agent = KidOf(i, fs)
Made(x) == \A t \in DOMAIN tasks : Live(t) /\ t # 1 => MadeFrames(x[t], Fr(t))
Lined(x) ==
  \A i, j \in DOMAIN ready : i < j /\ ready[i].what = "run" /\ ready[j].what = "run" =>
    x[ready[i].task] < x[ready[j].task] /\ \A k \in i .. j : ready[k].what = "run"

\* What a task has done so far is plain.
PlainFrames(i, fs) ==
  /\ Len(fs) = 1 /\ fs[1].todo = <<>> => Plain(KidOf(i, fs))
  /\ \A h \in DOMAIN fs : h # 1 =>
       /\ tree.kind[fs[h].agent] = "gather" => h = Len(fs) /\ fs[h].todo = CallsOf(fs[h].agent)
       /\ \A c \in ToSet(CallsOf(fs[h].agent)) :
            Plain(c) \/ c \in ToSet(fs[h].todo) \/ (h + 1 \in DOMAIN fs /\ c = fs[h + 1].agent)
Chain(b, x, z) ==
  /\ Tip(b, z) /\ OnStack(b) /\ Based(b) /\ Nested(b) /\ Roles(b, z) /\ Lined(x)
  /\ (\E t \in DOMAIN tasks : Waits(z, t)) => PlainFrames(x[z], Fr(z))

\* Each call of a gather but the last is plain, or not done yet.
Opens(a) ==
  \E t \in DOMAIN tasks : \E j \in DOMAIN Fr(t) : Fr(t)[j].agent = a /\ Fr(t)[j].spreads /\ Fr(t)[j].todo = CallsOf(a)
Running(x, a, i) ==
  \E m, n \in DOMAIN ready : /\ m < n /\ ready[m].what = "run" /\ ready[n].what = "run"
                             /\ Fr(ready[m].task)[1].agent = a /\ x[ready[m].task] = i
EarlyPlain(x) ==
  \A a \in Seen : tree.kind[a] = "gather" =>
    \A i \in DOMAIN CallsOf(a) : i # Len(CallsOf(a)) => Plain(CallsOf(a)[i]) \/ Opens(a) \/ Running(x, a, i)

Matches == \A k \in DOMAIN nodes : nodes[k].path = nodes[k].site
MissNext ==
  /\ TaskRuns /\ ~Now.err /\ Top.todo # <<>> /\ ~Top.spreads /\ outcome = "tracing"
  /\ stack # <<>> /\ Len(Innermost.path) > Len(Top.site)
InOrder ==
  \E x \in [DOMAIN tasks -> Nat] :
    /\ Made(x) /\ EarlyPlain(x)
    /\ \/ \A t \in DOMAIN tasks : ~Live(t)
       \/ \E b \in [DOMAIN tasks -> Nat], z \in DOMAIN tasks : Chain(b, x, z)
ChainOK == Doomed \/ (~Calm /\ (MissNext \/ ~Matches)) \/ (Matches /\ InOrder)

LEMMA ShownOnce ==
  ASSUME BuildType, NEW n, NEW a1, NEW a2, NEW s1, NEW s2, Shown(n, a1, s1), Shown(n, a2, s2)
  PROVE  a1 = a2 /\ s1 = s2
<1>1. 0 \notin DOMAIN stack
  BY DEF BuildType
<1>2. QED
  BY <1>1 DEF Shown

\* Who is taken for the one that calls.
LEMMA ShownLast ==
  ASSUME BuildType, NEW a, NEW s, Shown(Len(stack), a, s)
  PROVE  Innermost.agent = a /\ Innermost.path = s /\ (s # <<>> => stack # <<>>)
<1>1. stack \in Seq(Stacked)
  BY DEF BuildType
<1>2. CASE stack = <<>>
  <2>1. Len(stack) = 0 /\ DOMAIN stack = {}
    BY <1>2
  <2>2. a = tree.root /\ s = <<>>
    BY <2>1 DEF Shown
  <2>3. QED
    BY <1>2, <2>2 DEF Innermost
<1>3. CASE stack # <<>>
  <2>1. Len(stack) # 0
    BY <1>1, <1>3
  <2>2. stack[Len(stack)].agent = a /\ stack[Len(stack)].path = s
    BY <2>1 DEF Shown
  <2>3. Innermost = stack[Len(stack)]
    BY <1>3 DEF Innermost, Last
  <2>4. QED
    BY <1>3, <2>2, <2>3
<1>4. QED
  BY <1>2, <1>3

\* What is shown stays so as far as the stack does.
LEMMA ShownStays ==
  ASSUME tree' = tree, BuildType, stack' \in Seq(Stacked),
         \A n \in Nat : n # 0 /\ n <= Len(stack) /\ n <= Len(stack') => stack'[n] = stack[n],
         NEW n \in Nat, n <= Len(stack'), NEW a, NEW s, Shown(n, a, s)
  PROVE  Shown(n, a, s)'
<1>1. stack \in Seq(Stacked) /\ Len(stack) \in Nat /\ Len(stack') \in Nat /\ DOMAIN stack = 1 .. Len(stack) /\ DOMAIN stack' = 1 .. Len(stack')
  BY DEF BuildType
<1>2. CASE n = 0
  <2>1. n \notin DOMAIN stack
    BY <1>1, <1>2
  <2>2. QED
    BY <1>2, <2>1 DEF Shown
<1>3. CASE n # 0
  <2>1. n \in DOMAIN stack /\ stack[n].agent = a /\ stack[n].path = s
    BY <1>3 DEF Shown
  <2>2. n \in DOMAIN stack' /\ stack'[n] = stack[n]
    BY <1>1, <1>3, <2>1
  <2>3. QED
    BY <2>1, <2>2 DEF Shown
<1>4. QED
  BY <1>2, <1>3

LEMMA PlainIs ==
  ASSUME tree \in Trees, NEW a \in Family
  PROVE  /\ Plain(a) => tree.kind[a] # "gather"
         /\ IsLeaf(a) => Plain(a)
         /\ tree.kind[a] # "gather" /\ (\A c \in ToSet(CallsOf(a)) : Plain(c)) => Plain(a)
<1>1. a \in Within(a)
  BY WithinIs
<1>2. ASSUME tree.kind[a] # "gather", \A c \in ToSet(CallsOf(a)) : Plain(c)
      PROVE  Plain(a)
  <2> DEFINE S == {d \in Family : tree.kind[d] # "gather" /\ (d = a \/ \E c \in ToSet(CallsOf(a)) : d \in Within(c))}
  <2>1. a \in S
    BY <1>2
  <2>2. ToSet(CallsOf(a)) \subseteq Family
    <3>1. CallsOf(a) \in Seq(Family)
      BY TreeIs
    <3>2. QED
      BY <3>1, ToSetWithin
  <2>3. \A c \in ToSet(CallsOf(a)) : c \in S
    <3>1. SUFFICES ASSUME NEW c \in ToSet(CallsOf(a)) PROVE c \in S
      OBVIOUS
    <3>2. c \in Family /\ c \in Within(c)
      BY <2>2, WithinIs
    <3>3. tree.kind[c] # "gather"
      BY <1>2, <3>2 DEF Plain
    <3>4. QED
      BY <3>2, <3>3
  <2>4. \A d \in S : ToSet(CallsOf(d)) \subseteq S
    <3>1. SUFFICES ASSUME NEW d \in S, NEW e \in ToSet(CallsOf(d)) PROVE e \in S
      OBVIOUS
    <3>2. CASE d = a
      BY <2>3, <3>2
    <3>3. CASE d # a
      <4>1. PICK c \in ToSet(CallsOf(a)) : d \in Within(c)
        BY <3>3
      <4>2. c \in Family
        BY <2>2
      <4>3. e \in Within(c) /\ Within(c) \subseteq Family
        BY <4>1, <4>2, WithinIs
      <4>4. tree.kind[e] # "gather"
        BY <1>2, <4>3 DEF Plain
      <4>5. QED
        BY <4>3, <4>4
    <3>4. QED
      BY <3>2, <3>3
  <2> HIDE DEF S
  <2>5. Within(a) \subseteq S
    BY <2>1, <2>4, WithinIs
  <2>6. QED
    BY <2>5 DEF S, Plain
<1>3. ASSUME IsLeaf(a) PROVE Plain(a)
  <2>1. CallsOf(a) = <<>> /\ tree.kind[a] # "gather"
    BY <1>3, TreeIs
  <2>2. ToSet(CallsOf(a)) = {}
    BY <2>1 DEF ToSet
  <2>3. QED
    BY <1>2, <2>1, <2>2
<1>4. QED
  BY <1>1, <1>2, <1>3 DEF Plain

LEMMA CalmIs ==
  ASSUME tree \in Trees
  PROVE  Calm <=> \A a \in Within(tree.root) : tree.kind[a] = "gather" =>
                    \A i \in DOMAIN CallsOf(a) : i # Len(CallsOf(a)) => Plain(CallsOf(a)[i])
<1>1. Within(tree.root) \subseteq Family
  BY TreeIs, WithinIs
<1>2. ASSUME NEW a \in Within(tree.root)
      PROVE  \A i : i \in 1 .. Len(CallsOf(a)) - 1 <=> i \in DOMAIN CallsOf(a) /\ i # Len(CallsOf(a))
  <2>1. CallsOf(a) \in Seq(Family)
    BY <1>1, TreeIs
  <2>2. QED
    BY <2>1
<1>3. QED
  BY <1>2 DEF Calm, Plain

\* The task that runs is the last of the chain.
LEMMA TipRuns ==
  ASSUME Loops, NEW b, NEW z \in DOMAIN tasks, Roles(b, z)
  PROVE  /\ \A t \in DOMAIN tasks : Live(t) /\ Queued(t) /\ t # z => Waits(z, t)
         /\ TaskRuns => z = Me
         /\ TaskRuns /\ ~Now.err => \A t \in DOMAIN tasks : Live(t) /\ t # 1 => tasks[t].up # z
<1>1. BuildType /\ EntriesOK /\ DOMAIN ready = 1 .. Len(ready)
  BY DEF Loops, BuildType
<1>2. \A t \in DOMAIN tasks : Live(t) /\ Queued(t) /\ t # z => Waits(z, t)
  BY DEF Roles, Holds, Suspended
<1>3. ASSUME TaskRuns PROVE z = Me
  <2>1. PICK m : m = Me
    OBVIOUS
  <2>2. m \in DOMAIN tasks /\ Live(m) /\ ready[1].task = m /\ 1 \in DOMAIN ready
    BY <1>1, <1>3, <2>1, RunIs
  <2>3. SUFFICES ASSUME m # z PROVE FALSE
    BY <2>1
  <2>4. Waits(z, m)
    BY <1>2, <2>2, <2>3 DEF Queued
  <2>5. PICK i \in DOMAIN ready : \E j \in DOMAIN ready : i < j /\ ready[i].task = z /\ ready[j].task = m
    BY <2>4 DEF Waits
  <2>6. PICK j \in DOMAIN ready : i < j /\ ready[j].task = m
    BY <2>5
  <2>7. j = 1
    BY <1>1, <2>2, <2>6 DEF EntriesOK
  <2>8. QED
    BY <1>1, <2>6, <2>7
<1>4. ASSUME TaskRuns, ~Now.err, NEW t \in DOMAIN tasks, Live(t), t # 1 PROVE tasks[t].up # z
  <2>1. PICK m : m = Me
    OBVIOUS
  <2>2. m = z /\ 1 \in DOMAIN ready /\ ready[1].task = m /\ ready[1].what = "run" /\ ~ready[1].err /\ m \in DOMAIN tasks
    <3>1. Me \in DOMAIN tasks /\ Now = ready[1] /\ Me = ready[1].task /\ ready # <<>>
      BY <1>1, <1>4, RunIs
    <3>2. 1 \in DOMAIN ready
      BY <1>1, <3>1 DEF BuildType
    <3>3. QED
      BY <1>3, <1>4, <2>1, <3>1, <3>2 DEF TaskRuns
  <2>3. Owed(m) = {}
    BY <1>1, <2>2 DEF EntriesOK
  <2>4. QED
    BY <1>4, <2>2, <2>3 DEF Owed
<1>5. QED
  BY <1>2, <1>3, <1>4

Chained(b, x, z) ==
  /\ b \in [DOMAIN tasks -> Nat] /\ x \in [DOMAIN tasks -> Nat] /\ z \in DOMAIN tasks /\ Made(x) /\ Chain(b, x, z)

\* A step of a task that goes on leaves the chain as it is.
LEMMA WorksChain ==
  ASSUME Loops, NEW b, NEW x, NEW z, Chained(b, x, z), NEW fs, Works(fs),
         Len(stack') = b[z] + (Len(fs) - 1)
  PROVE  /\ z = Me /\ DOMAIN tasks' = DOMAIN tasks /\ tasks'[z].frames = fs /\ \A t \in DOMAIN tasks : t # z => tasks'[t] = tasks[t]
         /\ Tip(b, z)' /\ Based(b)' /\ Nested(b)' /\ Roles(b, z)' /\ Lined(x)'
         /\ \A t \in DOMAIN tasks : Waits(z, t)' => Waits(z, t)
<1>1. BuildType /\ EntriesOK /\ Tip(b, z) /\ Based(b) /\ Nested(b) /\ Roles(b, z) /\ Lined(x) /\ z \in DOMAIN tasks /\ TaskRuns /\ ~Now.err
  BY DEF Loops, Chained, Chain, Works
<1>2. z = Me /\ \A t \in DOMAIN tasks : Live(t) /\ t # 1 => tasks[t].up # z
  BY <1>1, TipRuns
<1>3. /\ DOMAIN tasks' = DOMAIN tasks /\ tasks'[z].frames = fs /\ \A t \in DOMAIN tasks : t # z => tasks'[t] = tasks[t]
      /\ ready' = ready
  BY <1>2 DEF Works, Reframed
<1>4. \A t \in DOMAIN tasks : tasks'[t].up = tasks[t].up
  BY <1>2 DEF Works, Reframed
<1>5. \A t \in DOMAIN tasks : (Live(t)' <=> Live(t)) /\ (Queued(t)' <=> Queued(t)) /\ (Suspended(t)' <=> Suspended(t))
  <2>1. \A t \in DOMAIN tasks : (Live(t)' <=> Live(t)) /\ (Queued(t)' <=> Queued(t))
    BY WorksLoop
  <2>2. QED
    BY <2>1 DEF Suspended
<1>6. \A t \in DOMAIN tasks : t # z => Fr(t)' = Fr(t)
  BY <1>3 DEF Fr
<1>7. Tip(b, z)'
  <2>1. Live(z)' /\ Live(1)' /\ b[1] = 0 /\ Fr(z)' = fs
    <3>1. Live(z) /\ Live(1) /\ b[1] = 0 /\ 1 \in DOMAIN tasks
      BY <1>1 DEF Tip, Loops, GathersOK
    <3>2. Fr(z)' = fs
      BY <1>3 DEF Fr
    <3>3. QED
      BY <1>1, <1>5, <3>1, <3>2
  <2>2. QED
    BY <1>1, <1>3, <2>1 DEF Tip
<1>8. Based(b)'
  <2>1. ASSUME NEW t \in DOMAIN tasks, Live(t), t # 1, NEW u, u = tasks[t].up
        PROVE  Live(u)' /\ b[t] = b[u] + (Len(tasks'[u].frames) - 1)
    <3>1. u \in DOMAIN tasks /\ u # z /\ Live(u) /\ b[t] = b[u] + (Len(Fr(u)) - 1)
      BY <1>1, <1>2, <2>1 DEF Based, Loops, GathersOK
    <3>2. tasks'[u].frames = Fr(u) /\ Live(u)'
      BY <1>3, <1>5, <3>1 DEF Fr
    <3>3. QED
      BY <3>1, <3>2
  <2>2. \A t \in DOMAIN tasks : Live(t) /\ t # 1 => /\ tasks'[tasks'[t].up].frames # <<>>
                                                    /\ b[t] = b[tasks'[t].up] + (Len(tasks'[tasks'[t].up].frames) - 1)
    BY <1>4, <2>1 DEF Live, Fr
  <2>3. \A t \in DOMAIN tasks' : tasks'[t].frames # <<>> => t \in DOMAIN tasks /\ Live(t)
    BY <1>3, <1>5 DEF Live, Fr
  <2>4. QED
    BY <2>2, <2>3 DEF Based, Live, Fr
<1>9. Nested(b)'
  <2>1. \A t \in DOMAIN tasks : Suspended(t) => t # z
    <3>1. Queued(z)
      BY <1>1, <1>2, RunIs DEF Queued
    <3>2. QED
      BY <3>1 DEF Suspended
  <2>2. QED
    BY <1>1, <1>3, <1>4, <1>5, <1>6, <2>1 DEF Nested
<1>10. ASSUME NEW t \in DOMAIN tasks, t # z
       PROVE  (Holds(b, z, t) => Holds(b, z, t)') /\ (Waits(z, t)' <=> Waits(z, t))
  <2>1. Fr(t)' = Fr(t) /\ tasks'[t].up = tasks[t].up /\ tasks'[z].up = tasks[z].up /\ (Suspended(t)' <=> Suspended(t)) /\ (Live(t)' <=> Live(t))
    BY <1>1, <1>4, <1>5, <1>6, <1>10
  <2>2. (\E k \in DOMAIN tasks : k # 1 /\ Live(k) /\ tasks[k].up = t) => \E k \in DOMAIN tasks' : k # 1 /\ Live(k)' /\ tasks'[k].up = t
    BY <1>3, <1>4, <1>5
  <2>3. Holds(b, z, t) => Holds(b, z, t)'
    BY <2>1, <2>2 DEF Holds
  <2>4. Waits(z, t)' <=> Waits(z, t)
    BY <1>3, <2>1 DEF Waits
  <2>5. QED
    BY <2>3, <2>4
<1>11. Roles(b, z)'
  BY <1>1, <1>3, <1>5, <1>10 DEF Roles
<1>12. Lined(x)'
  BY <1>1, <1>3 DEF Lined
<1>13. \A t \in DOMAIN tasks : Waits(z, t)' => Waits(z, t)
  <2>1. ~Waits(z, z)'
    <3>1. SUFFICES ASSUME Waits(z, z)' PROVE FALSE
      OBVIOUS
    <3>2. PICK i \in DOMAIN ready : \E j \in DOMAIN ready : i < j /\ ready[i].task = z /\ ready[j].task = z
      BY <1>3, <3>1 DEF Waits
    <3>3. PICK j \in DOMAIN ready : i < j /\ ready[i].task = z /\ ready[j].task = z
      BY <3>2
    <3>4. i = j
      BY <1>1, <3>3 DEF EntriesOK
    <3>5. QED
      BY <1>1, <3>3, <3>4 DEF BuildType
  <2>2. QED
    BY <1>10, <2>1
<1>14. QED
  BY <1>2, <1>3, <1>7, <1>8, <1>9, <1>11, <1>12, <1>13

LEMMA FramesTyped ==
  ASSUME BuildType, NEW t \in DOMAIN tasks
  PROVE  Fr(t) \in Seq(Frames) /\ Len(Fr(t)) \in Nat /\ DOMAIN Fr(t) = 1 .. Len(Fr(t)) /\ (Live(t) => 1 \in DOMAIN Fr(t))
<1>1. tasks \in Seq(Tasks)
  BY DEF BuildType
<1>2. tasks[t] \in Tasks
  BY <1>1
<1>3. Fr(t) \in Seq(Frames)
  BY <1>2 DEF Tasks, Fr
<1>4. QED
  BY <1>3 DEF Live

\* What waits behind the last of the chain stands where it does.
LEMMA WaitsBeside ==
  ASSUME NEW b, NEW z \in DOMAIN tasks, Live(z), Based(b), NEW t \in DOMAIN tasks, Waits(z, t)
  PROVE  b[t] = b[z] /\ Len(Fr(t)) = 1
BY DEF Based, Waits

\* The forward that runs is the one that is taken for the one that calls.
LEMMA TopInnermost ==
  ASSUME Loops, NEW b, NEW x, NEW z, Chained(b, x, z), TaskRuns
  PROVE  /\ Innermost.agent = Top.agent /\ Innermost.path = Top.site /\ (Top.site # <<>> => stack # <<>>)
         /\ Shown(Len(stack), Top.agent, Top.site) /\ Len(stack) = b[z] + (Len(Fr(z)) - 1) /\ b[z] \in Nat
         /\ z = Me /\ Live(z) /\ Top = Fr(z)[Len(Fr(z))] /\ Fr(z) \in Seq(Frames) /\ Len(Fr(z)) \in Nat \ {0}
<1>1. BuildType /\ EntriesOK /\ Tip(b, z) /\ OnStack(b) /\ Roles(b, z) /\ z \in DOMAIN tasks /\ b[z] \in Nat
  BY DEF Loops, Chained, Chain
<1>2. z = Me
  BY <1>1, TipRuns
<1>3. Fr(z) \in Seq(Frames) /\ Len(Fr(z)) \in Nat \ {0} /\ Top = Fr(z)[Len(Fr(z))] /\ Live(z)
  BY <1>1, <1>2, RunIs
<1>4. Len(stack) = b[z] + (Len(Fr(z)) - 1) /\ Len(Fr(z)) \in DOMAIN Fr(z)
  BY <1>1, <1>3 DEF Tip
<1>5. Shown(b[z] + (Len(Fr(z)) - 1), Fr(z)[Len(Fr(z))].agent, Fr(z)[Len(Fr(z))].site)
  BY <1>1, <1>3, <1>4 DEF OnStack
<1>6. Shown(Len(stack), Top.agent, Top.site)
  BY <1>3, <1>4, <1>5
<1>7. QED
  BY <1>1, <1>2, <1>3, <1>4, <1>6, ShownLast

\* What the step leaves of the stack still shows the forwards.
LEMMA WorksOnStack ==
  ASSUME Loops, NEW b, NEW x, NEW z, Chained(b, x, z), BuildNext, NEW fs, Works(fs),
         Len(stack') = b[z] + (Len(fs) - 1),
         \A n \in Nat : n # 0 /\ n <= Len(stack) /\ n <= Len(stack') => stack'[n] = stack[n],
         \A j \in DOMAIN fs : \/ j \in DOMAIN Fr(z) /\ fs[j].agent = Fr(z)[j].agent /\ fs[j].site = Fr(z)[j].site
                              \/ Shown(b[z] + (j - 1), fs[j].agent, fs[j].site)'
  PROVE  OnStack(b)'
<1>1. /\ BuildType /\ tree' = tree /\ OnStack(b) /\ Based(b) /\ Roles(b, z) /\ Tip(b, z) /\ b \in [DOMAIN tasks -> Nat] /\ z \in DOMAIN tasks
      /\ BuildType'
  BY TypeStep DEF Loops, Chained, Chain
<1>2. stack' \in Seq(Stacked)
  <2>1. Stacked' = Stacked
    BY <1>1 DEF Stacked, Sites, Family
  <2>2. QED
    BY <1>1, <2>1 DEF BuildType
<1>3. /\ z = Me /\ DOMAIN tasks' = DOMAIN tasks /\ tasks'[z].frames = fs /\ \A t \in DOMAIN tasks : t # z => tasks'[t] = tasks[t]
      /\ \A t \in DOMAIN tasks : Waits(z, t)' => Waits(z, t)
  BY WorksChain
<1>4. fs \in Seq(Frames) /\ fs # <<>> /\ Len(fs) \in Nat \ {0} /\ DOMAIN fs = 1 .. Len(fs) /\ b[z] \in Nat
  BY <1>1 DEF Works, Reframed
<1>5. ASSUME NEW t \in DOMAIN tasks, NEW j \in DOMAIN Fr(t), Live(t), b[t] + (j - 1) <= Len(stack'), NEW f, f = Fr(t)[j]
      PROVE  Shown(b[t] + (j - 1), f.agent, f.site)'
  <2>1. PICK n : n = b[t] + (j - 1)
    OBVIOUS
  <2>2. Shown(n, f.agent, f.site)
    BY <1>1, <1>5, <2>1 DEF OnStack
  <2>3. n \in Nat
    <3>1. Fr(t) \in Seq(Frames)
      BY <1>1, FramesTyped
    <3>2. j \in Nat \ {0} /\ b[t] \in Nat
      BY <1>1, <3>1
    <3>3. QED
      BY <2>1, <3>2
  <2>4. Shown(n, f.agent, f.site)'
    BY <1>1, <1>2, <1>5, <2>1, <2>2, <2>3, ShownStays
  <2>5. QED
    BY <2>1, <2>4
<1>6. ASSUME NEW t \in DOMAIN tasks, t # z, Live(t), NEW j \in DOMAIN Fr(t), NEW f, f = Fr(t)[j]
      PROVE  Shown(b[t] + (j - 1), f.agent, f.site)'
  <2>1. Fr(t) \in Seq(Frames) /\ b[t] \in Nat /\ j \in 1 .. Len(Fr(t)) /\ Len(Fr(t)) \in Nat
    <3>1. Fr(t) \in Seq(Frames)
      BY <1>1, FramesTyped
    <3>2. QED
      BY <1>1, <1>6, <3>1
  <2>2. CASE Holds(b, z, t)
    <3>1. b[t] + (Len(Fr(t)) - 1) <= b[z]
      BY <2>2 DEF Holds
    <3>2. b[t] + (j - 1) <= Len(stack')
      BY <1>4, <2>1, <3>1
    <3>3. QED
      BY <1>5, <1>6, <3>2
  <2>3. CASE Waits(z, t)
    <3>0. Live(z)
      BY <1>1 DEF Tip
    <3>1. b[t] = b[z] /\ Len(Fr(t)) = 1
      BY <1>1, <1>6, <2>3, <3>0, WaitsBeside
    <3>2. b[t] + (j - 1) <= Len(stack')
      BY <1>4, <2>1, <3>1
    <3>3. QED
      BY <1>5, <1>6, <3>2
  <2>4. QED
    BY <1>1, <1>6, <2>2, <2>3 DEF Roles
<1>7. ASSUME NEW j \in DOMAIN fs
      PROVE  Shown(b[z] + (j - 1), fs[j].agent, fs[j].site)'
  <2>1. CASE j \in DOMAIN Fr(z) /\ fs[j].agent = Fr(z)[j].agent /\ fs[j].site = Fr(z)[j].site
    <3>1. Live(z)
      BY <1>1 DEF Tip
    <3>2. b[z] + (j - 1) <= Len(stack')
      BY <1>4, <1>7
    <3>3. PICK f : f = Fr(z)[j]
      OBVIOUS
    <3>4. Shown(b[z] + (j - 1), f.agent, f.site)'
      BY <1>1, <1>5, <2>1, <3>1, <3>2, <3>3
    <3>5. f.agent = fs[j].agent /\ f.site = fs[j].site
      BY <2>1, <3>3
    <3>6. QED
      BY <3>4, <3>5
  <2>2. QED
    BY <1>7, <2>1
<1>8. ASSUME NEW t \in DOMAIN tasks, NEW fr, fr = tasks'[t].frames, fr # <<>>, NEW j \in DOMAIN fr
      PROVE  Shown(b[t] + (j - 1), fr[j].agent, fr[j].site)'
  <2>1. CASE t = z
    BY <1>3, <1>7, <1>8, <2>1
  <2>2. CASE t # z
    <3>1. fr = Fr(t) /\ Live(t)
      BY <1>3, <1>8, <2>2 DEF Fr, Live
    <3>2. PICK f : f = fr[j]
      OBVIOUS
    <3>3. Shown(b[t] + (j - 1), f.agent, f.site)'
      BY <1>6, <1>8, <2>2, <3>1, <3>2
    <3>4. QED
      BY <3>2, <3>3
  <2>3. QED
    BY <2>1, <2>2
<1>9. QED
  BY <1>3, <1>8 DEF OnStack, Live, Fr

LEMMA TreeFrames ==
  ASSUME tree' = tree, NEW i, NEW fs
  PROVE  (MadeFrames(i, fs)' <=> MadeFrames(i, fs)) /\ (PlainFrames(i, fs)' <=> PlainFrames(i, fs))
<1>1. \A a : CallsOf(a)' = CallsOf(a) /\ Within(a)' = Within(a)
  BY TreeStays
<1>2. \A a : (Plain(a)' <=> Plain(a)) /\ ToSet(CallsOf(a))' = ToSet(CallsOf(a))
  BY <1>1 DEF Plain, ToSet
<1>3. KidOf(i, fs)' = KidOf(i, fs)
  BY <1>1 DEF KidOf
<1>4. MadeFrames(i, fs)' <=> MadeFrames(i, fs)
  BY <1>1, <1>3 DEF MadeFrames
<1>5. \A h : ToSet(fs[h].todo)' = ToSet(fs[h].todo)
  BY DEF ToSet
<1>6. PlainFrames(i, fs)' <=> PlainFrames(i, fs)
  BY <1>1, <1>2, <1>3, <1>5 DEF PlainFrames
<1>7. QED
  BY <1>4, <1>6

LEMMA Indices ==
  ASSUME NEW n \in Nat \ {0}, NEW m \in Nat, m = n \/ m = n + 1
  PROVE  /\ \A j \in 1 .. m : j \in 1 .. n - 1 \/ j = n \/ (j = n + 1 /\ m = n + 1)
         /\ \A j \in 1 .. n : j \in 1 .. n - 1 \/ j = n
         /\ \A h \in 1 .. n - 1 : h \in 1 .. n /\ h + 1 \in 1 .. n /\ h + 1 \in 1 .. m /\ h \in 1 .. m
         /\ n \in 1 .. n /\ n \in 1 .. m /\ (m = n + 1 => n + 1 \in 1 .. m) /\ ~(n + 1 \in 1 .. n)
  OBVIOUS

\* What a call makes of the forwards of a task.
LEMMA CallFrames ==
  ASSUME Loops, FramesOK, NEW z, z = Me, z # 1, NEW i, MadeFrames(i, Fr(z)),
         NEW fs, LeafView(fs) \/ IntoView(fs)
  PROVE  MadeFrames(i, fs) /\ (PlainFrames(i, Fr(z)) => PlainFrames(i, fs))
<1>1. BuildType /\ EntriesOK /\ tree \in Trees /\ TaskRuns /\ Top.todo # <<>> /\ ~Top.spreads
  BY DEF Loops, BuildType, LeafView, IntoView, Works
<1>2. PICK n : n = Len(Fr(Me))
  OBVIOUS
<1>3. PICK k : k = Kid
  OBVIOUS
<1>4. PICK g : g = Fr(z)
  OBVIOUS
<1>5. /\ z \in DOMAIN tasks /\ n \in Nat \ {0} /\ n = Len(g) /\ DOMAIN g = 1 .. n /\ Top = g[n] /\ g \in Seq(Frames)
      /\ \A j \in 1 .. n : g[j].agent \in Family
  <2>1. /\ z \in DOMAIN tasks /\ n \in Nat \ {0} /\ n = Len(g) /\ Top = g[n] /\ g \in Seq(Frames)
    BY <1>1, <1>2, <1>4, RunIs
  <2>2. \A j \in 1 .. n : g[j] \in Frames
    BY <2>1
  <2>3. QED
    BY <2>1, <2>2 DEF Frames
<1>6. /\ fs \in Seq(Frames) /\ DOMAIN fs = 1 .. Len(fs) /\ fs[n] = Advanced(Top) /\ (\A j \in 1 .. n - 1 : fs[j] = g[j])
      /\ Len(fs) = n \/ (Len(fs) = n + 1 /\ IntoView(fs))
  BY <1>2, <1>4 DEF LeafView, IntoView, Works, Reframed
<1>7. /\ fs[n].agent = g[n].agent /\ fs[n].todo = Tail(g[n].todo)
      /\ k \in Family /\ k = g[n].todo[1] /\ ToSet(g[n].todo) = {k} \cup ToSet(Tail(g[n].todo)) /\ g[n].todo # <<>>
      /\ k \in ToSet(CallsOf(g[n].agent))
  BY <1>1, <1>3, <1>5, <1>6, AdvancedIs, KidIs, TopIs
<1>8. n # 1 => tree.kind[g[n].agent] # "gather"
  BY <1>1, <1>2, <1>5, TopIs DEF FrameOK
<1>9. /\ i \in DOMAIN CallsOf(g[1].agent) /\ (g[1].todo = <<>> \/ g[1].todo = <<KidOf(i, g)>>)
      /\ \A j \in 1 .. n : j # 1 => g[1].todo = <<>> /\ g[j].agent \in Within(KidOf(i, g)) /\ (j = 2 => g[j].agent = KidOf(i, g))
  BY <1>4, <1>5 DEF MadeFrames
<1>10. PICK K : K = KidOf(i, g)
  OBVIOUS
<1>11. K \in Family
  <2>1. g[1].agent \in Family
    BY <1>5
  <2>2. CallsOf(g[1].agent) \in Seq(Family)
    BY <1>1, <2>1, TreeIs
  <2>3. QED
    BY <1>9, <1>10, <2>2 DEF KidOf
<1>12. fs[1].agent = g[1].agent /\ KidOf(i, fs) = K
  <2>1. CASE n = 1
    BY <1>7, <1>10, <2>1 DEF KidOf
  <2>2. CASE n # 1
    <3>1. 1 \in 1 .. n - 1
      BY <1>5, <2>2
    <3>2. QED
      BY <1>6, <1>10, <3>1 DEF KidOf
  <2>3. QED
    BY <2>1, <2>2
<1>13. fs[1].todo = <<>> /\ (n = 1 => k = K)
  <2>1. CASE n = 1
    <3>1. g[1].todo = <<K>>
      BY <1>7, <1>9, <1>10, <2>1
    <3>2. k = K /\ Tail(g[1].todo) = <<>>
      BY <1>7, <2>1, <3>1
    <3>3. QED
      BY <1>7, <2>1, <3>2
  <2>2. CASE n # 1
    <3>1. 1 \in 1 .. n - 1 /\ n \in 1 .. n
      BY <1>5, <2>2
    <3>2. g[1].todo = <<>>
      BY <1>9, <2>2, <3>1
    <3>3. QED
      BY <1>6, <2>2, <3>1, <3>2
  <2>3. QED
    BY <2>1, <2>2
<1>14. IntoView(fs) => /\ fs[n + 1].agent = k /\ fs[n + 1].todo = CallsOf(k)
  <2>1. SUFFICES ASSUME IntoView(fs) PROVE fs[n + 1].agent = k /\ fs[n + 1].todo = CallsOf(k)
    OBVIOUS
  <2>2. PICK s \in Sites : s = KidSite
    BY <1>1, KidIs
  <2>3. PICK m \in Nat : m = Len(nodes) + 1
    BY <1>1 DEF BuildType
  <2>4. fs[n + 1] = Frame(k, s, m)
    BY <1>2, <1>3, <2>1, <2>2, <2>3 DEF IntoView
  <2>5. Frame(k, s, m).agent = k /\ Frame(k, s, m).todo = CallsOf(k)
    BY <1>1, <1>7, FrameIs
  <2>6. QED
    BY <2>4, <2>5
<1>20. PICK m \in Nat : m = Len(fs)
  <2>1. fs \in Seq(Frames)
    BY <1>6
  <2>2. Len(fs) \in Nat
    BY <2>1
  <2>3. QED
    BY <2>2
<1>21. m = n \/ (m = n + 1 /\ IntoView(fs))
  BY <1>6, <1>20
<1>22. /\ \A j \in 1 .. m : j \in 1 .. n - 1 \/ j = n \/ (j = n + 1 /\ m = n + 1)
       /\ \A j \in 1 .. n : j \in 1 .. n - 1 \/ j = n
       /\ \A h \in 1 .. n - 1 : h \in 1 .. n /\ h + 1 \in 1 .. n /\ h + 1 \in 1 .. m /\ h \in 1 .. m
       /\ n \in 1 .. n /\ n \in 1 .. m /\ (m = n + 1 => n + 1 \in 1 .. m) /\ ~(n + 1 \in 1 .. n)
  BY <1>5, <1>21, Indices
<1>23. DOMAIN fs = 1 .. m
  BY <1>6, <1>20
<1>24. m = n + 1 => IntoView(fs)
  <2>1. n # n + 1
    BY <1>5
  <2>2. QED
    BY <1>21, <2>1
<1>15. \A j \in 1 .. n : fs[j].agent = g[j].agent
  BY <1>6, <1>7, <1>22
<1>16. \A j \in DOMAIN fs : j \in 1 .. n - 1 \/ j = n \/ (j = n + 1 /\ IntoView(fs))
  BY <1>22, <1>23, <1>24
<1>17. MadeFrames(i, fs)
  <2>1. ASSUME NEW j \in DOMAIN fs, j # 1
        PROVE  fs[j].agent \in Within(K) /\ (j = 2 => fs[j].agent = K)
    <3>1. CASE j \in 1 .. n
      BY <1>9, <1>10, <1>15, <2>1, <3>1
    <3>2. CASE j = n + 1 /\ IntoView(fs)
      <4>1. fs[j].agent = k
        BY <1>14, <3>2
      <4>2. CASE n = 1
        BY <1>1, <1>11, <1>13, <4>1, <4>2, WithinIs
      <4>3. CASE n # 1
        <5>1. g[n].agent \in Within(K) /\ j # 2
          BY <1>5, <1>9, <1>10, <3>2, <4>3
        <5>2. k \in Within(K)
          BY <1>1, <1>7, <1>11, <5>1, WithinIs
        <5>3. QED
          BY <4>1, <5>1, <5>2
      <4>4. QED
        BY <4>2, <4>3
    <3>3. QED
      BY <1>5, <1>16, <3>1, <3>2
  <2>2. QED
    BY <1>9, <1>12, <1>13, <2>1 DEF MadeFrames
<1>18. ASSUME PlainFrames(i, g) PROVE PlainFrames(i, fs)
  <2>1. \A h \in 1 .. n : h # 1 =>
          /\ tree.kind[g[h].agent] = "gather" => h = n /\ g[h].todo = CallsOf(g[h].agent)
          /\ \A c \in ToSet(CallsOf(g[h].agent)) :
                Plain(c) \/ c \in ToSet(g[h].todo) \/ (h + 1 \in 1 .. n /\ c = g[h + 1].agent)
    BY <1>5, <1>18 DEF PlainFrames
  <2>2. LeafView(fs) => Plain(k)
    <3>1. LeafView(fs) => IsLeaf(k)
      BY <1>3 DEF LeafView
    <3>2. QED
      BY <1>1, <1>7, <3>1, PlainIs
  <2>3. IntoView(fs) => Len(fs) = n + 1
    BY <1>2 DEF IntoView
  <2>4. Len(fs) = 1 => Plain(KidOf(i, fs))
    <3>1. SUFFICES ASSUME Len(fs) = 1 PROVE Plain(K)
      BY <1>12
    <3>2. n = 1 /\ LeafView(fs)
      BY <1>5, <1>6, <2>3, <3>1
    <3>3. QED
      BY <1>13, <2>2, <3>2
  <2>5. ASSUME NEW h \in DOMAIN fs, h # 1, tree.kind[fs[h].agent] = "gather"
        PROVE  h = Len(fs) /\ fs[h].todo = CallsOf(fs[h].agent)
    <3>1. CASE h \in 1 .. n
      <4>1. tree.kind[g[h].agent] = "gather"
        BY <1>15, <2>5, <3>1
      <4>2. h = n
        BY <2>1, <2>5, <3>1, <4>1
      <4>3. QED
        BY <1>8, <2>5, <4>1, <4>2
    <3>2. CASE h = n + 1 /\ IntoView(fs)
      BY <1>14, <2>3, <3>2
    <3>3. QED
      BY <1>5, <1>16, <2>5, <3>1, <3>2
  <2>6. ASSUME NEW h \in DOMAIN fs, h # 1, NEW c \in ToSet(CallsOf(fs[h].agent))
        PROVE  Plain(c) \/ c \in ToSet(fs[h].todo) \/ (h + 1 \in DOMAIN fs /\ c = fs[h + 1].agent)
    <3>1. CASE h \in 1 .. n - 1
      <4>1. h \in 1 .. n /\ h + 1 \in 1 .. n /\ h + 1 \in DOMAIN fs /\ fs[h] = g[h]
        BY <1>6, <1>22, <1>23, <3>1
      <4>2. Plain(c) \/ c \in ToSet(g[h].todo) \/ c = g[h + 1].agent
        BY <2>1, <2>6, <4>1
      <4>3. QED
        BY <1>15, <4>1, <4>2
    <3>2. CASE h = n
      <4>1. ~(h + 1 \in 1 .. n) /\ h \in 1 .. n
        BY <1>22, <3>2
      <4>2. Plain(c) \/ c \in ToSet(g[n].todo)
        BY <1>7, <2>1, <2>6, <3>2, <4>1
      <4>3. c \in ToSet(g[n].todo) => c = k \/ c \in ToSet(fs[h].todo)
        BY <1>7, <3>2
      <4>4. CASE LeafView(fs)
        BY <2>2, <4>2, <4>3, <4>4
      <4>5. CASE IntoView(fs)
        <5>1. h + 1 \in DOMAIN fs /\ fs[h + 1].agent = k
          <6>1. m = n + 1
            BY <1>20, <2>3, <4>5
          <6>2. QED
            BY <1>14, <1>22, <1>23, <3>2, <4>5, <6>1
        <5>2. QED
          BY <4>2, <4>3, <5>1
      <4>6. QED
        BY <4>4, <4>5
    <3>3. CASE h = n + 1 /\ IntoView(fs)
      BY <1>14, <2>6, <3>3
    <3>4. QED
      BY <1>16, <2>6, <3>1, <3>2, <3>3
  <2>7. QED
    BY <2>4, <2>5, <2>6 DEF PlainFrames
<1>19. QED
  BY <1>4, <1>17, <1>18

\* What gathers has something to call, unless it is about to be refused.
LEMMA GatherCalls ==
  ASSUME BuildType, SeenOK, ~Doomed, NEW a \in Seen, a \in Family, tree.kind[a] = "gather", ~Idle(a)
  PROVE  CallsOf(a) # <<>>
<1>1. Called(a)
  BY DEF SeenOK
<1>2. ~IsLeaf(a)
  BY TreeIs DEF BuildType
<1>3. QED
  BY <1>1, <1>2 DEF Called

\* A forward that returns to the one that called it.
LEMMA PopFrames ==
  ASSUME Loops, FramesOK, SeenOK, ~Doomed, NEW z, z = Me, z # 1, NEW i, MadeFrames(i, Fr(z)), NEW fs, PopView(fs)
  PROVE  MadeFrames(i, fs) /\ (PlainFrames(i, Fr(z)) => PlainFrames(i, fs))
<1>1. BuildType /\ EntriesOK /\ tree \in Trees /\ TaskRuns /\ Top.todo = <<>> /\ ~Bypassed
  BY DEF Loops, BuildType, PopView, Works
<1>2. PICK n : n = Len(Fr(Me))
  OBVIOUS
<1>3. PICK g : g = Fr(z)
  OBVIOUS
<1>4. /\ z \in DOMAIN tasks /\ n \in Nat \ {0} /\ n = Len(g) /\ DOMAIN g = 1 .. n /\ Top = g[n] /\ g \in Seq(Frames)
      /\ \A j \in 1 .. n : g[j].agent \in Family
  <2>1. /\ z \in DOMAIN tasks /\ n \in Nat \ {0} /\ n = Len(g) /\ Top = g[n] /\ g \in Seq(Frames)
    BY <1>1, <1>2, <1>3, RunIs
  <2>2. \A j \in 1 .. n : g[j] \in Frames
    BY <2>1
  <2>3. QED
    BY <2>1, <2>2 DEF Frames
<1>5. fs \in Seq(Frames) /\ Len(fs) = n - 1 /\ (\A j \in 1 .. n - 1 : fs[j] = g[j]) /\ n > 1
  BY <1>2, <1>3 DEF PopView, Works, Reframed
<1>6. PICK m \in Nat \ {0} : n = m + 1
  <2>1. n - 1 \in Nat \ {0} /\ n = (n - 1) + 1
    BY <1>4, <1>5
  <2>2. QED
    BY <2>1
<1>7. n - 1 = m
  BY <1>6
<1>8. DOMAIN fs = 1 .. m /\ Len(fs) = m /\ \A j \in 1 .. m : fs[j] = g[j]
  BY <1>5, <1>7
<1>9. /\ 1 \in 1 .. m /\ 1 .. m \subseteq 1 .. n /\ n \in 1 .. n /\ n # 1 /\ ~(n + 1 \in 1 .. n)
      /\ (\A j \in 1 .. m : j # n) /\ \A j \in 1 .. m : j + 1 \in 1 .. m \/ j + 1 = n
  BY <1>6
<1>10. /\ i \in DOMAIN CallsOf(g[1].agent) /\ (g[1].todo = <<>> \/ g[1].todo = <<KidOf(i, g)>>)
       /\ \A j \in 1 .. n : j # 1 => g[1].todo = <<>> /\ g[j].agent \in Within(KidOf(i, g)) /\ (j = 2 => g[j].agent = KidOf(i, g))
  BY <1>3, <1>4 DEF MadeFrames
<1>11. fs[1] = g[1] /\ KidOf(i, fs) = KidOf(i, g)
  BY <1>8, <1>9 DEF KidOf
<1>12. MadeFrames(i, fs)
  BY <1>8, <1>9, <1>10, <1>11 DEF MadeFrames
<1>13. ASSUME PlainFrames(i, g) PROVE PlainFrames(i, fs)
  <2>1. \A h \in 1 .. n : h # 1 =>
          /\ tree.kind[g[h].agent] = "gather" => h = n /\ g[h].todo = CallsOf(g[h].agent)
          /\ \A c \in ToSet(CallsOf(g[h].agent)) :
                Plain(c) \/ c \in ToSet(g[h].todo) \/ (h + 1 \in 1 .. n /\ c = g[h + 1].agent)
    BY <1>4, <1>13 DEF PlainFrames
  <2>2. PICK a : a = Top.agent
    OBVIOUS
  <2>3. a \in Seen /\ a \in Family /\ a = g[n].agent /\ g[n].todo = <<>>
    BY <1>1, <1>4, <2>2, TopIs DEF FrameOK
  <2>4. ToSet(<<>>) = {}
    BY DEF ToSet
  <2>5. tree.kind[a] # "gather"
    <3>1. ~Idle(a)
      BY <1>1 DEF Idle
    <3>2. tree.kind[a] = "gather" => CallsOf(a) # <<>>
      BY <1>1, <2>3, <3>1, GatherCalls
    <3>3. QED
      BY <1>9, <2>1, <2>3, <3>2
  <2>6. \A c \in ToSet(CallsOf(a)) : Plain(c)
    BY <1>9, <2>1, <2>3, <2>4
  <2>7. Plain(a)
    BY <1>1, <2>3, <2>5, <2>6, PlainIs
  <2>8. Len(fs) = 1 => Plain(KidOf(i, fs))
    <3>1. SUFFICES ASSUME m = 1 PROVE Plain(KidOf(i, g))
      BY <1>8, <1>11
    <3>2. n = 2
      BY <1>6, <3>1
    <3>3. a = KidOf(i, g)
      BY <1>9, <1>10, <2>3, <3>2
    <3>4. QED
      BY <2>7, <3>3
  <2>9. ASSUME NEW h \in 1 .. m, h # 1
        PROVE  /\ tree.kind[fs[h].agent] = "gather" => h = m /\ fs[h].todo = CallsOf(fs[h].agent)
               /\ \A c \in ToSet(CallsOf(fs[h].agent)) :
                    Plain(c) \/ c \in ToSet(fs[h].todo) \/ (h + 1 \in 1 .. m /\ c = fs[h + 1].agent)
    <3>1. fs[h] = g[h] /\ h \in 1 .. n /\ h # n /\ (h + 1 \in 1 .. m \/ h + 1 = n)
      BY <1>8, <1>9, <2>9
    <3>2. tree.kind[fs[h].agent] # "gather"
      BY <2>1, <2>9, <3>1
    <3>3. ASSUME NEW c \in ToSet(CallsOf(fs[h].agent))
          PROVE  Plain(c) \/ c \in ToSet(fs[h].todo) \/ (h + 1 \in 1 .. m /\ c = fs[h + 1].agent)
      <4>1. Plain(c) \/ c \in ToSet(fs[h].todo) \/ c = g[h + 1].agent
        BY <2>1, <2>9, <3>1, <3>3
      <4>2. CASE h + 1 = n
        BY <2>3, <2>7, <4>1, <4>2
      <4>3. CASE h + 1 \in 1 .. m
        <5>1. fs[h + 1] = g[h + 1]
          BY <1>8, <4>3
        <5>2. QED
          BY <4>1, <4>3, <5>1
      <4>4. QED
        BY <3>1, <4>2, <4>3
    <3>4. QED
      BY <3>2, <3>3
  <2>10. QED
    BY <1>8, <2>8, <2>9 DEF PlainFrames
<1>14. QED
  BY <1>3, <1>12, <1>13

\* What tasks are made for, after a step.
LEMMA MadeNext ==
  ASSUME tree' = tree, NEW x,
         \A t \in DOMAIN tasks' : \A fr : fr = tasks'[t].frames /\ fr # <<>> /\ t # 1 => MadeFrames(x[t], fr)
  PROVE  Made(x)'
<1>1. ASSUME NEW t \in DOMAIN tasks', NEW fr, fr = tasks'[t].frames, fr # <<>>, t # 1
      PROVE  MadeFrames(x[t], fr)'
  <2>1. MadeFrames(x[t], fr)
    BY <1>1
  <2>2. PICK i : i = x[t]
    OBVIOUS
  <2>3. MadeFrames(i, fr)' <=> MadeFrames(i, fr)
    BY TreeFrames
  <2>4. QED
    BY <2>1, <2>2, <2>3
<1>2. QED
  BY <1>1 DEF Made, Live, Fr

\* A step of a task that goes on, on the stack.
LEMMA ViewStack ==
  ASSUME Loops, NEW b, NEW x, NEW z, Chained(b, x, z), NEW fs, LeafView(fs) \/ IntoView(fs) \/ PopView(fs)
  PROVE  /\ Works(fs) /\ Len(stack') = b[z] + (Len(fs) - 1)
         /\ \A n \in Nat : n # 0 /\ n <= Len(stack) /\ n <= Len(stack') => stack'[n] = stack[n]
         /\ \A j \in DOMAIN fs : \/ j \in DOMAIN Fr(z) /\ fs[j].agent = Fr(z)[j].agent /\ fs[j].site = Fr(z)[j].site
                                 \/ Shown(b[z] + (j - 1), fs[j].agent, fs[j].site)'
<1>1. Works(fs) /\ TaskRuns /\ BuildType /\ EntriesOK
  BY DEF LeafView, IntoView, PopView, Works, Loops
<1>2. /\ Innermost.agent = Top.agent /\ Innermost.path = Top.site /\ b[z] \in Nat /\ z = Me
      /\ Len(stack) = b[z] + (Len(Fr(z)) - 1) /\ Top = Fr(z)[Len(Fr(z))] /\ Fr(z) \in Seq(Frames) /\ Len(Fr(z)) \in Nat \ {0}
  BY <1>1, TopInnermost
<1>3. PICK n \in Nat \ {0} : n = Len(Fr(z))
  BY <1>2
<1>4. PICK bz \in Nat : bz = b[z]
  BY <1>2
<1>5. Len(stack) = bz + (n - 1) /\ Len(Fr(Me)) = n /\ stack \in Seq(Stacked)
  BY <1>1, <1>2, <1>3, <1>4 DEF BuildType
<1>6. DOMAIN Fr(z) = 1 .. n
  BY <1>2, <1>3
<1>7. fs \in Seq(Frames) /\ \A j \in 1 .. n - 1 : fs[j] = Fr(z)[j]
  BY <1>1, <1>2, <1>3 DEF Works, Reframed
<1>8. ASSUME NEW j \in 1 .. n - 1
      PROVE  j \in DOMAIN Fr(z) /\ fs[j].agent = Fr(z)[j].agent /\ fs[j].site = Fr(z)[j].site
  <2>1. j \in 1 .. n
    OBVIOUS
  <2>2. QED
    BY <1>6, <1>7, <1>8, <2>1
<1>9. fs[n] = Advanced(Top) => n \in DOMAIN Fr(z) /\ fs[n].agent = Fr(z)[n].agent /\ fs[n].site = Fr(z)[n].site
  <2>1. Advanced(Top).agent = Top.agent /\ Advanced(Top).site = Top.site
    BY <1>1, AdvancedIs
  <2>2. n \in 1 .. n
    OBVIOUS
  <2>3. QED
    BY <1>2, <1>3, <1>6, <2>1, <2>2
<1>10. CASE LeafView(fs)
  <2>1. Len(fs) = n /\ fs[n] = Advanced(Top) /\ stack' = stack
    BY <1>5, <1>10 DEF LeafView
  <2>2. DOMAIN fs = 1 .. n
    BY <1>7, <2>1
  <2>3. \A j \in DOMAIN fs : j \in 1 .. n - 1 \/ j = n
    BY <2>2
  <2>4. Len(stack') = b[z] + (Len(fs) - 1)
    BY <1>4, <1>5, <2>1
  <2>5. QED
    BY <1>1, <1>8, <1>9, <2>1, <2>3, <2>4
<1>11. CASE IntoView(fs)
  <2>1. PICK p : p = Under(Innermost.path, Innermost.agent, Kid)
    OBVIOUS
  <2>2. PICK e : e = [agent |-> Kid, path |-> p]
    OBVIOUS
  <2>3. Len(fs) = n + 1 /\ fs[n] = Advanced(Top) /\ stack' = Append(stack, e) /\ fs[n + 1] = Frame(Kid, KidSite, Len(nodes) + 1)
    BY <1>5, <1>11, <2>1, <2>2 DEF IntoView
  <2>4. /\ Len(stack') = Len(stack) + 1 /\ stack'[Len(stack) + 1] = e
        /\ (\A k \in 1 .. Len(stack) : stack'[k] = stack[k]) /\ DOMAIN stack' = 1 .. Len(stack) + 1
    <3>1. stack \in Seq(Stacked \cup {e}) /\ e \in Stacked \cup {e}
      BY <1>5
    <3>2. QED
      BY <2>3, <3>1
  <2>5. fs[n + 1].agent = Kid /\ fs[n + 1].site = KidSite
    <3>1. fs[n + 1] = Frame(Kid, KidSite, Len(nodes) + 1)
      BY <2>3
    <3>2. QED
      BY <3>1 DEF Frame
  <2>6. p = KidSite
    BY <1>2, <2>1 DEF KidSite
  <2>7. Shown(b[z] + ((n + 1) - 1), fs[n + 1].agent, fs[n + 1].site)'
    <3>1. PICK k \in Nat : k = bz + n
      OBVIOUS
    <3>2. k = Len(stack) + 1 /\ k \in DOMAIN stack' /\ b[z] + ((n + 1) - 1) = k
      BY <1>4, <1>5, <2>4, <3>1
    <3>3. stack'[k].agent = Kid /\ stack'[k].path = KidSite
      BY <2>2, <2>4, <2>6, <3>2
    <3>4. PICK a : a = fs[n + 1].agent
      OBVIOUS
    <3>5. PICK s : s = fs[n + 1].site
      OBVIOUS
    <3>6. Shown(k, a, s)'
      BY <2>5, <3>2, <3>3, <3>4, <3>5 DEF Shown
    <3>7. QED
      BY <3>2, <3>4, <3>5, <3>6
  <2>8. \A j \in DOMAIN fs : j \in 1 .. n - 1 \/ j = n \/ j = n + 1
    <3>1. DOMAIN fs = 1 .. n + 1
      BY <1>7, <2>3
    <3>2. QED
      BY <3>1
  <2>9. Len(stack') = b[z] + (Len(fs) - 1)
    BY <1>4, <1>5, <2>3, <2>4
  <2>10. \A k \in Nat : k # 0 /\ k <= Len(stack) /\ k <= Len(stack') => stack'[k] = stack[k]
    BY <1>5, <2>4
  <2>11. QED
    BY <1>1, <1>8, <1>9, <2>3, <2>7, <2>8, <2>9, <2>10
<1>12. CASE PopView(fs)
  <2>1. Len(fs) = n - 1 /\ n > 1 /\ stack' = Front(stack)
    BY <1>5, <1>12 DEF PopView
  <2>2. stack # <<>>
    BY <1>5, <2>1
  <2>3. Len(stack') = Len(stack) - 1 /\ \A k \in 1 .. Len(stack) - 1 : stack'[k] = stack[k]
    BY <1>5, <2>1, <2>2, FrontIs
  <2>4. DOMAIN fs = 1 .. n - 1
    BY <1>7, <2>1
  <2>5. Len(stack') = b[z] + (Len(fs) - 1)
    BY <1>4, <1>5, <2>1, <2>3
  <2>6. \A k \in Nat : k # 0 /\ k <= Len(stack) /\ k <= Len(stack') => stack'[k] = stack[k]
    BY <1>5, <2>3
  <2>7. QED
    BY <1>1, <1>8, <2>4, <2>5, <2>6
<1>13. QED
  BY <1>10, <1>11, <1>12

\* A step of a task that goes on, and what it was made for.
LEMMA ViewMade ==
  ASSUME Loops, FramesOK, SeenOK, ~Doomed, NEW b, NEW x, NEW z, Chained(b, x, z),
         NEW fs, LeafView(fs) \/ IntoView(fs) \/ PopView(fs)
  PROVE  /\ Made(x)'
         /\ (\E t \in DOMAIN tasks' : Waits(z, t)') => PlainFrames(x[z], Fr(z))'
<1>1. Works(fs) /\ Len(stack') = b[z] + (Len(fs) - 1) /\ tree' = tree
  BY ViewStack DEF Works
<1>2. /\ z = Me /\ DOMAIN tasks' = DOMAIN tasks /\ tasks'[z].frames = fs /\ (\A t \in DOMAIN tasks : t # z => tasks'[t] = tasks[t])
      /\ \A t \in DOMAIN tasks : Waits(z, t)' => Waits(z, t)
  BY <1>1, WorksChain
<1>3. Made(x) /\ z \in DOMAIN tasks /\ Live(z) /\ ((\E t \in DOMAIN tasks : Waits(z, t)) => PlainFrames(x[z], Fr(z)))
  BY DEF Chained, Chain, Tip
<1>4. z # 1 => MadeFrames(x[z], Fr(z))
  BY <1>3 DEF Made
<1>5. PICK i : i = x[z]
  OBVIOUS
<1>6. z # 1 => MadeFrames(i, fs) /\ (PlainFrames(i, Fr(z)) => PlainFrames(i, fs))
  BY <1>2, <1>4, <1>5, CallFrames, PopFrames
<1>7. \A t \in DOMAIN tasks' : \A fr : fr = tasks'[t].frames /\ fr # <<>> /\ t # 1 => MadeFrames(x[t], fr)
  <2>1. SUFFICES ASSUME NEW t \in DOMAIN tasks', NEW fr, fr = tasks'[t].frames, fr # <<>>, t # 1
                 PROVE  MadeFrames(x[t], fr)
    OBVIOUS
  <2>2. CASE t = z
    BY <1>2, <1>5, <1>6, <2>1, <2>2
  <2>3. CASE t # z
    <3>1. fr = Fr(t) /\ Live(t) /\ t \in DOMAIN tasks
      BY <1>2, <2>1, <2>3 DEF Fr, Live
    <3>2. QED
      BY <1>3, <2>1, <3>1 DEF Made
  <2>4. QED
    BY <2>2, <2>3
<1>8. Made(x)'
  BY <1>1, <1>7, MadeNext
<1>9. ASSUME NEW t \in DOMAIN tasks', Waits(z, t)' PROVE PlainFrames(x[z], Fr(z))'
  <2>1. z # 1
    BY <1>9 DEF Waits
  <2>2. PlainFrames(i, fs)
    BY <1>2, <1>3, <1>5, <1>6, <1>9, <2>1
  <2>3. PlainFrames(i, fs)'
    BY <1>1, <2>2, TreeFrames
  <2>4. fs = Fr(z)'
    BY <1>2 DEF Fr
  <2>5. QED
    BY <1>5, <2>3, <2>4
<1>10. QED
  BY <1>8, <1>9

\* Who is heard of next: the one that is called.
LEMMA ViewSeen ==
  ASSUME Loops, FramesOK, NEW fs, LeafView(fs) \/ IntoView(fs) \/ PopView(fs)
  PROVE  /\ PopView(fs) => Seen' = Seen
         /\ ~PopView(fs) => Kid \in Family /\ Seen' = Seen \cup {Kid}
<1>1. BuildType /\ EntriesOK /\ TaskRuns
  BY DEF Loops, LeafView, IntoView, PopView, Works
<1>2. PopView(fs) => Seen' = Seen
  BY DEF PopView, Seen
<1>3. LeafView(fs) \/ IntoView(fs) => Top.todo # <<>> /\ Notes(Kid, KidSite)
  BY DEF LeafView, IntoView
<1>4. ASSUME ~PopView(fs) PROVE Kid \in Family /\ Seen' = Seen \cup {Kid}
  <2>1. Kid \in Family
    BY <1>1, <1>3, <1>4, KidIs
  <2>2. QED
    BY <1>1, <1>3, <1>4, <2>1, SeenNotes
<1>5. QED
  BY <1>2, <1>4

LEMMA ViewEarly ==
  ASSUME Loops, FramesOK, BuildNext, NEW x, EarlyPlain(x),
         NEW fs, LeafView(fs) \/ IntoView(fs) \/ PopView(fs)
  PROVE  EarlyPlain(x)'
<1>1. /\ BuildType /\ EntriesOK /\ TaskRuns /\ tree' = tree /\ tree \in Trees /\ ready' = ready
      /\ DOMAIN tasks' = DOMAIN tasks /\ Works(fs)
  BY DEF Loops, BuildType, LeafView, IntoView, PopView, Works, Reframed
<1>2. PICK m : m = Me
  OBVIOUS
<1>3. PICK n : n = Len(Fr(Me))
  OBVIOUS
<1>4. m \in DOMAIN tasks /\ n \in Nat \ {0} /\ Top = Fr(m)[n] /\ DOMAIN Fr(m) = 1 .. n
  BY <1>1, <1>2, <1>3, RunIs
<1>5. /\ fs \in Seq(Frames) /\ tasks'[m].frames = fs /\ (\A t \in DOMAIN tasks : t # m => tasks'[t] = tasks[t])
      /\ Len(fs) >= n - 1 /\ \A j \in 1 .. n - 1 : fs[j] = Fr(m)[j]
  <2>1. Reframed(fs) /\ Len(fs) >= n - 1 /\ \A j \in 1 .. n - 1 : fs[j] = Fr(m)[j]
    BY <1>1, <1>2, <1>3 DEF Works
  <2>2. fs \in Seq(Frames) /\ \A t \in DOMAIN tasks : t # m => tasks'[t] = tasks[t]
    BY <1>2, <2>1 DEF Reframed
  <2>3. tasks'[m].frames = fs
    BY <1>2, <2>1 DEF Reframed
  <2>4. QED
    BY <2>1, <2>2, <2>3
<1>6. \A j \in 1 .. n - 1 : j \in DOMAIN fs
  BY <1>4, <1>5
<1>7. ASSUME NEW a \in Seen, tree.kind[a] = "gather", NEW i \in DOMAIN CallsOf(a), Opens(a)
      PROVE  Opens(a)'
  <2>1. PICK t \in DOMAIN tasks : \E j \in DOMAIN Fr(t) : Fr(t)[j].agent = a /\ Fr(t)[j].spreads /\ Fr(t)[j].todo = CallsOf(a)
    BY <1>7 DEF Opens
  <2>2. PICK j \in DOMAIN Fr(t) : Fr(t)[j].agent = a /\ Fr(t)[j].spreads /\ Fr(t)[j].todo = CallsOf(a)
    BY <2>1
  <2>3. ~(t = m /\ j = n)
    <3>1. SUFFICES ASSUME t = m, j = n PROVE FALSE
      OBVIOUS
    <3>2. Top.spreads /\ Top.todo = CallsOf(a)
      BY <1>4, <2>2, <3>1
    <3>3. PopView(fs)
      BY <3>2 DEF LeafView, IntoView
    <3>4. CallsOf(a) = <<>>
      BY <3>2, <3>3 DEF PopView
    <3>5. DOMAIN CallsOf(a) = {}
      BY <3>4
    <3>6. QED
      BY <1>7, <3>5
  <2>4. PICK g : g = Fr(t)[j]
    OBVIOUS
  <2>5. t \in DOMAIN tasks' /\ j \in DOMAIN tasks'[t].frames /\ tasks'[t].frames[j] = g
    <3>1. CASE t = m
      <4>1. j \in 1 .. n - 1
        BY <1>4, <2>3, <3>1
      <4>2. QED
        BY <1>1, <1>5, <1>6, <2>4, <3>1, <4>1
    <3>2. CASE t # m
      BY <1>1, <1>5, <2>4, <3>2 DEF Fr
    <3>3. QED
      BY <3>1, <3>2
  <2>6. g.agent = a /\ g.spreads /\ g.todo = CallsOf(a)'
    BY <1>1, <2>2, <2>4, TreeStays
  <2>7. QED
    BY <2>5, <2>6 DEF Opens, Fr
<1>8. ASSUME NEW a, NEW i, Running(x, a, i)
      PROVE  Running(x, a, i)'
  <2>1. PICK k \in DOMAIN ready : \E l \in DOMAIN ready : /\ k < l /\ ready[k].what = "run" /\ ready[l].what = "run"
                             /\ Fr(ready[k].task)[1].agent = a /\ x[ready[k].task] = i
    BY <1>8 DEF Running
  <2>2. PICK t : t = ready[k].task
    OBVIOUS
  <2>3. t \in DOMAIN tasks /\ Live(t)
    BY <1>1, <2>1, <2>2 DEF EntriesOK
  <2>4. Live(t)'
    BY <1>1, <2>3, WorksLoop
  <2>5. tasks'[t].frames[1].agent = a
    BY <1>1, <2>1, <2>2, <2>3, <2>4, FirstStays
  <2>6. QED
    BY <1>1, <2>1, <2>2, <2>5 DEF Running, Fr
<1>9. ASSUME NEW a \in Seen', tree.kind[a] = "gather", NEW i \in DOMAIN CallsOf(a), i # Len(CallsOf(a))
      PROVE  Plain(CallsOf(a)[i]) \/ Opens(a)' \/ Running(x, a, i)'
  <2>1. CASE a \in Seen
    BY <1>7, <1>8, <1>9, <2>1 DEF EarlyPlain
  <2>2. CASE a \notin Seen
    <3>1. a = Kid /\ Kid \in Family /\ ~PopView(fs)
      BY <1>9, <2>2, ViewSeen
    <3>2. ~LeafView(fs)
      <4>1. ~IsLeaf(a)
        BY <1>1, <1>9, <3>1, TreeIs
      <4>2. QED
        BY <3>1, <4>1 DEF LeafView
    <3>3. IntoView(fs) /\ Top.todo # <<>>
      BY <3>1, <3>2 DEF IntoView
    <3>4. PICK g : g = fs[n + 1]
      OBVIOUS
    <3>5. n + 1 \in DOMAIN fs /\ g = Frame(Kid, KidSite, Len(nodes) + 1)
      <4>1. Len(fs) = n + 1 /\ g = Frame(Kid, KidSite, Len(nodes) + 1)
        BY <1>3, <3>3, <3>4 DEF IntoView
      <4>2. n + 1 \in DOMAIN fs
        BY <1>4, <1>5, <4>1
      <4>3. QED
        BY <4>1, <4>2
    <3>6. g.agent = a /\ g.spreads /\ g.todo = CallsOf(a)
      <4>1. PICK s \in Sites : s = KidSite
        BY <1>1, <3>3, KidIs
      <4>2. PICK l \in Nat : l = Len(nodes) + 1
        BY <1>1 DEF BuildType
      <4>3. g = Frame(a, s, l)
        BY <3>1, <3>5, <4>1, <4>2
      <4>4. a \in Family
        BY <3>1
      <4>5. Frame(a, s, l).agent = a /\ Frame(a, s, l).todo = CallsOf(a) /\ Frame(a, s, l).spreads = (tree.kind[a] = "gather")
        BY <1>1, <4>4, FrameIs
      <4>6. QED
        BY <1>9, <4>3, <4>5
    <3>7. g.agent = a /\ g.spreads /\ g.todo = CallsOf(a)'
      BY <1>1, <3>6, TreeStays
    <3>8. m \in DOMAIN tasks' /\ n + 1 \in DOMAIN tasks'[m].frames /\ tasks'[m].frames[n + 1] = g
      BY <1>1, <1>4, <1>5, <3>4, <3>5
    <3>9. Opens(a)'
      BY <3>7, <3>8 DEF Opens, Fr
    <3>10. QED
      BY <3>9
  <2>3. QED
    BY <2>1, <2>2
<1>10. \A a : CallsOf(a)' = CallsOf(a) /\ Within(a)' = Within(a)
  BY <1>1, TreeStays
<1>11. \A c : Plain(c)' <=> Plain(c)
  BY <1>1, <1>10 DEF Plain
<1>12. QED
  BY <1>1, <1>9, <1>10, <1>11 DEF EarlyPlain

\* A node that is recorded where the forward that runs is on top of the stack.
LEMMA MatchesNoted ==
  ASSUME BuildType, Matches, Notes(Kid, KidSite), Innermost.agent = Top.agent, Innermost.path = Top.site
  PROVE  Matches'
<1>1. PICK p : p = KidSite
  OBVIOUS
<1>2. Under(Innermost.path, Innermost.agent, Kid) = p
  BY <1>1 DEF KidSite
<1>3. PICK n \in Nat : n = Len(nodes)
  BY DEF BuildType
<1>4. DOMAIN nodes = 1 .. n /\ DOMAIN nodes' = 1 .. n + 1
  <2>1. nodes \in Seq(Noted) /\ nodes' \in Seq(Noted) /\ Len(nodes') = n + 1
    BY <1>3 DEF BuildType, Notes
  <2>2. QED
    BY <1>3, <2>1
<1>5. nodes'[n + 1].path = p /\ nodes'[n + 1].site = p /\ \A k \in 1 .. n : nodes'[k] = nodes[k]
  <2>1. nodes'[n + 1] = [path |-> p, agent |-> Kid, site |-> p]
    BY <1>1, <1>2, <1>3 DEF Notes
  <2>2. QED
    BY <1>4, <2>1 DEF Notes
<1>6. \A k \in 1 .. n + 1 : k \in 1 .. n \/ k = n + 1
  OBVIOUS
<1>7. QED
  BY <1>4, <1>5, <1>6 DEF Matches

\* A task that goes on keeps all in order.
LEMMA ViewInOrder ==
  ASSUME Loops, FramesOK, SeenOK, ~Doomed, BuildNext, Matches, InOrder,
         NEW fs, LeafView(fs) \/ IntoView(fs) \/ PopView(fs)
  PROVE  Matches' /\ InOrder'
<1>1. /\ BuildType /\ EntriesOK /\ TaskRuns /\ Works(fs) /\ DOMAIN tasks' = DOMAIN tasks
  BY DEF Loops, LeafView, IntoView, PopView, Works, Reframed
<1>2. Me \in DOMAIN tasks /\ Live(Me)
  BY <1>1, RunIs
<1>3. PICK x \in [DOMAIN tasks -> Nat] : /\ Made(x) /\ EarlyPlain(x)
                                         /\ \/ \A t \in DOMAIN tasks : ~Live(t)
                                            \/ \E b \in [DOMAIN tasks -> Nat], z \in DOMAIN tasks : Chain(b, x, z)
  BY DEF InOrder
<1>4. PICK b \in [DOMAIN tasks -> Nat], z \in DOMAIN tasks : Chain(b, x, z)
  BY <1>2, <1>3
<1>5. Chained(b, x, z)
  BY <1>3, <1>4 DEF Chained
<1>6. /\ Len(stack') = b[z] + (Len(fs) - 1)
      /\ \A n \in Nat : n # 0 /\ n <= Len(stack) /\ n <= Len(stack') => stack'[n] = stack[n]
      /\ \A j \in DOMAIN fs : \/ j \in DOMAIN Fr(z) /\ fs[j].agent = Fr(z)[j].agent /\ fs[j].site = Fr(z)[j].site
                              \/ Shown(b[z] + (j - 1), fs[j].agent, fs[j].site)'
  BY <1>5, ViewStack
<1>7. Tip(b, z)' /\ Based(b)' /\ Nested(b)' /\ Roles(b, z)' /\ Lined(x)'
  BY <1>1, <1>5, <1>6, WorksChain
<1>8. OnStack(b)'
  BY <1>1, <1>5, <1>6, WorksOnStack
<1>9. Made(x)' /\ ((\E t \in DOMAIN tasks' : Waits(z, t)') => PlainFrames(x[z], Fr(z))')
  BY <1>5, ViewMade
<1>10. Chain(b, x, z)'
  BY <1>7, <1>8, <1>9 DEF Chain
<1>11. EarlyPlain(x)'
  BY <1>3, ViewEarly
<1>12. InOrder'
  BY <1>1, <1>9, <1>10, <1>11 DEF InOrder
<1>13. Innermost.agent = Top.agent /\ Innermost.path = Top.site
  BY <1>1, <1>5, TopInnermost
<1>14. Matches'
  <2>1. CASE PopView(fs)
    BY <2>1 DEF PopView, Matches
  <2>2. CASE ~PopView(fs)
    <3>1. Notes(Kid, KidSite)
      BY <2>2 DEF LeafView, IntoView
    <3>2. QED
      BY <1>1, <1>13, <3>1, MatchesNoted
  <2>3. QED
    BY <2>1, <2>2
<1>15. QED
  BY <1>12, <1>14

\* A call that is made while what a sibling gathers is suspended: it takes the wrong
\* parent.
LEMMA MissStep ==
  ASSUME Loops, Kept, FramesOK, BuildNext, MissNext
  PROVE  Doomed' \/ ~Matches'
<1>1. /\ BuildType /\ EntriesOK /\ TaskRuns /\ ~Now.err /\ Top.todo # <<>> /\ ~Top.spreads /\ outcome = "tracing"
      /\ Len(Innermost.path) > Len(Top.site)
  BY DEF Loops, MissNext
<1>2. ASSUME Notes(Kid, KidSite) PROVE ~Matches'
  <2>1. PICK n \in Nat : n = Len(nodes)
    BY <1>1 DEF BuildType
  <2>2. n + 1 \in DOMAIN nodes'
    <3>1. nodes' \in Seq(Noted) /\ Len(nodes') = n + 1
      BY <1>2, <2>1 DEF Notes
    <3>2. QED
      BY <3>1
  <2>3. PICK p : p = Under(Innermost.path, Innermost.agent, Kid)
    OBVIOUS
  <2>4. PICK s : s = KidSite
    OBVIOUS
  <2>5. nodes'[n + 1].path = p /\ nodes'[n + 1].site = s
    <3>1. nodes'[n + 1] = [path |-> p, agent |-> Kid, site |-> s]
      BY <1>2, <2>1, <2>3, <2>4 DEF Notes
    <3>2. QED
      BY <3>1
  <2>6. Len(p) = Len(Innermost.path) + 1 /\ Len(s) = Len(Top.site) + 1 /\ Len(Innermost.path) \in Nat /\ Len(Top.site) \in Nat
    <3>1. PICK q : q = Innermost.path
      OBVIOUS
    <3>2. PICK a : a = Innermost.agent
      OBVIOUS
    <3>3. PICK c : c = Kid
      OBVIOUS
    <3>4. q \in Sites /\ a \in Family /\ c \in Family /\ p = Under(q, a, c) /\ tree \in Trees /\ Top.site \in Sites
      BY <1>1, <2>3, <3>1, <3>2, <3>3, InnermostIs, TopIs DEF BuildType
    <3>5. Len(p) = Len(q) + 1
      BY <3>4, UnderIs DEF Sites
    <3>6. Len(s) = Len(Top.site) + 1
      BY <1>1, <2>4, TopIs
    <3>7. Len(q) \in Nat /\ Len(Top.site) \in Nat
      BY <3>4 DEF Sites
    <3>8. QED
      BY <3>1, <3>5, <3>6, <3>7
  <2>7. p # s
    BY <1>1, <2>6
  <2>8. QED
    BY <2>2, <2>5, <2>7 DEF Matches
<1>3. \A fs : LeafView(fs) \/ IntoView(fs) => Notes(Kid, KidSite)
  BY DEF LeafView, IntoView
<1>4. (\A fs : ~PopView(fs)) /\ ~FinishView /\ ~GatherView /\ (\A u : ~HeardView(u)) /\ ~Install
  BY <1>1 DEF PopView, FinishView, GatherView, HeardView, Install, TaskRuns
<1>5. Ends(TRUE) => Doomed'
  BY RaiseDooms
<1>6. QED
  BY <1>2, <1>3, <1>4, <1>5, StepIs

\* Once a node is under the wrong path it stays there.
LEMMA MismatchStays ==
  ASSUME Loops, BuildNext, ~Matches
  PROVE  ~Matches'
<1>1. \A k \in DOMAIN nodes : k \in DOMAIN nodes' /\ nodes'[k] = nodes[k]
  BY SeenGrows
<1>2. PICK k \in DOMAIN nodes : nodes[k].path # nodes[k].site
  BY DEF Matches
<1>3. QED
  BY <1>1, <1>2 DEF Matches

\* As long as no entry is added for a task to run, the order of those that are is kept.
LEMMA LinedShift ==
  ASSUME BuildType, NEW x, Lined(x), Keeps(ready'), \A j \in DOMAIN ready' : ready'[j].what = "run" => Stays(ready', j)
  PROVE  Lined(x)'
<1>1. DOMAIN ready = 1 .. Len(ready) /\ Len(ready) \in Nat
  BY DEF BuildType
<1>2. ASSUME NEW i \in DOMAIN ready', NEW j \in DOMAIN ready', i < j, ready'[i].what = "run", ready'[j].what = "run"
      PROVE  x[ready'[i].task] < x[ready'[j].task] /\ \A k \in i .. j : ready'[k].what = "run"
  <2>1. /\ i \in 1 .. Len(ready) - 1 /\ j \in 1 .. Len(ready) - 1 /\ ready'[i] = ready[i + 1] /\ ready'[j] = ready[j + 1]
        /\ i + 1 \in DOMAIN ready /\ j + 1 \in DOMAIN ready
    BY <1>2 DEF Stays
  <2>2. i + 1 < j + 1
    BY <1>1, <1>2, <2>1
  <2>3. x[ready[i + 1].task] < x[ready[j + 1].task] /\ \A k \in i + 1 .. j + 1 : ready[k].what = "run"
    BY <1>2, <2>1, <2>2 DEF Lined
  <2>4. ASSUME NEW k \in i .. j PROVE ready'[k].what = "run"
    <3>1. k + 1 \in i + 1 .. j + 1 /\ k + 1 \in DOMAIN ready /\ k + 1 # 1 /\ (k + 1) - 1 = k
      BY <1>1, <2>1, <2>4
    <3>2. ready'[(k + 1) - 1] = ready[k + 1]
      BY <3>1 DEF Keeps
    <3>3. QED
      BY <2>3, <3>1, <3>2
  <2>5. QED
    BY <2>1, <2>3, <2>4
<1>3. QED
  BY <1>2 DEF Lined

\* What was plain or not done yet stays so, if no node is added.
LEMMA EarlyStays ==
  ASSUME tree' = tree, nodes' = nodes, NEW x, NEW y, EarlyPlain(x),
         \A a \in Seen : tree.kind[a] = "gather" => \A i \in DOMAIN CallsOf(a) : i # Len(CallsOf(a)) =>
           /\ Opens(a) => Plain(CallsOf(a)[i]) \/ Opens(a)' \/ Running(y, a, i)'
           /\ Running(x, a, i) => Plain(CallsOf(a)[i]) \/ Opens(a)' \/ Running(y, a, i)'
  PROVE  EarlyPlain(y)'
<1>1. \A a : CallsOf(a)' = CallsOf(a) /\ Within(a)' = Within(a)
  BY TreeStays
<1>2. \A c : Plain(c)' <=> Plain(c)
  BY <1>1 DEF Plain
<1>3. Seen' = Seen
  BY DEF Seen
<1>4. \A a \in Seen : tree.kind[a] = "gather" => \A i \in DOMAIN CallsOf(a) : i # Len(CallsOf(a)) =>
        Plain(CallsOf(a)[i]) \/ Opens(a)' \/ Running(y, a, i)'
  BY DEF EarlyPlain
<1>5. QED
  BY <1>1, <1>2, <1>3, <1>4 DEF EarlyPlain

\* The last of the chain is over.
LEMMA FinishIs ==
  ASSUME Loops, NEW b, NEW x, NEW z, Chained(b, x, z), FinishView
  PROVE  /\ BuildType /\ EntriesOK /\ tree' = tree /\ stack' = stack /\ nodes' = nodes /\ DOMAIN tasks' = DOMAIN tasks
         /\ z = Me /\ Live(z) /\ Len(Fr(z)) = 1 /\ Fr(z)[1].todo = <<>> /\ DOMAIN Fr(z) = {1}
         /\ 1 \in DOMAIN ready /\ ready[1].task = z /\ ready[1].what = "run" /\ DOMAIN ready = 1 .. Len(ready) /\ Len(ready) \in Nat
         /\ ~Live(z)' /\ (\A t \in DOMAIN tasks : t # z => tasks'[t] = tasks[t])
         /\ \A t \in DOMAIN tasks : /\ tasks'[t].up = tasks[t].up /\ (Live(t)' <=> Live(t) /\ t # z)
                                    /\ (Suspended(t)' <=> Suspended(t)) /\ (Live(t) /\ t # 1 => tasks[t].up # z)
         /\ z # 1 => Adds(ready', Entry("done", z, FALSE))
<1>1. BuildType /\ EntriesOK /\ TaskRuns /\ ~Now.err /\ Top.todo = <<>> /\ Len(Fr(Me)) = 1 /\ tree' = tree /\ nodes' = nodes /\ Ends(FALSE)
  BY DEF Loops, FinishView, Ends
<1>2. z = Me /\ Live(z) /\ Top = Fr(z)[Len(Fr(z))] /\ Fr(z) \in Seq(Frames) /\ z \in DOMAIN tasks /\ Roles(b, z)
  BY <1>1, TopInnermost DEF Chained, Chain
<1>3. Len(Fr(z)) = 1 /\ Fr(z)[1].todo = <<>> /\ DOMAIN Fr(z) = {1}
  <2>1. Len(Fr(z)) = 1 /\ Fr(z)[1].todo = <<>>
    BY <1>1, <1>2
  <2>2. DOMAIN Fr(z) = {1}
    BY <1>2, <2>1
  <2>3. QED
    BY <2>1, <2>2
<1>4. stack' = stack
  <2>1. stack \in Seq(Stacked) /\ Len(stack) \in Nat
    BY <1>1 DEF BuildType
  <2>2. PICK n : n = Len(Fr(Me))
    OBVIOUS
  <2>3. n = 1 /\ stack' = SubSeq(stack, 1, Len(stack) - (n - 1))
    BY <1>1, <2>2 DEF Ends
  <2>4. Len(stack) - (n - 1) = Len(stack)
    BY <2>1, <2>3
  <2>5. SubSeq(stack, 1, Len(stack)) = stack
    BY <2>1
  <2>6. QED
    BY <2>3, <2>4, <2>5
<1>5. 1 \in DOMAIN ready /\ ready[1].task = z /\ ready[1].what = "run" /\ DOMAIN ready = 1 .. Len(ready) /\ Len(ready) \in Nat
  <2>1. ready # <<>> /\ Now.what = "run"
    BY <1>1 DEF TaskRuns
  <2>2. Now = ready[1] /\ Me = ready[1].task /\ Len(ready) \in Nat \ {0} /\ DOMAIN ready = 1 .. Len(ready)
    BY <1>1, <2>1, NowIs
  <2>3. 1 \in 1 .. Len(ready)
    BY <2>2
  <2>4. QED
    BY <1>2, <2>1, <2>2, <2>3
<1>6. FALSE \in BOOLEAN
  OBVIOUS
<1>7. /\ DOMAIN tasks' = DOMAIN tasks /\ ~Live(z)' /\ (\A t \in DOMAIN tasks : t # z => (Live(t)' <=> Live(t)))
      /\ \A t \in DOMAIN tasks : Suspended(t)' <=> Suspended(t)
  BY <1>1, <1>2, <1>6, EndsLoop
<1>8. (\A t \in DOMAIN tasks : t # z => tasks'[t] = tasks[t]) /\ \A t \in DOMAIN tasks : tasks'[t].up = tasks[t].up
  BY <1>1, <1>2 DEF Ends, Reframed
<1>9. \A t \in DOMAIN tasks : Live(t) /\ t # 1 => tasks[t].up # z
  BY <1>1, <1>2, TipRuns
<1>10. z # 1 => Adds(ready', Entry("done", z, FALSE))
  BY <1>1, <1>2, <1>6, EndsQueue
<1>11. \A t \in DOMAIN tasks : Live(t)' <=> Live(t) /\ t # z
  BY <1>2, <1>7
<1>12. QED
  BY <1>1, <1>2, <1>3, <1>4, <1>5, <1>7, <1>8, <1>9, <1>10, <1>11

\* What the end of a task leaves as it is.
LEMMA FinishKeeps ==
  ASSUME Loops, NEW b, NEW x, NEW z, Chained(b, x, z), FinishView, z # 1
  PROVE  OnStack(b)' /\ Based(b)' /\ Nested(b)' /\ Lined(x)' /\ Made(x)'
<1>1. /\ BuildType /\ EntriesOK /\ tree' = tree /\ stack' = stack /\ nodes' = nodes /\ DOMAIN tasks' = DOMAIN tasks
      /\ ~Live(z)' /\ (\A t \in DOMAIN tasks : t # z => tasks'[t] = tasks[t])
      /\ \A t \in DOMAIN tasks : /\ tasks'[t].up = tasks[t].up /\ (Live(t)' <=> Live(t) /\ t # z)
                                 /\ (Suspended(t)' <=> Suspended(t)) /\ (Live(t) /\ t # 1 => tasks[t].up # z)
      /\ Adds(ready', Entry("done", z, FALSE))
  <2>1. Adds(ready', Entry("done", z, FALSE))
    BY FinishIs
  <2>2. /\ BuildType /\ EntriesOK /\ tree' = tree /\ stack' = stack /\ nodes' = nodes /\ DOMAIN tasks' = DOMAIN tasks
        /\ ~Live(z)' /\ (\A t \in DOMAIN tasks : t # z => tasks'[t] = tasks[t])
    BY FinishIs
  <2>3. \A t \in DOMAIN tasks : /\ tasks'[t].up = tasks[t].up /\ (Live(t)' <=> Live(t) /\ t # z)
                                /\ (Suspended(t)' <=> Suspended(t)) /\ (Live(t) /\ t # 1 => tasks[t].up # z)
    BY FinishIs
  <2>4. QED
    BY <2>1, <2>2, <2>3
<1>2. OnStack(b) /\ Based(b) /\ Nested(b) /\ Lined(x) /\ Made(x)
  BY DEF Chained, Chain
<1>3. ASSUME NEW t \in DOMAIN tasks', NEW fr, fr = tasks'[t].frames, fr # <<>>
      PROVE  t \in DOMAIN tasks /\ Live(t) /\ t # z /\ fr = Fr(t)
  <2>1. Live(t)'
    BY <1>3 DEF Live, Fr
  <2>2. QED
    BY <1>1, <1>3, <2>1 DEF Fr
<1>4. OnStack(b)'
  <2>1. ASSUME NEW t \in DOMAIN tasks', NEW fr, fr = tasks'[t].frames, fr # <<>>, NEW j \in DOMAIN fr
        PROVE  Shown(b[t] + (j - 1), fr[j].agent, fr[j].site)'
    <3>1. Shown(b[t] + (j - 1), fr[j].agent, fr[j].site)
      BY <1>2, <1>3, <2>1 DEF OnStack
    <3>2. QED
      BY <1>1, <3>1 DEF Shown
  <2>2. QED
    BY <2>1 DEF OnStack, Live, Fr
<1>5. Based(b)'
  <2>1. ASSUME NEW t \in DOMAIN tasks', tasks'[t].frames # <<>>, t # 1, NEW u, u = tasks'[t].up
        PROVE  tasks'[u].frames # <<>> /\ b[t] = b[u] + (Len(tasks'[u].frames) - 1)
    <3>1. t \in DOMAIN tasks /\ Live(t) /\ t # z /\ u = tasks[t].up
      BY <1>1, <1>3, <2>1
    <3>2. u \in DOMAIN tasks /\ u # z /\ Live(u) /\ b[t] = b[u] + (Len(Fr(u)) - 1)
      BY <1>1, <1>2, <2>1, <3>1 DEF Based, Loops, GathersOK
    <3>3. tasks'[u] = tasks[u]
      BY <1>1, <3>2
    <3>4. QED
      BY <3>2, <3>3 DEF Fr, Live
  <2>2. QED
    BY <2>1 DEF Based, Live, Fr
<1>6. Nested(b)'
  <2>1. \A t \in DOMAIN tasks : Suspended(t)' => t # z /\ Suspended(t) /\ Fr(t)' = Fr(t) /\ tasks'[t].up = tasks[t].up
    BY <1>1 DEF Suspended, Fr
  <2>2. QED
    BY <1>1, <1>2, <2>1 DEF Nested
<1>7. Lined(x)'
  <2>1. Keeps(ready') /\ \A j \in DOMAIN ready' : ready'[j].what = "run" => Stays(ready', j)
    BY <1>1 DEF Adds, Entry
  <2>2. QED
    BY <1>1, <1>2, <2>1, LinedShift
<1>8. Made(x)'
  <2>1. \A t \in DOMAIN tasks' : \A fr : fr = tasks'[t].frames /\ fr # <<>> /\ t # 1 => MadeFrames(x[t], fr)
    BY <1>2, <1>3 DEF Made
  <2>2. QED
    BY <1>1, <2>1, MadeNext
<1>9. QED
  BY <1>4, <1>5, <1>6, <1>7, <1>8

LEMMA FinishEarly ==
  ASSUME Loops, BuildNext, NEW b, NEW x, NEW z, Chained(b, x, z), FinishView, EarlyPlain(x)
  PROVE  EarlyPlain(x)'
<1>1. /\ BuildType /\ EntriesOK /\ tree' = tree /\ nodes' = nodes /\ DOMAIN tasks' = DOMAIN tasks
      /\ z = Me /\ Live(z) /\ Len(Fr(z)) = 1 /\ Fr(z)[1].todo = <<>> /\ DOMAIN Fr(z) = {1}
      /\ 1 \in DOMAIN ready /\ ready[1].task = z /\ DOMAIN ready = 1 .. Len(ready) /\ Len(ready) \in Nat
      /\ (\A t \in DOMAIN tasks : t # z => tasks'[t] = tasks[t])
      /\ \A t \in DOMAIN tasks : Live(t)' <=> Live(t) /\ t # z
  <2>1. /\ BuildType /\ EntriesOK /\ tree' = tree /\ nodes' = nodes /\ DOMAIN tasks' = DOMAIN tasks
        /\ z = Me /\ Live(z) /\ Len(Fr(z)) = 1 /\ Fr(z)[1].todo = <<>> /\ DOMAIN Fr(z) = {1}
    BY FinishIs
  <2>6. \A t \in DOMAIN tasks : t # z => tasks'[t] = tasks[t]
    BY <2>1 DEF FinishView, Ends, Reframed
  <2>2. 1 \in DOMAIN ready /\ ready[1].task = z
    BY FinishIs
  <2>5. DOMAIN ready = 1 .. Len(ready) /\ Len(ready) \in Nat
    BY <2>1 DEF BuildType
  <2>3. \A t \in DOMAIN tasks : Live(t)' <=> Live(t) /\ t # z
    BY FinishIs
  <2>4. QED
    BY <2>1, <2>2, <2>3, <2>5, <2>6
<1>2. Roles(b, z) /\ z \in DOMAIN tasks /\ ((\E t \in DOMAIN tasks : Waits(z, t)) => PlainFrames(x[z], Fr(z)))
  BY DEF Chained, Chain
<1>3. ASSUME NEW a, NEW i \in DOMAIN CallsOf(a), Opens(a) PROVE Opens(a)'
  <2>1. PICK t \in DOMAIN tasks : \E j \in DOMAIN Fr(t) : Fr(t)[j].agent = a /\ Fr(t)[j].spreads /\ Fr(t)[j].todo = CallsOf(a)
    BY <1>3 DEF Opens
  <2>2. PICK j \in DOMAIN Fr(t) : Fr(t)[j].agent = a /\ Fr(t)[j].spreads /\ Fr(t)[j].todo = CallsOf(a)
    BY <2>1
  <2>3. t # z
    <3>1. SUFFICES ASSUME t = z PROVE FALSE
      OBVIOUS
    <3>2. j = 1 /\ CallsOf(a) = <<>>
      BY <1>1, <2>2, <3>1
    <3>3. DOMAIN CallsOf(a) = {}
      BY <3>2
    <3>4. QED
      BY <1>3, <3>3
  <2>4. t \in DOMAIN tasks' /\ tasks'[t].frames = Fr(t)
    BY <1>1, <2>3 DEF Fr
  <2>5. CallsOf(a)' = CallsOf(a)
    BY <1>1, TreeStays
  <2>6. QED
    BY <2>2, <2>4, <2>5 DEF Opens, Fr
<1>4. ASSUME NEW a, NEW i, Running(x, a, i) PROVE Plain(CallsOf(a)[i]) \/ Running(x, a, i)'
  <2>1. PICK k \in DOMAIN ready : \E l \in DOMAIN ready : /\ k < l /\ ready[k].what = "run" /\ ready[l].what = "run"
                             /\ Fr(ready[k].task)[1].agent = a /\ x[ready[k].task] = i
    BY <1>4 DEF Running
  <2>2. PICK l \in DOMAIN ready : /\ k < l /\ ready[k].what = "run" /\ ready[l].what = "run"
                             /\ Fr(ready[k].task)[1].agent = a /\ x[ready[k].task] = i
    BY <2>1
  <2>3. PICK s : s = ready[k].task
    OBVIOUS
  <2>4. PICK t : t = ready[l].task
    OBVIOUS
  <2>5. s \in DOMAIN tasks /\ Live(s) /\ t \in DOMAIN tasks /\ Live(t) /\ Queued(t)
    BY <1>1, <2>2, <2>3, <2>4 DEF EntriesOK, Queued
  <2>6. k \in Nat \ {0} /\ l \in Nat \ {0} /\ l # 1 /\ l - 1 \in Nat \ {0}
    BY <1>1, <2>2
  <2>7. t # z
    BY <1>1, <2>4, <2>6 DEF EntriesOK
  <2>8. CASE k = 1
    <3>1. s = z
      BY <1>1, <2>3, <2>8
    <3>2. Waits(z, t) /\ z # 1
      <4>1. Waits(z, t)
        BY <1>2, <2>5, <2>7, TipRuns
      <4>2. QED
        BY <4>1 DEF Waits
    <3>3. PlainFrames(x[z], Fr(z))
      BY <1>2, <2>5, <3>2
    <3>4. Plain(KidOf(x[z], Fr(z)))
      BY <1>1, <3>3 DEF PlainFrames
    <3>5. QED
      BY <2>2, <2>3, <3>1, <3>4 DEF KidOf
  <2>9. CASE k # 1
    <3>1. s # z
      BY <1>1, <2>3, <2>9 DEF EntriesOK
    <3>2. z # 1
      <4>1. Waits(z, t)
        BY <1>2, <2>5, <2>7, TipRuns
      <4>2. QED
        BY <4>1 DEF Waits
    <3>3. Keeps(ready')
      BY <3>2, FinishIs DEF Adds
    <3>4. k - 1 \in DOMAIN ready' /\ ready'[k - 1] = ready[k] /\ l - 1 \in DOMAIN ready' /\ ready'[l - 1] = ready[l]
      BY <2>6, <2>9, <3>3 DEF Keeps
    <3>5. k - 1 < l - 1
      BY <2>2, <2>6
    <3>6. tasks'[s].frames[1].agent = a
      BY <1>1, <2>2, <2>3, <2>5, <3>1 DEF Fr
    <3>7. QED
      BY <2>2, <2>3, <3>4, <3>5, <3>6 DEF Running, Fr
  <2>10. QED
    BY <2>8, <2>9
<1>5. QED
  BY <1>1, <1>3, <1>4, EarlyStays

\* The next in the queue takes over from a task that is over.
LEMMA FinishNext ==
  ASSUME Loops, NEW b, NEW x, NEW z, Chained(b, x, z), FinishView, NEW t \in DOMAIN tasks, Waits(z, t)
  PROVE  \E y \in DOMAIN tasks : Chain(b, x, y)'
<1>1. /\ BuildType /\ EntriesOK /\ tree' = tree /\ stack' = stack /\ DOMAIN tasks' = DOMAIN tasks
      /\ z = Me /\ Live(z) /\ Len(Fr(z)) = 1 /\ 1 \in DOMAIN ready /\ ready[1].task = z
  BY FinishIs
<1>2. \A s \in DOMAIN tasks : tasks'[s].up = tasks[s].up /\ (Live(s)' <=> Live(s) /\ s # z) /\ (Suspended(s)' <=> Suspended(s))
  BY FinishIs
<1>3. \A s \in DOMAIN tasks : s # z => tasks'[s] = tasks[s]
  BY <1>1 DEF FinishView, Ends, Reframed
<1>4. /\ Tip(b, z) /\ Based(b) /\ Roles(b, z) /\ Lined(x) /\ z \in DOMAIN tasks /\ z # 1 /\ DOMAIN ready = 1 .. Len(ready) /\ Len(ready) \in Nat
      /\ b \in [DOMAIN tasks -> Nat]
  BY <1>1 DEF Chained, Chain, Waits, BuildType
<1>5. Adds(ready', Entry("done", z, FALSE))
  BY <1>4, FinishIs
<1>6. PICK j \in DOMAIN ready : j > 1 /\ ready[j].task = t
  <2>1. PICK i \in DOMAIN ready : \E k \in DOMAIN ready : i < k /\ ready[i].task = z /\ ready[k].task = t
    BY DEF Waits
  <2>2. i = 1
    BY <1>1, <2>1 DEF EntriesOK
  <2>3. QED
    BY <2>1, <2>2
<1>7. 2 \in DOMAIN ready /\ ready[2].what = "run"
  <2>1. Live(t)
    BY DEF Waits
  <2>2. ready[j].what = "run" /\ ready[1].what = "run"
    BY <1>1, <1>6, <2>1 DEF EntriesOK
  <2>3. 2 \in 1 .. j /\ 2 \in DOMAIN ready
    BY <1>4, <1>6
  <2>4. QED
    BY <1>1, <1>4, <1>6, <2>2, <2>3 DEF Lined
<1>8. PICK y : y = ready[2].task
  OBVIOUS
<1>9. y \in DOMAIN tasks /\ Live(y) /\ Queued(y) /\ y # z
  <2>1. y \in DOMAIN tasks /\ Live(y) /\ Queued(y)
    BY <1>1, <1>7, <1>8 DEF EntriesOK, Queued
  <2>2. 1 # 2
    OBVIOUS
  <2>3. QED
    BY <1>1, <1>7, <1>8, <2>1, <2>2 DEF EntriesOK
<1>10. Waits(z, y)
  BY <1>4, <1>9, TipRuns
<1>11. y # 1 /\ tasks[y].up = tasks[z].up /\ Len(Fr(y)) = 1 /\ Fr(y)[1].todo # <<>> /\ b[y] = b[z]
  BY <1>1, <1>4, <1>9, <1>10, WaitsBeside DEF Waits
<1>12. Fr(y)' = Fr(y) /\ Live(y)'
  BY <1>2, <1>3, <1>9 DEF Fr
<1>13. OnStack(b)' /\ Based(b)' /\ Nested(b)' /\ Lined(x)'
  BY <1>4, FinishKeeps
<1>14. Tip(b, y)'
  <2>1. Live(1)' /\ b[1] = 0 /\ 1 \in DOMAIN tasks
    BY <1>2, <1>4 DEF Tip, Loops, GathersOK
  <2>2. Len(stack) = b[z] + (Len(Fr(z)) - 1)
    BY <1>4 DEF Tip
  <2>3. Len(stack') = b[y] + (Len(Fr(y)) - 1)
    BY <1>1, <1>11, <2>2
  <2>4. QED
    BY <1>1, <1>9, <1>12, <2>1, <2>3 DEF Tip
<1>15. ASSUME NEW s \in DOMAIN tasks, Live(s)', s # y PROVE Holds(b, y, s)' \/ Waits(y, s)'
  <2>1. Live(s) /\ s # z /\ Fr(s)' = Fr(s)
    BY <1>2, <1>3, <1>15 DEF Fr
  <2>2. CASE Holds(b, z, s)
    <3>1. /\ Suspended(s) /\ s <= tasks[z].up /\ b[s] + (Len(Fr(s)) - 1) <= b[z]
          /\ \E k \in DOMAIN tasks : k # 1 /\ Live(k) /\ tasks[k].up = s
      BY <2>2 DEF Holds
    <3>2. Suspended(s)' /\ s <= tasks'[y].up /\ b[s] + (Len(Fr(s)') - 1) <= b[y]
      BY <1>2, <1>9, <1>11, <2>1, <3>1
    <3>3. \E k \in DOMAIN tasks' : k # 1 /\ Live(k)' /\ tasks'[k].up = s
      <4>1. PICK k \in DOMAIN tasks : k # 1 /\ Live(k) /\ tasks[k].up = s
        BY <3>1
      <4>2. CASE k = z
        BY <1>1, <1>2, <1>9, <1>11, <1>12, <4>1, <4>2
      <4>3. CASE k # z
        BY <1>1, <1>2, <4>1, <4>3
      <4>4. QED
        BY <4>2, <4>3
    <3>4. QED
      BY <1>11, <3>2, <3>3 DEF Holds
  <2>3. CASE Waits(z, s)
    <3>1. /\ s # 1 /\ tasks[s].up = tasks[z].up /\ Len(Fr(s)) = 1 /\ Fr(s)[1].todo # <<>>
      BY <2>3 DEF Waits
    <3>2. PICK i \in DOMAIN ready : i > 1 /\ ready[i].task = s
      <4>1. PICK h \in DOMAIN ready : \E k \in DOMAIN ready : h < k /\ ready[h].task = z /\ ready[k].task = s
        BY <2>3 DEF Waits
      <4>2. h = 1
        BY <1>1, <4>1 DEF EntriesOK
      <4>3. QED
        BY <4>1, <4>2
    <3>3. i # 2
      BY <1>8, <1>15, <3>2
    <3>4. i - 1 \in DOMAIN ready' /\ ready'[i - 1] = ready[i]
      BY <1>4, <1>5, <3>2 DEF Adds, Keeps
    <3>5. 1 \in DOMAIN ready' /\ ready'[1] = ready[2]
      <4>1. 2 # 1 /\ 2 - 1 = 1
        OBVIOUS
      <4>2. 2 - 1 \in DOMAIN ready' /\ ready'[2 - 1] = ready[2]
        BY <1>5, <1>7, <4>1 DEF Adds, Keeps
      <4>3. QED
        BY <4>1, <4>2
    <3>6. 1 < i - 1
      BY <1>4, <3>2, <3>3
    <3>7. \E h, k \in DOMAIN ready' : h < k /\ ready'[h].task = y /\ ready'[k].task = s
      BY <1>8, <3>2, <3>4, <3>5, <3>6
    <3>8. QED
      BY <1>2, <1>9, <1>11, <1>15, <2>1, <3>1, <3>7 DEF Waits
  <2>4. QED
    BY <1>4, <2>1, <2>2, <2>3 DEF Roles
<1>16. Roles(b, y)'
  BY <1>1, <1>15 DEF Roles
<1>17. PlainFrames(x[y], Fr(y))'
  <2>1. PICK fr : fr = Fr(y)
    OBVIOUS
  <2>2. PICK i : i = x[y]
    OBVIOUS
  <2>3. fr \in Seq(Frames) /\ DOMAIN fr = {1}
    <3>1. Fr(y) \in Seq(Frames)
      BY <1>1, <1>9, FramesTyped
    <3>2. QED
      BY <1>11, <2>1, <3>1
  <2>4. PlainFrames(i, fr)
    BY <1>11, <2>1, <2>3 DEF PlainFrames
  <2>5. PlainFrames(i, fr)'
    BY <1>1, <2>4, TreeFrames
  <2>6. QED
    BY <1>12, <2>1, <2>2, <2>5
<1>18. Chain(b, x, y)'
  BY <1>13, <1>14, <1>16, <1>17 DEF Chain
<1>19. QED
  BY <1>9, <1>18

\* The one that gathers takes over from the last of its tasks.
LEMMA FinishLast ==
  ASSUME Loops, Kept, ~Doomed, NEW b, NEW x, NEW z, Chained(b, x, z), FinishView, z # 1, \A t \in DOMAIN tasks : ~Waits(z, t)
  PROVE  \E y \in DOMAIN tasks : Chain(b, x, y)'
<1>1. /\ BuildType /\ EntriesOK /\ tree' = tree /\ stack' = stack /\ DOMAIN tasks' = DOMAIN tasks
      /\ z = Me /\ Live(z) /\ Len(Fr(z)) = 1
  BY FinishIs
<1>2. \A s \in DOMAIN tasks : tasks'[s].up = tasks[s].up /\ (Live(s)' <=> Live(s) /\ s # z) /\ (Suspended(s)' <=> Suspended(s))
  BY FinishIs
<1>3. \A s \in DOMAIN tasks : s # z => tasks'[s] = tasks[s]
  BY <1>1 DEF FinishView, Ends, Reframed
<1>4. Tip(b, z) /\ Based(b) /\ Nested(b) /\ Roles(b, z) /\ z \in DOMAIN tasks /\ b \in [DOMAIN tasks -> Nat]
  BY DEF Chained, Chain
<1>5. PICK u : u = tasks[z].up
  OBVIOUS
<1>6. u \in DOMAIN tasks /\ Suspended(u) /\ Live(u) /\ u # z /\ b[z] = b[u] + (Len(Fr(u)) - 1)
  <2>1. u \in DOMAIN tasks /\ Suspended(u)
    BY <1>1, <1>4, <1>5, AllSleep
  <2>2. ~Suspended(z)
    <3>1. 1 \in DOMAIN ready /\ ready[1].task = z
      BY FinishIs
    <3>2. Queued(z)
      BY <3>1 DEF Queued
    <3>3. QED
      BY <3>2 DEF Suspended
  <2>3. QED
    BY <1>1, <1>4, <1>5, <2>1, <2>2 DEF Suspended, Based
<1>7. OnStack(b)' /\ Based(b)' /\ Nested(b)' /\ Lined(x)'
  BY FinishKeeps
<1>8. Live(u)' /\ Suspended(u)' /\ Fr(u)' = Fr(u)
  BY <1>2, <1>3, <1>6 DEF Fr
<1>9. Tip(b, u)'
  <2>1. Live(1)' /\ b[1] = 0 /\ 1 \in DOMAIN tasks
    BY <1>2, <1>4 DEF Tip, Loops, GathersOK
  <2>2. Len(stack) = b[z] + (Len(Fr(z)) - 1) /\ b[z] \in Nat
    BY <1>4 DEF Tip
  <2>3. Len(stack') = b[u] + (Len(Fr(u)) - 1)
    BY <1>1, <1>6, <2>2
  <2>4. QED
    BY <1>1, <1>6, <1>8, <2>1, <2>3 DEF Tip
<1>10. ASSUME NEW s \in DOMAIN tasks, Live(s)', s # u PROVE Holds(b, u, s)' /\ Suspended(s)'
  <2>1. Live(s) /\ s # z /\ Fr(s)' = Fr(s)
    BY <1>2, <1>3, <1>10 DEF Fr
  <2>2. /\ Suspended(s) /\ s <= u /\ \E k \in DOMAIN tasks : k # 1 /\ Live(k) /\ tasks[k].up = s
    BY <1>4, <1>5, <2>1 DEF Roles, Holds
  <2>3. s < u /\ u # 1
    <3>1. s \in Nat \ {0} /\ u \in Nat \ {0}
      <4>1. DOMAIN tasks = 1 .. Len(tasks)
        BY <1>1 DEF BuildType
      <4>2. QED
        BY <1>6, <4>1
    <3>2. QED
      BY <1>10, <2>2, <3>1
  <2>4. s <= tasks[u].up /\ b[s] + (Len(Fr(s)) - 1) <= b[u]
    BY <1>4, <1>6, <2>2, <2>3 DEF Nested
  <2>5. \E k \in DOMAIN tasks' : k # 1 /\ Live(k)' /\ tasks'[k].up = s
    BY <1>1, <1>2, <1>5, <1>10, <2>2
  <2>6. QED
    BY <1>2, <1>6, <2>1, <2>2, <2>3, <2>4, <2>5 DEF Holds
<1>11. Roles(b, u)'
  BY <1>1, <1>10 DEF Roles
<1>12. ASSUME NEW s \in DOMAIN tasks', Waits(u, s)' PROVE FALSE
  <2>1. s \in DOMAIN tasks /\ Live(s)' /\ Queued(s)'
    BY <1>1, <1>12 DEF Waits, Queued
  <2>2. Suspended(s)'
    BY <1>8, <1>10, <2>1
  <2>3. QED
    BY <2>1, <2>2 DEF Suspended
<1>13. Chain(b, x, u)'
  BY <1>7, <1>9, <1>11, <1>12 DEF Chain
<1>14. QED
  BY <1>6, <1>13

\* A task that is over keeps all in order.
LEMMA FinishInOrder ==
  ASSUME Loops, Kept, ~Doomed, BuildNext, Matches, InOrder, FinishView
  PROVE  Matches' /\ InOrder'
<1>1. BuildType /\ EntriesOK /\ TaskRuns /\ nodes' = nodes
  BY DEF Loops, FinishView, Ends
<1>2. Me \in DOMAIN tasks /\ Live(Me)
  BY <1>1, RunIs
<1>3. PICK x \in [DOMAIN tasks -> Nat] : /\ Made(x) /\ EarlyPlain(x)
                                         /\ \/ \A t \in DOMAIN tasks : ~Live(t)
                                            \/ \E b \in [DOMAIN tasks -> Nat], z \in DOMAIN tasks : Chain(b, x, z)
  BY DEF InOrder
<1>4. PICK b \in [DOMAIN tasks -> Nat], z \in DOMAIN tasks : Chain(b, x, z)
  BY <1>2, <1>3
<1>5. Chained(b, x, z)
  BY <1>3, <1>4 DEF Chained
<1>6. EarlyPlain(x)'
  BY <1>3, <1>5, FinishEarly
<1>7. tree' = tree /\ DOMAIN tasks' = DOMAIN tasks /\ \A t \in DOMAIN tasks : Live(t)' <=> Live(t) /\ t # z
  BY <1>5, FinishIs
<1>8. InOrder'
  <2>1. CASE z = 1
    <3>1. \A t \in DOMAIN tasks : ~Live(t)'
      BY <1>4, <1>7, <2>1 DEF Chain, Roles, Holds, Waits
    <3>2. \A t \in DOMAIN tasks' : tasks'[t].frames = <<>>
      BY <1>7, <3>1 DEF Live, Fr
    <3>3. Made(x)'
      BY <1>7, <3>2, MadeNext
    <3>4. QED
      BY <1>3, <1>6, <1>7, <3>1, <3>3 DEF InOrder
  <2>2. CASE z # 1
    <3>1. \E y \in DOMAIN tasks : Chain(b, x, y)'
      BY <1>5, <2>2, FinishNext, FinishLast
    <3>2. Made(x)'
      BY <1>5, <2>2, FinishKeeps
    <3>3. QED
      BY <1>3, <1>4, <1>6, <1>7, <3>1, <3>2 DEF InOrder
  <2>3. QED
    BY <2>1, <2>2
<1>9. QED
  BY <1>1, <1>8 DEF Matches

\* What waits behind the last of the chain was made by the same gather, for a later call.
LEMMA WaitsLater ==
  ASSUME Loops, NEW b, NEW x, NEW z, Chained(b, x, z), TaskRuns, NEW t \in DOMAIN tasks, Waits(z, t)
  PROVE  /\ Fr(t)[1].agent = Fr(z)[1].agent /\ Fr(t)[1].site = Fr(z)[1].site
         /\ x[z] \in DOMAIN CallsOf(Fr(z)[1].agent) /\ x[z] # Len(CallsOf(Fr(z)[1].agent))
<1>1. /\ BuildType /\ EntriesOK /\ OnStack(b) /\ Based(b) /\ Lined(x) /\ Made(x) /\ z \in DOMAIN tasks /\ Live(z) /\ z = Me
      /\ tree \in Trees
  <2>1. BuildType /\ EntriesOK /\ Tip(b, z) /\ OnStack(b) /\ Based(b) /\ Lined(x) /\ Made(x) /\ z \in DOMAIN tasks
    BY DEF Loops, Chained, Chain
  <2>2. z = Me
    BY TopInnermost
  <2>3. QED
    BY <2>1, <2>2 DEF Tip, BuildType
<1>2. Live(t) /\ t # 1 /\ z # 1
  BY DEF Waits
<1>3. b[t] = b[z] /\ 1 \in DOMAIN Fr(t) /\ 1 \in DOMAIN Fr(z)
  BY <1>1, <1>2, WaitsBeside, FramesTyped
<1>4. Shown(b[z] + (1 - 1), Fr(t)[1].agent, Fr(t)[1].site) /\ Shown(b[z] + (1 - 1), Fr(z)[1].agent, Fr(z)[1].site)
  BY <1>1, <1>2, <1>3 DEF OnStack
<1>5. Fr(t)[1].agent = Fr(z)[1].agent /\ Fr(t)[1].site = Fr(z)[1].site
  BY <1>1, <1>4, ShownOnce
<1>6. PICK c : c = CallsOf(Fr(z)[1].agent)
  OBVIOUS
<1>7. x[z] \in DOMAIN c /\ x[t] \in DOMAIN c
  BY <1>1, <1>2, <1>5, <1>6 DEF Made, MadeFrames
<1>8. x[z] < x[t]
  <2>1. PICK i \in DOMAIN ready : \E k \in DOMAIN ready : i < k /\ ready[i].task = z /\ ready[k].task = t
    BY DEF Waits
  <2>2. PICK k \in DOMAIN ready : i < k /\ ready[i].task = z /\ ready[k].task = t
    BY <2>1
  <2>3. ready[i].what = "run" /\ ready[k].what = "run"
    BY <1>1, <1>2, <2>2 DEF EntriesOK
  <2>4. QED
    BY <1>1, <2>2, <2>3 DEF Lined
<1>9. c \in Seq(Family)
  <2>1. Fr(z) \in Seq(Frames)
    BY <1>1, FramesTyped
  <2>2. Fr(z)[1] \in Frames
    BY <1>3, <2>1
  <2>3. Fr(z)[1].agent \in Family
    BY <2>2 DEF Frames
  <2>4. QED
    BY <1>1, <1>6, <2>3, TreeIs
<1>10. x[z] # Len(c)
  BY <1>7, <1>8, <1>9
<1>11. QED
  BY <1>5, <1>6, <1>7, <1>10

\* A gather beside a call that waits: it is not calm, and that call comes next.
LEMMA GatherMisses ==
  ASSUME Loops, Kept, ~Doomed, FramesOK, NodesOK, NEW b, NEW x, NEW z, Chained(b, x, z), GatherView,
         NEW t \in DOMAIN tasks, Waits(z, t)
  PROVE  ~Calm' /\ MissNext'
<1>1. /\ BuildType /\ EntriesOK /\ GathersOK /\ TaskRuns /\ tree' = tree /\ stack' = stack /\ outcome' = outcome /\ tree \in Trees
      /\ Top.spreads /\ Top.todo # <<>>
  BY DEF Loops, BuildType, GatherView
<1>2. PICK n \in Nat \ {0} : n = Len(Fr(z))
  BY <1>1, TopInnermost
<1>3. /\ Innermost.path = Top.site /\ (Top.site # <<>> => stack # <<>>) /\ z = Me /\ Live(z) /\ Top = Fr(z)[n] /\ Fr(z) \in Seq(Frames)
  BY <1>1, <1>2, TopInnermost
<1>4. z # 1 /\ z \in DOMAIN tasks /\ Tip(b, z) /\ Made(x) /\ Roles(b, z) /\ Lined(x)
  BY DEF Waits, Chained, Chain
<1>5. /\ tree.kind[Top.agent] = "gather" /\ n # 1 /\ Len(Top.site) = Len(Fr(z)[1].site) + (n - 1)
  BY <1>1, <1>2, <1>3, <1>4, TopIs
<1>6. n \in DOMAIN Fr(z) /\ 1 \in DOMAIN Fr(z)
  BY <1>2, <1>3
<1>7. PICK a : a = Fr(z)[1].agent
  OBVIOUS
<1>8. PICK i : i = x[z]
  OBVIOUS
<1>9. i \in DOMAIN CallsOf(a) /\ i # Len(CallsOf(a))
  BY <1>1, <1>7, <1>8, WaitsLater
<1>10. ~Plain(CallsOf(a)[i])
  <2>1. MadeFrames(i, Fr(z))
    BY <1>3, <1>4, <1>8 DEF Made
  <2>2. Top.agent \in Within(KidOf(i, Fr(z)))
    BY <1>3, <1>5, <1>6, <2>1 DEF MadeFrames
  <2>3. QED
    BY <1>5, <1>7, <2>2 DEF Plain, KidOf
<1>11. a \in Within(tree.root) /\ tree.kind[a] = "gather"
  <2>1. FrameOK(Fr(z)[1], z, 1)
    BY <1>4, <1>6 DEF FramesOK
  <2>2. a \in Seen /\ tree.kind[a] = "gather"
    BY <1>4, <1>7, <2>1 DEF FrameOK
  <2>3. QED
    BY <2>2 DEF Seen, NodesOK
<1>12. ~Calm
  BY <1>1, <1>9, <1>10, <1>11, CalmIs
<1>13. ~Calm'
  BY <1>1, <1>12, TreeStays
<1>14. 1 \in DOMAIN ready /\ ready[1].task = z /\ ready[1].what = "run" /\ DOMAIN ready = 1 .. Len(ready) /\ Len(ready) \in Nat
  <2>1. ready # <<>> /\ Now.what = "run"
    BY <1>1 DEF TaskRuns
  <2>2. Now = ready[1] /\ Me = ready[1].task /\ Len(ready) \in Nat \ {0} /\ DOMAIN ready = 1 .. Len(ready)
    BY <1>1, <2>1, NowIs
  <2>3. 1 \in 1 .. Len(ready)
    BY <2>2
  <2>4. QED
    BY <1>3, <2>1, <2>2, <2>3
<1>15. 2 \in DOMAIN ready /\ ready[2].what = "run"
  <2>1. PICK h \in DOMAIN ready : \E j \in DOMAIN ready : h < j /\ ready[h].task = z /\ ready[j].task = t
    BY DEF Waits
  <2>2. PICK j \in DOMAIN ready : h < j /\ ready[h].task = z /\ ready[j].task = t
    BY <2>1
  <2>3. h = 1 /\ ready[j].what = "run"
    BY <1>1, <1>14, <2>2 DEF EntriesOK, Waits
  <2>4. 2 \in 1 .. j /\ 2 \in DOMAIN ready /\ 1 < j
    BY <1>14, <2>2, <2>3
  <2>5. QED
    BY <1>4, <1>14, <2>2, <2>3, <2>4 DEF Lined
<1>16. PICK y : y = ready[2].task
  OBVIOUS
<1>17. y \in DOMAIN tasks /\ Live(y) /\ Queued(y) /\ y # z /\ ~ready[2].err
  <2>1. y \in DOMAIN tasks /\ Live(y) /\ Queued(y)
    BY <1>1, <1>15, <1>16 DEF EntriesOK, Queued
  <2>2. 1 # 2
    OBVIOUS
  <2>3. y # z
    BY <1>1, <1>14, <1>15, <1>16, <2>2 DEF EntriesOK
  <2>4. ~ready[2].err
    BY <1>15, NoError
  <2>5. QED
    BY <2>1, <2>3, <2>4
<1>18. Waits(z, y)
  BY <1>4, <1>17, TipRuns
<1>19. PICK f : f = Fr(y)[1]
  OBVIOUS
<1>20. f.todo # <<>> /\ ~f.spreads /\ f.site = Fr(z)[1].site /\ Len(Fr(y)) = 1 /\ Fr(y) \in Seq(Frames)
  <2>1. f.todo # <<>> /\ Len(Fr(y)) = 1 /\ y # 1
    BY <1>18, <1>19 DEF Waits
  <2>2. f.site = Fr(z)[1].site
    BY <1>1, <1>17, <1>18, <1>19, WaitsLater
  <2>3. Fr(y) \in Seq(Frames) /\ 1 \in DOMAIN Fr(y)
    BY <1>1, <1>17, FramesTyped
  <2>4. ~f.spreads
    BY <1>17, <1>19, <2>1, <2>3 DEF FramesOK, FrameOK
  <2>5. QED
    BY <2>1, <2>2, <2>3, <2>4
<1>21. PICK q : q = ready'
  OBVIOUS
<1>22. q # <<>> /\ Head(q) = ready[2]
  <2>1. q \in Seq(Queue) /\ Len(ready) - 1 \in Nat
    BY <1>14, <1>21 DEF GatherView
  <2>2. 1 \in 1 .. Len(ready) - 1
    BY <1>14, <1>15
  <2>3. q[1] = ready[1 + 1]
    BY <1>21, <2>2 DEF GatherView
  <2>4. 1 \in DOMAIN q
    <3>1. Keeps(q)
      BY <1>21, GatherQueue
    <3>2. 2 # 1 /\ 2 - 1 = 1
      OBVIOUS
    <3>3. QED
      BY <1>15, <3>1, <3>2 DEF Keeps
  <2>5. q # <<>> /\ Head(q) = q[1] /\ 1 + 1 = 2
    BY <2>1, <2>4
  <2>6. QED
    BY <2>3, <2>5
<1>23. Now' = ready[2]
  BY <1>21, <1>22 DEF Now
<1>24. Me' = y /\ TaskRuns' /\ ~Now'.err
  BY <1>15, <1>16, <1>17, <1>21, <1>22, <1>23 DEF Me, TaskRuns
<1>25. Top' = f
  <2>1. tasks'[y] = tasks[y]
    BY <1>3, <1>17 DEF GatherView
  <2>2. Top' = Last(Fr(y))
    BY <1>24, <2>1 DEF Top, Fr
  <2>3. QED
    BY <1>19, <1>20, <2>2 DEF Last
<1>26. outcome' = "tracing"
  BY <1>1, <1>4 DEF Tip, GathersOK
<1>27. Innermost' = Innermost
  BY <1>1 DEF Innermost
<1>28. Len(Innermost'.path) > Len(f.site) /\ stack' # <<>>
  <2>1. Len(Innermost'.path) = Len(f.site) + (n - 1)
    BY <1>3, <1>5, <1>20, <1>27
  <2>2. Len(f.site) \in Nat /\ Top.site \in Sites
    <3>1. f \in Frames
      <4>1. 1 \in DOMAIN Fr(y)
        BY <1>1, <1>17, FramesTyped
      <4>2. QED
        BY <1>19, <1>20, <4>1
    <3>2. f.site \in Sites /\ Top.site \in Sites
      BY <1>1, <3>1, TopIs DEF Frames
    <3>3. QED
      BY <3>2 DEF Sites
  <2>3. Len(Top.site) # 0
    BY <1>2, <1>5, <1>20, <2>2
  <2>4. Top.site # <<>>
    BY <2>3
  <2>5. QED
    BY <1>1, <1>2, <1>3, <1>5, <2>1, <2>2, <2>4
<1>29. MissNext'
  BY <1>20, <1>24, <1>25, <1>26, <1>28 DEF MissNext
<1>30. QED
  BY <1>13, <1>29

\* The last of the chain gathers: where its forwards and the new tasks stand.
Beside(b)  == [t \in DOMAIN tasks' |-> IF t \in DOMAIN tasks THEN b[t] ELSE Len(stack)]
Numbers(x) == [t \in DOMAIN tasks' |-> IF t \in DOMAIN tasks THEN x[t] ELSE t - Len(tasks)]

GatherRuns(z) ==
  /\ BuildType /\ EntriesOK /\ GathersOK /\ TaskRuns /\ tree' = tree /\ tree \in Trees /\ stack' = stack /\ nodes' = nodes
  /\ z = Me /\ z \in DOMAIN tasks /\ Live(z) /\ tree.kind[Top.agent] = "gather" /\ Top.todo = CallsOf(Top.agent) /\ Top.spreads
  /\ z # 1 => Len(Fr(z)) # 1
GatherNew(b, x, N, c, y) ==
  /\ Len(stack) \in Nat /\ Len(tasks) \in Nat /\ Len(Top.todo) \in Nat \ {0} /\ DOMAIN Top.todo = 1 .. Len(Top.todo)
  /\ DOMAIN tasks' = DOMAIN tasks \cup N /\ DOMAIN tasks \cap N = {} /\ 1 \notin N /\ Len(tasks) + 1 \in N /\ 1 \in DOMAIN tasks
  /\ c \in [DOMAIN tasks' -> Nat] /\ (\A t \in DOMAIN tasks : c[t] = b[t]) /\ \A t \in N : c[t] = Len(stack)
  /\ y \in [DOMAIN tasks' -> Nat] /\ (\A t \in DOMAIN tasks : y[t] = x[t])
  /\ \A i \in 1 .. Len(Top.todo) : Len(tasks) + i \in N /\ y[Len(tasks) + i] = i
  /\ \A t \in N : \E i \in 1 .. Len(Top.todo) : t = Len(tasks) + i

LEMMA GatherIs ==
  ASSUME Loops, FramesOK, NEW b, NEW x, NEW z, Chained(b, x, z), GatherView,
         NEW N, N = Fresh, NEW c, c = Beside(b), NEW y, y = Numbers(x)
  PROVE  GatherRuns(z) /\ GatherNew(b, x, N, c, y)
<1>1. /\ BuildType /\ EntriesOK /\ GathersOK /\ TaskRuns /\ tree' = tree /\ tree \in Trees /\ stack' = stack /\ nodes' = nodes
      /\ Top.spreads /\ Top.todo # <<>>
  BY DEF Loops, BuildType, GatherView
<1>2. z = Me /\ z \in DOMAIN tasks /\ Live(z) /\ b \in [DOMAIN tasks -> Nat] /\ x \in [DOMAIN tasks -> Nat]
  BY <1>1, TopInnermost DEF Chained
<1>3. /\ tree.kind[Top.agent] = "gather" /\ Top.todo = CallsOf(Top.agent) /\ (z # 1 => Len(Fr(z)) # 1)
      /\ Top.todo \in Seq(Family)
  BY <1>1, <1>2, TopIs
<1>4. Len(stack) \in Nat /\ Len(tasks) \in Nat /\ Len(Top.todo) \in Nat \ {0} /\ DOMAIN Top.todo = 1 .. Len(Top.todo)
  <2>1. Len(stack) \in Nat /\ Len(tasks) \in Nat
    BY <1>1 DEF BuildType
  <2>2. Len(Top.todo) \in Nat \ {0} /\ DOMAIN Top.todo = 1 .. Len(Top.todo)
    BY <1>1, <1>3
  <2>3. QED
    BY <2>1, <2>2
<1>5. /\ DOMAIN tasks' = DOMAIN tasks \cup N /\ DOMAIN tasks \cap N = {} /\ 1 \notin N
      /\ (\A t \in N : \E i \in 1 .. Len(Top.todo) : t = Len(tasks) + i)
      /\ \A i \in 1 .. Len(Top.todo) : Len(tasks) + i \in N
  BY <1>1, GatherLoop
<1>6. 1 \in DOMAIN tasks
  BY <1>1 DEF GathersOK
<1>7. Len(tasks) + 1 \in N
  <2>1. 1 \in 1 .. Len(Top.todo)
    BY <1>4
  <2>2. QED
    BY <1>5, <2>1
<1>8. c \in [DOMAIN tasks' -> Nat] /\ (\A t \in DOMAIN tasks : c[t] = b[t]) /\ \A t \in N : c[t] = Len(stack)
  BY <1>2, <1>4, <1>5 DEF Beside
<1>9. \A t \in N : t - Len(tasks) \in Nat
  BY <1>4, <1>5
<1>10. y \in [DOMAIN tasks' -> Nat] /\ (\A t \in DOMAIN tasks : y[t] = x[t]) /\ \A t \in N : y[t] = t - Len(tasks)
  BY <1>2, <1>5, <1>9 DEF Numbers
<1>11. \A i \in 1 .. Len(Top.todo) : Len(tasks) + i \in N /\ y[Len(tasks) + i] = i
  <2>1. ASSUME NEW i \in 1 .. Len(Top.todo) PROVE Len(tasks) + i \in N /\ y[Len(tasks) + i] = i
    <3>1. Len(tasks) + i \in N /\ (Len(tasks) + i) - Len(tasks) = i
      BY <1>4, <1>5
    <3>2. QED
      BY <1>10, <3>1
  <2>2. QED
    BY <2>1
<1>12. GatherRuns(z)
  BY <1>1, <1>2, <1>3 DEF GatherRuns
<1>13. GatherNew(b, x, N, c, y)
  BY <1>4, <1>5, <1>6, <1>7, <1>8, <1>10, <1>11 DEF GatherNew
<1>14. QED
  BY <1>12, <1>13

\* The forwards after a gather.
LEMMA GatherFrames ==
  ASSUME Loops, FramesOK, NEW z \in DOMAIN tasks, z = Me, GatherView, NEW N, N = Fresh
  PROVE  /\ \A t \in DOMAIN tasks : t # z => tasks'[t] = tasks[t]
         /\ \A t \in DOMAIN tasks : tasks'[t].up = tasks[t].up
         /\ \A t \in DOMAIN tasks : Len(tasks'[t].frames) = Len(Fr(t)) /\ DOMAIN tasks'[t].frames = DOMAIN Fr(t)
         /\ \A t \in DOMAIN tasks : \A j \in DOMAIN Fr(t) :
              /\ tasks'[t].frames[j].agent = Fr(t)[j].agent /\ tasks'[t].frames[j].site = Fr(t)[j].site
              /\ ~(t = z /\ j = Len(Fr(z))) => tasks'[t].frames[j] = Fr(t)[j]
         /\ \A t \in N : /\ tasks'[t].up = z /\ Len(tasks'[t].frames) = 1 /\ DOMAIN tasks'[t].frames = {1}
                         /\ tasks'[t].frames[1].agent = Top.agent /\ tasks'[t].frames[1].site = Top.site
                         /\ tasks'[t].frames[1].todo = <<Top.todo[t - Len(tasks)]>>
<1>1. BuildType /\ EntriesOK /\ TaskRuns /\ BuildType
  BY DEF Loops, GatherView
<1>2. PICK n \in Nat \ {0} : n = Len(Fr(z))
  BY <1>1, RunIs
<1>3. Fr(z) \in Seq(Frames) /\ Top = Fr(z)[n] /\ DOMAIN Fr(z) = 1 .. n
  <2>1. Fr(z) \in Seq(Frames) /\ Top = Fr(z)[Len(Fr(z))]
    BY <1>1, RunIs
  <2>2. QED
    BY <1>2, <2>1
<1>4. PICK fs : fs = tasks'[z].frames
  OBVIOUS
<1>5. Len(fs) = n /\ fs[n] = Spent(Top) /\ (\A j \in 1 .. n - 1 : fs[j] = Fr(z)[j]) /\ tasks'[z].up = tasks[z].up
      /\ \A t \in DOMAIN tasks : t # z => tasks'[t] = tasks[t]
  BY <1>2, <1>4 DEF GatherView
<1>6. DOMAIN fs = 1 .. n
  <2>1. tasks' \in Seq(Tasks) /\ DOMAIN tasks \subseteq DOMAIN tasks'
    BY GatherLoop DEF GatherView
  <2>2. tasks'[z] \in Tasks
    BY <2>1
  <2>3. fs \in Seq(Frames)
    BY <1>4, <2>2 DEF Tasks
  <2>4. QED
    BY <1>5, <2>3
<1>7. Spent(Top).agent = Top.agent /\ Spent(Top).site = Top.site
  BY <1>1, AdvancedIs
<1>8. ASSUME NEW j \in 1 .. n
      PROVE  /\ fs[j].agent = Fr(z)[j].agent /\ fs[j].site = Fr(z)[j].site
             /\ j # n => fs[j] = Fr(z)[j]
  <2>1. CASE j = n
    BY <1>3, <1>5, <1>7, <2>1
  <2>2. CASE j # n
    <3>1. j \in 1 .. n - 1
      BY <1>8, <2>2
    <3>2. QED
      BY <1>5, <3>1
  <2>3. QED
    BY <2>1, <2>2
<1>9. \A t \in DOMAIN tasks : Len(tasks'[t].frames) = Len(Fr(t)) /\ DOMAIN tasks'[t].frames = DOMAIN Fr(t)
  <2>1. ASSUME NEW t \in DOMAIN tasks PROVE Len(tasks'[t].frames) = Len(Fr(t)) /\ DOMAIN tasks'[t].frames = DOMAIN Fr(t)
    <3>1. CASE t = z
      BY <1>2, <1>3, <1>4, <1>5, <1>6, <3>1
    <3>2. CASE t # z
      BY <1>5, <3>2 DEF Fr
    <3>3. QED
      BY <3>1, <3>2
  <2>2. QED
    BY <2>1
<1>10. \A t \in DOMAIN tasks : \A j \in DOMAIN Fr(t) :
         /\ tasks'[t].frames[j].agent = Fr(t)[j].agent /\ tasks'[t].frames[j].site = Fr(t)[j].site
         /\ ~(t = z /\ j = n) => tasks'[t].frames[j] = Fr(t)[j]
  <2>1. SUFFICES ASSUME NEW t \in DOMAIN tasks, NEW j \in DOMAIN Fr(t)
                 PROVE  /\ tasks'[t].frames[j].agent = Fr(t)[j].agent /\ tasks'[t].frames[j].site = Fr(t)[j].site
                        /\ ~(t = z /\ j = n) => tasks'[t].frames[j] = Fr(t)[j]
    OBVIOUS
  <2>2. CASE t = z
    BY <1>3, <1>4, <1>8, <2>2
  <2>3. CASE t # z
    BY <1>5, <2>3 DEF Fr
  <2>4. QED
    BY <2>2, <2>3
<1>11. ASSUME NEW t \in N
       PROVE  /\ tasks'[t].up = z /\ Len(tasks'[t].frames) = 1 /\ DOMAIN tasks'[t].frames = {1}
              /\ tasks'[t].frames[1].agent = Top.agent /\ tasks'[t].frames[1].site = Top.site
              /\ tasks'[t].frames[1].todo = <<Top.todo[t - Len(tasks)]>>
  <2>1. PICK i \in 1 .. Len(Top.todo) : t = Len(tasks) + i
    BY GatherLoop
  <2>2. i = t - Len(tasks)
    BY <2>1 DEF GatherView
  <2>3. PICK f : f = HandedOf(i)
    OBVIOUS
  <2>4. tasks'[t] = [up |-> z, left |-> 0, woken |-> FALSE, frames |-> <<f>>]
    BY <2>1, <2>3 DEF GatherView, HandedOf
  <2>5. f.agent = Top.agent /\ f.site = Top.site /\ f.todo = <<Top.todo[i]>>
    BY <2>3 DEF HandedOf
  <2>6. tasks'[t].up = z /\ tasks'[t].frames = <<f>>
    BY <2>4
  <2>7. Len(tasks'[t].frames) = 1 /\ DOMAIN tasks'[t].frames = {1} /\ tasks'[t].frames[1] = f
    BY <2>6
  <2>8. QED
    BY <2>2, <2>5, <2>6, <2>7
<1>12. \A t \in DOMAIN tasks : tasks'[t].up = tasks[t].up
  BY <1>5
<1>13. QED
  BY <1>2, <1>5, <1>9, <1>10, <1>11, <1>12

\* After a gather that runs alone: the stack, and who waits for whom.
LEMMA GatherStands ==
  ASSUME Loops, FramesOK, NEW b, NEW x, NEW z, Chained(b, x, z), GatherView,
         NEW N, N = Fresh, NEW c, c = Beside(b), NEW y, y = Numbers(x)
  PROVE  OnStack(c)' /\ Based(c)' /\ Made(y)'
<1>1. /\ BuildType /\ EntriesOK /\ GathersOK /\ TaskRuns /\ tree' = tree /\ tree \in Trees /\ stack' = stack
      /\ z = Me /\ z \in DOMAIN tasks /\ Live(z) /\ Top.todo = CallsOf(Top.agent)
      /\ (z # 1 => Len(Fr(z)) # 1)
  <2>1. GatherRuns(z)
    BY GatherIs
  <2>2. QED
    BY <2>1 DEF GatherRuns
<1>2. /\ Len(Top.todo) \in Nat \ {0} /\ DOMAIN Top.todo = 1 .. Len(Top.todo)
      /\ DOMAIN tasks' = DOMAIN tasks \cup N /\ DOMAIN tasks \cap N = {} /\ 1 \notin N
      /\ (\A t \in DOMAIN tasks : c[t] = b[t]) /\ (\A t \in N : c[t] = Len(stack))
      /\ (\A t \in DOMAIN tasks : y[t] = x[t])
      /\ (\A i \in 1 .. Len(Top.todo) : Len(tasks) + i \in N /\ y[Len(tasks) + i] = i)
      /\ (\A t \in N : \E i \in 1 .. Len(Top.todo) : t = Len(tasks) + i)
      /\ Len(stack) \in Nat
  <2>1. GatherNew(b, x, N, c, y)
    BY GatherIs
  <2>2. QED
    BY <2>1 DEF GatherNew
<1>3. /\ \A t \in DOMAIN tasks : t # z => tasks'[t] = tasks[t]
      /\ \A t \in DOMAIN tasks : tasks'[t].up = tasks[t].up
      /\ \A t \in DOMAIN tasks : Len(tasks'[t].frames) = Len(Fr(t)) /\ DOMAIN tasks'[t].frames = DOMAIN Fr(t)
      /\ \A t \in DOMAIN tasks : \A j \in DOMAIN Fr(t) :
           /\ tasks'[t].frames[j].agent = Fr(t)[j].agent /\ tasks'[t].frames[j].site = Fr(t)[j].site
           /\ ~(t = z /\ j = Len(Fr(z))) => tasks'[t].frames[j] = Fr(t)[j]
  BY <1>1, GatherFrames
<1>4. \A t \in N : /\ tasks'[t].up = z /\ Len(tasks'[t].frames) = 1 /\ DOMAIN tasks'[t].frames = {1}
                   /\ tasks'[t].frames[1].agent = Top.agent /\ tasks'[t].frames[1].site = Top.site
                   /\ tasks'[t].frames[1].todo = <<Top.todo[t - Len(tasks)]>>
  BY <1>1, GatherFrames
<1>5. /\ \A t \in DOMAIN tasks : Live(t)' <=> Live(t)
      /\ \A t \in N : Live(t)'
  BY <1>1, GatherLoop
<1>6. OnStack(b) /\ Based(b) /\ Made(x) /\ Roles(b, z) /\ Len(stack) = b[z] + (Len(Fr(z)) - 1) /\ Shown(Len(stack), Top.agent, Top.site)
  BY <1>1, TopInnermost DEF Chained, Chain
<1>7. OnStack(c)'
  <2>1. ASSUME NEW t \in DOMAIN tasks', NEW fr, fr = tasks'[t].frames, fr # <<>>, NEW j \in DOMAIN fr
        PROVE  Shown(c[t] + (j - 1), fr[j].agent, fr[j].site)'
    <3>1. Live(t)'
      BY <2>1 DEF Live, Fr
    <3>2. CASE t \in DOMAIN tasks
      <4>1. Live(t) /\ j \in DOMAIN Fr(t) /\ fr[j].agent = Fr(t)[j].agent /\ fr[j].site = Fr(t)[j].site /\ c[t] = b[t]
        BY <1>2, <1>3, <1>5, <2>1, <3>1, <3>2
      <4>2. Shown(b[t] + (j - 1), Fr(t)[j].agent, Fr(t)[j].site)
        BY <1>6, <3>2, <4>1 DEF OnStack
      <4>3. Shown(c[t] + (j - 1), fr[j].agent, fr[j].site)
        BY <4>1, <4>2
      <4>4. QED
        BY <1>1, <4>3 DEF Shown
    <3>3. CASE t \in N
      <4>1. fr[j].agent = Top.agent /\ fr[j].site = Top.site /\ j = 1 /\ c[t] = Len(stack)
        BY <1>2, <1>4, <2>1, <3>3
      <4>2. c[t] + (j - 1) = Len(stack)
        BY <1>2, <4>1
      <4>3. Shown(c[t] + (j - 1), fr[j].agent, fr[j].site)
        BY <1>6, <4>1, <4>2
      <4>4. QED
        BY <1>1, <4>3 DEF Shown
    <3>4. QED
      BY <1>2, <3>2, <3>3
  <2>2. QED
    BY <2>1 DEF OnStack, Live, Fr
<1>8. Based(c)'
  <2>1. ASSUME NEW t \in DOMAIN tasks', tasks'[t].frames # <<>>, t # 1, NEW u, u = tasks'[t].up
        PROVE  tasks'[u].frames # <<>> /\ c[t] = c[u] + (Len(tasks'[u].frames) - 1)
    <3>1. Live(t)'
      BY <2>1 DEF Live, Fr
    <3>2. u \in DOMAIN tasks /\ Live(u) /\ c[t] = b[u] + (Len(Fr(u)) - 1)
      <4>1. CASE t \in DOMAIN tasks
        BY <1>1, <1>2, <1>3, <1>5, <1>6, <2>1, <3>1, <4>1 DEF Based, GathersOK
      <4>2. CASE t \in N
        BY <1>1, <1>2, <1>4, <1>6, <2>1, <4>2
      <4>3. QED
        BY <1>2, <4>1, <4>2
    <3>3. Live(u)' /\ Len(tasks'[u].frames) = Len(Fr(u)) /\ c[u] = b[u]
      BY <1>2, <1>3, <1>5, <3>2
    <3>4. QED
      BY <3>2, <3>3 DEF Live, Fr
  <2>2. QED
    BY <2>1 DEF Based, Live, Fr
<1>9. Made(y)'
  <2>1. ASSUME NEW t \in DOMAIN tasks', NEW fr, fr = tasks'[t].frames, fr # <<>>, t # 1
        PROVE  MadeFrames(y[t], fr)
    <3>1. Live(t)'
      BY <2>1 DEF Live, Fr
    <3>2. CASE t \in DOMAIN tasks
      <4>1. PICK i : i = x[t]
        OBVIOUS
      <4>2. PICK g : g = Fr(t)
        OBVIOUS
      <4>3. MadeFrames(i, g) /\ y[t] = i
        BY <1>2, <1>5, <1>6, <2>1, <3>1, <3>2, <4>1, <4>2 DEF Made
      <4>4. DOMAIN fr = DOMAIN g /\ \A j \in DOMAIN g : fr[j].agent = g[j].agent
        BY <1>3, <2>1, <3>2, <4>2
      <4>5. 1 \in DOMAIN g
        BY <1>1, <1>5, <3>1, <3>2, <4>2, FramesTyped
      <4>6. fr[1] = g[1]
        BY <1>1, <1>3, <2>1, <3>2, <4>2, <4>5
      <4>7. MadeFrames(i, fr)
        BY <4>3, <4>4, <4>6 DEF MadeFrames, KidOf
      <4>8. QED
        BY <4>3, <4>7
    <3>3. CASE t \in N
      <4>1. PICK i \in 1 .. Len(Top.todo) : t = Len(tasks) + i
        BY <1>2, <3>3
      <4>2. y[t] = i /\ t - Len(tasks) = i
        BY <1>2, <4>1 DEF GatherView
      <4>3. PICK a : a = Top.agent
        OBVIOUS
      <4>4. /\ fr[1].agent = a /\ fr[1].todo = <<CallsOf(a)[i]>> /\ DOMAIN fr = {1} /\ i \in DOMAIN CallsOf(a)
        BY <1>1, <1>2, <1>4, <2>1, <3>3, <4>2, <4>3
      <4>5. MadeFrames(i, fr)
        BY <4>4 DEF MadeFrames, KidOf
      <4>6. QED
        BY <4>2, <4>5
    <3>4. QED
      BY <1>2, <3>2, <3>3
  <2>2. QED
    BY <1>1, <2>1, MadeNext
<1>10. QED
  BY <1>7, <1>8, <1>9

\* The first of the new tasks is the last of the chain, and the others wait behind it.
LEMMA GatherChain ==
  ASSUME Loops, FramesOK, NEW b, NEW x, NEW z, Chained(b, x, z), GatherView, \A t \in DOMAIN tasks : ~Waits(z, t),
         NEW N, N = Fresh, NEW c, c = Beside(b), NEW y, y = Numbers(x), NEW w, w = Len(tasks) + 1
  PROVE  Tip(c, w)' /\ Nested(c)' /\ Roles(c, w)' /\ Lined(y)' /\ PlainFrames(y[w], Fr(w))'
<1>1. /\ BuildType /\ EntriesOK /\ GathersOK /\ TaskRuns /\ tree' = tree /\ stack' = stack
      /\ z = Me /\ z \in DOMAIN tasks /\ Live(z)
  <2>1. GatherRuns(z)
    BY GatherIs
  <2>2. QED
    BY <2>1 DEF GatherRuns
<1>2. /\ Len(Top.todo) \in Nat \ {0}
      /\ DOMAIN tasks' = DOMAIN tasks \cup N /\ DOMAIN tasks \cap N = {} /\ 1 \notin N /\ w \in N /\ 1 \in DOMAIN tasks
      /\ (\A t \in DOMAIN tasks : c[t] = b[t]) /\ (\A t \in N : c[t] = Len(stack))
      /\ (\A i \in 1 .. Len(Top.todo) : Len(tasks) + i \in N /\ y[Len(tasks) + i] = i)
      /\ (\A t \in N : \E i \in 1 .. Len(Top.todo) : t = Len(tasks) + i)
      /\ Len(stack) \in Nat /\ Len(tasks) \in Nat
  <2>1. GatherNew(b, x, N, c, y)
    BY GatherIs
  <2>2. QED
    BY <2>1 DEF GatherNew
<1>3. /\ \A t \in DOMAIN tasks : tasks'[t].up = tasks[t].up
      /\ \A t \in DOMAIN tasks : Len(tasks'[t].frames) = Len(Fr(t))
  BY <1>1, GatherFrames
<1>4. \A t \in N : /\ tasks'[t].up = z /\ Len(tasks'[t].frames) = 1 /\ DOMAIN tasks'[t].frames = {1}
                   /\ tasks'[t].frames[1].agent = Top.agent /\ tasks'[t].frames[1].site = Top.site
                   /\ tasks'[t].frames[1].todo = <<Top.todo[t - Len(tasks)]>>
  BY <1>1, GatherFrames
<1>5. /\ \A t \in DOMAIN tasks : (Live(t)' <=> Live(t)) /\ (Suspended(t)' <=> Suspended(t) \/ t = z)
      /\ \A t \in N : Live(t)' /\ ~Suspended(t)'
  BY <1>1, GatherLoop
<1>6. /\ Tip(b, z) /\ Nested(b) /\ Roles(b, z) /\ Lined(x) /\ b \in [DOMAIN tasks -> Nat]
      /\ Len(stack) = b[z] + (Len(Fr(z)) - 1) /\ Len(Fr(z)) \in Nat \ {0}
  BY <1>1, TopInnermost DEF Chained, Chain
<1>7. Tip(c, w)'
  <2>1. Live(w)' /\ Live(1)' /\ c[1] = 0 /\ w \in DOMAIN tasks'
    BY <1>2, <1>5, <1>6 DEF Tip
  <2>4. c[w] = Len(stack) /\ Len(tasks'[w].frames) = 1 /\ Len(stack) = Len(stack) + (1 - 1)
    BY <1>2, <1>4
  <2>2. Len(stack') = c[w] + (Len(tasks'[w].frames) - 1)
    BY <1>1, <2>4
  <2>3. QED
    BY <2>1, <2>2 DEF Tip, Fr
<1>8. z # 1 => tasks[z].up < z
  BY <1>1 DEF GathersOK
<1>9. \A t \in DOMAIN tasks : Live(t) /\ t # z => Holds(b, z, t)
  BY <1>6 DEF Roles
<1>10. \A t \in DOMAIN tasks : t \in Nat /\ tasks[t].up \in Nat /\ Len(Fr(t)) \in Nat /\ b[t] \in Nat
  <2>1. DOMAIN tasks \subseteq Nat
    BY <1>1 DEF BuildType
  <2>2. \A t \in DOMAIN tasks : tasks[t].up \in DOMAIN tasks
    BY <1>1 DEF GathersOK
  <2>3. \A t \in DOMAIN tasks : Len(Fr(t)) \in Nat
    BY <1>1, FramesTyped
  <2>4. QED
    BY <1>6, <2>1, <2>2, <2>3
<1>11. Nested(c)'
  <2>1. ASSUME NEW s \in DOMAIN tasks, NEW t \in DOMAIN tasks, Suspended(s) \/ s = z, Suspended(t) \/ t = z, s < t
        PROVE  s <= tasks[t].up /\ b[s] + (Len(Fr(s)) - 1) <= b[t]
    <3>1. CASE t = z
      <4>1. Suspended(s) /\ s # z
        BY <1>10, <2>1, <3>1
      <4>2. Holds(b, z, s)
        BY <1>9, <4>1 DEF Suspended
      <4>3. QED
        BY <3>1, <4>2 DEF Holds
    <3>2. CASE s = z
      <4>1. Suspended(t) /\ t # z
        BY <1>10, <2>1, <3>2
      <4>2. Holds(b, z, t)
        BY <1>9, <4>1 DEF Suspended
      <4>3. t <= tasks[z].up /\ tasks[z].up < z
        BY <1>8, <4>2 DEF Holds
      <4>4. QED
        BY <1>1, <1>10, <2>1, <3>2, <4>3
    <3>3. CASE s # z /\ t # z
      BY <1>6, <2>1, <3>3 DEF Nested
    <3>4. QED
      BY <3>1, <3>2, <3>3
  <2>2. ASSUME NEW s \in DOMAIN tasks', NEW t \in DOMAIN tasks', Suspended(s)', Suspended(t)', s < t
        PROVE  s <= tasks'[t].up /\ c[s] + (Len(tasks'[s].frames) - 1) <= c[t]
    <3>1. s \in DOMAIN tasks /\ t \in DOMAIN tasks /\ (Suspended(s) \/ s = z) /\ (Suspended(t) \/ t = z)
      BY <1>2, <1>5, <2>2
    <3>2. s <= tasks[t].up /\ b[s] + (Len(Fr(s)) - 1) <= b[t]
      BY <2>1, <2>2, <3>1
    <3>3. QED
      BY <1>2, <1>3, <3>1, <3>2
  <2>3. QED
    BY <2>2 DEF Nested, Fr
<1>12. w # 1 /\ tasks'[w].up = z
  BY <1>2, <1>4
<1>13. ASSUME NEW t \in DOMAIN tasks, Live(t)' PROVE Holds(c, w, t)'
  <2>1. Live(t) /\ tasks'[t].up = tasks[t].up /\ c[t] = b[t] /\ Len(tasks'[t].frames) = Len(Fr(t))
    BY <1>2, <1>3, <1>5, <1>13
  <2>2. CASE t = z
    <3>1. Suspended(t)' /\ t <= tasks'[w].up
      BY <1>5, <1>10, <1>12, <2>2
    <3>2. c[t] + (Len(tasks'[t].frames) - 1) <= c[w]
      <4>1. c[w] = Len(stack)
        BY <1>2
      <4>2. c[t] + (Len(tasks'[t].frames) - 1) = Len(stack)
        BY <1>6, <2>1, <2>2
      <4>3. QED
        BY <1>2, <4>1, <4>2
    <3>3. \E k \in DOMAIN tasks' : k # 1 /\ Live(k)' /\ tasks'[k].up = t
      BY <1>2, <1>5, <1>12, <2>2
    <3>4. QED
      BY <1>12, <3>1, <3>2, <3>3 DEF Holds, Fr
  <2>3. CASE t # z
    <3>1. Holds(b, z, t)
      BY <1>9, <2>1, <2>3
    <3>2. /\ Suspended(t) /\ z # 1 /\ t <= tasks[z].up /\ b[t] + (Len(Fr(t)) - 1) <= b[z]
          /\ \E k \in DOMAIN tasks : k # 1 /\ Live(k) /\ tasks[k].up = t
      BY <3>1 DEF Holds
    <3>3. Suspended(t)' /\ t <= tasks'[w].up
      BY <1>1, <1>5, <1>8, <1>10, <1>12, <3>2
    <3>4. c[t] + (Len(tasks'[t].frames) - 1) <= c[w]
      <4>1. PICK p \in Int : p = b[t] + (Len(Fr(t)) - 1)
        BY <1>10
      <4>2. PICK q \in Nat : q = b[z]
        BY <1>1, <1>10
      <4>6. PICK e \in Nat : e = Len(stack)
        BY <1>2
      <4>7. PICK d \in Nat \ {0} : d = Len(Fr(z))
        BY <1>6
      <4>8. p <= q /\ e = q + (d - 1)
        BY <1>6, <3>2, <4>1, <4>2, <4>6, <4>7
      <4>3. p <= e
        BY <4>1, <4>2, <4>6, <4>7, <4>8
      <4>9. c[t] + (Len(tasks'[t].frames) - 1) = p
        BY <2>1, <4>1
      <4>4. p <= Len(stack) /\ c[w] = Len(stack) /\ c[t] + (Len(tasks'[t].frames) - 1) = p
        BY <1>2, <4>3, <4>6, <4>9
      <4>5. QED
        BY <4>4
    <3>5. \E k \in DOMAIN tasks' : k # 1 /\ Live(k)' /\ tasks'[k].up = t
      BY <1>2, <1>3, <1>5, <3>2
    <3>6. QED
      BY <1>12, <3>3, <3>4, <3>5 DEF Holds, Fr
  <2>4. QED
    BY <2>2, <2>3
<1>14. PICK r \in Nat : r = Len(ready) - 1
  <2>1. Len(ready) \in Nat \ {0}
    BY DEF GatherView
  <2>2. Len(ready) - 1 \in Nat
    BY <2>1
  <2>3. QED
    BY <2>2
<1>15. /\ \A i \in 1 .. Len(Top.todo) : r + i \in DOMAIN ready' /\ ready'[r + i].task = Len(tasks) + i /\ ready'[r + i].what = "run"
       /\ \A j \in DOMAIN ready' : Stays(ready', j) \/ (j - r \in 1 .. Len(Top.todo) /\ ready'[j].task = Len(tasks) + (j - r))
  <2>1. /\ \A i \in 1 .. Len(Top.todo) : r + i \in DOMAIN ready' /\ ready'[r + i] = Entry("run", Len(tasks) + i, FALSE)
        /\ \A j \in DOMAIN ready' : Stays(ready', j) \/ (j - r \in 1 .. Len(Top.todo) /\ ready'[j] = Entry("run", Len(tasks) + (j - r), FALSE))
    BY <1>14, GatherQueue
  <2>2. \A e, j : e = Entry("run", j, FALSE) => e.what = "run" /\ e.task = j
    BY DEF Entry
  <2>3. \A i \in 1 .. Len(Top.todo) : r + i \in DOMAIN ready' /\ ready'[r + i].task = Len(tasks) + i /\ ready'[r + i].what = "run"
    BY <2>1, <2>2
  <2>4. \A j \in DOMAIN ready' : Stays(ready', j) \/ (j - r \in 1 .. Len(Top.todo) /\ ready'[j].task = Len(tasks) + (j - r))
    BY <2>1, <2>2
  <2>5. QED
    BY <2>3, <2>4
<1>16. ASSUME NEW t \in N, t # w PROVE Waits(w, t)'
  <2>1. PICK i \in 1 .. Len(Top.todo) : t = Len(tasks) + i
    BY <1>2
  <2>2. i # 1 /\ 1 \in 1 .. Len(Top.todo) /\ 1 < i
    BY <1>16, <2>1
  <2>3. r + 1 < r + i /\ r + 1 \in DOMAIN ready' /\ r + i \in DOMAIN ready' /\ ready'[r + 1].task = w /\ ready'[r + i].task = t
    BY <1>15, <2>1, <2>2
  <2>4. \E h, k \in DOMAIN ready' : h < k /\ ready'[h].task = w /\ ready'[k].task = t
    BY <2>3
  <2>5. tasks'[t].frames[1].todo # <<>>
    <3>1. PICK e : e = Top.todo[t - Len(tasks)]
      OBVIOUS
    <3>2. tasks'[t].frames[1].todo = <<e>>
      BY <1>4, <3>1
    <3>3. QED
      BY <3>2
  <2>6. Live(t)' /\ t # 1 /\ tasks'[t].up = tasks'[w].up /\ Len(tasks'[t].frames) = 1
    BY <1>2, <1>4, <1>5
  <2>7. QED
    BY <1>12, <2>4, <2>5, <2>6 DEF Waits, Fr
<1>17. Roles(c, w)'
  BY <1>2, <1>13, <1>16 DEF Roles
<1>18. \A j \in DOMAIN ready' : ready'[j].what = "run" =>
          j - r \in 1 .. Len(Top.todo) /\ y[ready'[j].task] = j - r
  <2>1. ASSUME NEW j \in DOMAIN ready', ready'[j].what = "run", Stays(ready', j) PROVE FALSE
    <3>1. j + 1 \in DOMAIN ready /\ j + 1 # 1 /\ ready[j + 1].what = "run"
      BY <2>1 DEF Stays
    <3>2. PICK t : t = ready[j + 1].task
      OBVIOUS
    <3>3. t \in DOMAIN tasks /\ Live(t) /\ Queued(t)
      BY <1>1, <3>1, <3>2 DEF EntriesOK, Queued
    <3>4. t = z
      BY <1>1, <1>6, <3>3, TipRuns
    <3>5. 1 \in DOMAIN ready /\ ready[1].task = z
      <4>1. ready # <<>>
        BY <1>1 DEF TaskRuns
      <4>2. ready[1].task = z /\ Len(ready) \in Nat \ {0} /\ DOMAIN ready = 1 .. Len(ready)
        BY <1>1, <4>1, NowIs
      <4>3. QED
        BY <4>2
    <3>6. QED
      BY <1>1, <3>1, <3>2, <3>4, <3>5 DEF EntriesOK
  <2>2. QED
    BY <1>2, <1>15, <2>1
<1>19. Lined(y)'
  <2>1. DOMAIN ready' \subseteq Nat
    BY DEF GatherView
  <2>2. ASSUME NEW i \in DOMAIN ready', NEW j \in DOMAIN ready', i < j, ready'[i].what = "run", ready'[j].what = "run"
        PROVE  y[ready'[i].task] < y[ready'[j].task] /\ \A k \in i .. j : ready'[k].what = "run"
    <3>1. i - r \in 1 .. Len(Top.todo) /\ j - r \in 1 .. Len(Top.todo) /\ y[ready'[i].task] = i - r /\ y[ready'[j].task] = j - r
      BY <1>18, <2>2
    <3>2. i \in Nat /\ j \in Nat
      BY <2>1
    <3>3. i - r < j - r
      BY <2>2, <3>2
    <3>4. ASSUME NEW k \in i .. j PROVE ready'[k].what = "run"
      <4>4. PICK l \in Nat : l = Len(Top.todo)
        BY <1>2
      <4>5. i - r \in 1 .. l /\ j - r \in 1 .. l
        BY <3>1, <4>4
      <4>6. k - r \in 1 .. l /\ r + (k - r) = k
        BY <3>2, <3>4, <4>5
      <4>1. k - r \in 1 .. Len(Top.todo) /\ r + (k - r) = k
        BY <4>4, <4>6
      <4>2. ready'[r + (k - r)].what = "run"
        BY <1>15, <4>1
      <4>3. QED
        BY <4>1, <4>2
    <3>5. QED
      BY <3>1, <3>3, <3>4
  <2>3. QED
    BY <2>2 DEF Lined
<1>20. PlainFrames(y[w], Fr(w))'
  <2>1. PICK fr : fr = tasks'[w].frames
    OBVIOUS
  <2>2. PICK e : e = Top.todo[w - Len(tasks)]
    OBVIOUS
  <2>3. DOMAIN fr = {1} /\ fr[1].todo = <<e>>
    <3>1. DOMAIN tasks'[w].frames = {1}
      BY <1>2, <1>4
    <3>2. tasks'[w].frames[1].todo = <<Top.todo[w - Len(tasks)]>>
      BY <1>2, <1>4
    <3>3. QED
      BY <2>1, <2>2, <3>1, <3>2
  <2>4. PICK i : i = y[w]
    OBVIOUS
  <2>5. <<e>> # <<>>
    OBVIOUS
  <2>6. PlainFrames(i, fr)
    BY <2>3, <2>5 DEF PlainFrames
  <2>7. PlainFrames(i, fr)'
    BY <1>1, <2>6, TreeFrames
  <2>8. QED
    BY <2>1, <2>4, <2>7 DEF Fr
<1>21. QED
  BY <1>7, <1>11, <1>17, <1>19, <1>20

LEMMA GatherEarly ==
  ASSUME Loops, FramesOK, NEW b, NEW x, NEW z, Chained(b, x, z), GatherView, \A t \in DOMAIN tasks : ~Waits(z, t),
         EarlyPlain(x), NEW N, N = Fresh, NEW c, c = Beside(b), NEW y, y = Numbers(x)
  PROVE  EarlyPlain(y)'
<1>1. /\ BuildType /\ EntriesOK /\ TaskRuns /\ tree' = tree /\ tree \in Trees /\ nodes' = nodes
      /\ z = Me /\ z \in DOMAIN tasks /\ Live(z) /\ Top.todo = CallsOf(Top.agent)
  <2>1. GatherRuns(z)
    BY GatherIs
  <2>2. QED
    BY <2>1 DEF GatherRuns
<1>2. /\ Len(Top.todo) \in Nat \ {0} /\ DOMAIN Top.todo = 1 .. Len(Top.todo) /\ DOMAIN tasks' = DOMAIN tasks \cup N
      /\ (\A i \in 1 .. Len(Top.todo) : Len(tasks) + i \in N /\ y[Len(tasks) + i] = i)
  <2>1. GatherNew(b, x, N, c, y)
    BY GatherIs
  <2>2. QED
    BY <2>1 DEF GatherNew
<1>3. /\ \A t \in DOMAIN tasks : DOMAIN tasks'[t].frames = DOMAIN Fr(t)
      /\ \A t \in DOMAIN tasks : \A j \in DOMAIN Fr(t) : ~(t = z /\ j = Len(Fr(z))) => tasks'[t].frames[j] = Fr(t)[j]
      /\ \A t \in N : tasks'[t].frames[1].agent = Top.agent
  BY <1>1, GatherFrames
<1>4. Roles(b, z) /\ Top = Fr(z)[Len(Fr(z))]
  BY <1>1, TopInnermost DEF Chained, Chain
<1>5. ASSUME NEW a, NEW i \in DOMAIN CallsOf(a), i # Len(CallsOf(a)), Opens(a)
      PROVE  Opens(a)' \/ Running(y, a, i)'
  <2>1. PICK t \in DOMAIN tasks : \E j \in DOMAIN Fr(t) : Fr(t)[j].agent = a /\ Fr(t)[j].spreads /\ Fr(t)[j].todo = CallsOf(a)
    BY <1>5 DEF Opens
  <2>2. PICK j \in DOMAIN Fr(t) : Fr(t)[j].agent = a /\ Fr(t)[j].spreads /\ Fr(t)[j].todo = CallsOf(a)
    BY <2>1
  <2>3. CASE ~(t = z /\ j = Len(Fr(z)))
    <3>1. t \in DOMAIN tasks' /\ j \in DOMAIN tasks'[t].frames /\ tasks'[t].frames[j] = Fr(t)[j]
      BY <1>2, <1>3, <2>3
    <3>2. PICK g : g = tasks'[t].frames[j]
      OBVIOUS
    <3>3. g.agent = a /\ g.spreads /\ g.todo = CallsOf(a)'
      BY <1>1, <2>2, <3>1, <3>2, TreeStays
    <3>4. QED
      BY <3>1, <3>2, <3>3 DEF Opens, Fr
  <2>4. CASE t = z /\ j = Len(Fr(z))
    <3>1. a = Top.agent
      BY <1>4, <2>2, <2>4
    <3>2. PICK l \in Nat \ {0} : l = Len(Top.todo)
      BY <1>2
    <3>3. i \in 1 .. l /\ i # l
      BY <1>1, <1>2, <1>5, <3>1, <3>2
    <3>4. PICK r : r = Len(ready) - 1
      OBVIOUS
    <3>5. \A k \in 1 .. l : r + k \in DOMAIN ready' /\ ready'[r + k] = Entry("run", Len(tasks) + k, FALSE)
      BY <3>2, <3>4, GatherQueue
    <3>6. \A e, k : e = Entry("run", k, FALSE) => e.what = "run" /\ e.task = k
      BY DEF Entry
    <3>7. l \in 1 .. l /\ i < l /\ r \in Nat
      <4>1. Len(ready) \in Nat \ {0}
        BY DEF GatherView
      <4>2. QED
        BY <3>3, <3>4, <4>1
    <3>8. r + i < r + l
      BY <3>3, <3>7
    <3>9. /\ r + i \in DOMAIN ready' /\ ready'[r + i].what = "run" /\ ready'[r + i].task = Len(tasks) + i
          /\ r + l \in DOMAIN ready' /\ ready'[r + l].what = "run"
      <4>1. r + i \in DOMAIN ready' /\ ready'[r + i] = Entry("run", Len(tasks) + i, FALSE)
        BY <3>3, <3>5
      <4>2. r + l \in DOMAIN ready' /\ ready'[r + l] = Entry("run", Len(tasks) + l, FALSE)
        BY <3>5, <3>7
      <4>3. QED
        BY <4>1, <4>2, <3>6
    <3>10. PICK s : s = Len(tasks) + i
      OBVIOUS
    <3>11. tasks'[s].frames[1].agent = a /\ y[s] = i
      BY <1>2, <1>3, <3>1, <3>2, <3>3, <3>10
    <3>12. PICK h \in DOMAIN ready' : h = r + i
      BY <3>9
    <3>13. PICK k \in DOMAIN ready' : k = r + l
      BY <3>9
    <3>14. h < k /\ ready'[h].what = "run" /\ ready'[k].what = "run" /\ ready'[h].task = s
      BY <3>8, <3>9, <3>10, <3>12, <3>13
    <3>15. Running(y, a, i)'
      BY <3>11, <3>14 DEF Running, Fr
    <3>16. QED
      BY <3>15
  <2>5. QED
    BY <2>3, <2>4
<1>6. ASSUME NEW a, NEW i, Running(x, a, i) PROVE FALSE
  <2>1. PICK k \in DOMAIN ready : \E l \in DOMAIN ready : k < l /\ ready[k].what = "run" /\ ready[l].what = "run"
    BY <1>6 DEF Running
  <2>2. PICK l \in DOMAIN ready : k < l /\ ready[k].what = "run" /\ ready[l].what = "run"
    BY <2>1
  <2>3. \A j \in DOMAIN ready : ready[j].what = "run" => ready[j].task = z
    BY <1>1, <1>4, TipRuns DEF EntriesOK, Queued
  <2>4. k = l
    BY <1>1, <2>2, <2>3 DEF EntriesOK
  <2>5. k \in Nat
    BY <1>1 DEF BuildType
  <2>6. QED
    BY <2>2, <2>4, <2>5
<1>7. QED
  BY <1>1, <1>5, <1>6, EarlyStays

\* A gather keeps all in order, or a call comes next that takes the wrong parent.
LEMMA GatherInOrder ==
  ASSUME Loops, Kept, ~Doomed, FramesOK, NodesOK, Matches, InOrder, GatherView
  PROVE  (~Calm' /\ MissNext') \/ (Matches' /\ InOrder')
<1>1. BuildType /\ EntriesOK /\ TaskRuns /\ nodes' = nodes
  BY DEF Loops, GatherView
<1>2. Me \in DOMAIN tasks /\ Live(Me)
  BY <1>1, RunIs
<1>3. PICK x \in [DOMAIN tasks -> Nat] : /\ Made(x) /\ EarlyPlain(x)
                                         /\ \/ \A t \in DOMAIN tasks : ~Live(t)
                                            \/ \E b \in [DOMAIN tasks -> Nat], z \in DOMAIN tasks : Chain(b, x, z)
  BY DEF InOrder
<1>4. PICK b \in [DOMAIN tasks -> Nat], z \in DOMAIN tasks : Chain(b, x, z)
  BY <1>2, <1>3
<1>5. Chained(b, x, z)
  BY <1>3, <1>4 DEF Chained
<1>6. CASE \E t \in DOMAIN tasks : Waits(z, t)
  BY <1>5, <1>6, GatherMisses
<1>7. CASE \A t \in DOMAIN tasks : ~Waits(z, t)
  <2>1. PICK N : N = Fresh
    OBVIOUS
  <2>2. PICK c : c = Beside(b)
    OBVIOUS
  <2>3. PICK y : y = Numbers(x)
    OBVIOUS
  <2>4. PICK w : w = Len(tasks) + 1
    OBVIOUS
  <2>5. GatherNew(b, x, N, c, y)
    BY <1>5, <2>1, <2>2, <2>3, GatherIs
  <2>6. c \in [DOMAIN tasks' -> Nat] /\ y \in [DOMAIN tasks' -> Nat] /\ w \in DOMAIN tasks'
    BY <2>4, <2>5 DEF GatherNew
  <2>7. OnStack(c)' /\ Based(c)' /\ Made(y)'
    BY <1>5, <2>1, <2>2, <2>3, GatherStands
  <2>8. Tip(c, w)' /\ Nested(c)' /\ Roles(c, w)' /\ Lined(y)' /\ PlainFrames(y[w], Fr(w))'
    BY <1>5, <1>7, <2>1, <2>2, <2>3, <2>4, GatherChain
  <2>9. EarlyPlain(y)'
    BY <1>3, <1>5, <1>7, <2>1, <2>2, <2>3, GatherEarly
  <2>10. Chain(c, y, w)'
    BY <2>7, <2>8 DEF Chain
  <2>11. InOrder'
    BY <2>6, <2>7, <2>9, <2>10 DEF InOrder
  <2>12. QED
    BY <1>1, <2>11 DEF Matches
<1>8. QED
  BY <1>6, <1>7

\* What one that gathers hears leaves the forwards as they are, and it wakes only if it
\* is the last of the chain.
LEMMA HeardIs ==
  ASSUME Loops, Kept, ~Doomed, NEW u, HeardView(u), NEW w, w = Wakes
  PROVE  /\ BuildType /\ EntriesOK /\ tree' = tree /\ stack' = stack /\ nodes' = nodes /\ DOMAIN tasks' = DOMAIN tasks /\ u \in DOMAIN tasks
         /\ (\A t \in DOMAIN tasks : /\ tasks'[t].frames = Fr(t) /\ tasks'[t].up = tasks[t].up /\ (Live(t)' <=> Live(t))
                                     /\ (Suspended(t)' <=> Suspended(t) /\ ~(t = u /\ w))
                                     /\ (Queued(t)' /\ ~(t = u /\ w) => Queued(t)))
         /\ w => Suspended(u) /\ \A k \in DOMAIN tasks : k # 1 /\ Live(k) => tasks[k].up # u
         /\ Keeps(ready') /\ (~w => Only(ready'))
         /\ w => \A j \in DOMAIN ready' : Stays(ready', j) \/ j = Len(ready)
         /\ \A i \in DOMAIN ready : Live(ready[i].task) => i # 1
<1>1. PICK m : m = Me
  OBVIOUS
<1>2. /\ BuildType /\ EntriesOK /\ ready # <<>> /\ Now.what = "done" /\ tree' = tree /\ stack' = stack /\ nodes' = nodes
      /\ \A t \in DOMAIN tasks : t # u => tasks'[t] = tasks[t]
      /\ u \in DOMAIN tasks
  BY DEF Loops, HeardView
<1>3. tasks'[u].frames = tasks[u].frames /\ tasks'[u].up = tasks[u].up
  BY DEF HeardView
<1>4. /\ DOMAIN tasks' = DOMAIN tasks /\ m \in DOMAIN tasks /\ ~Live(m)
      /\ w => Suspended(u) /\ (Now.err \/ Owed(u) = {m})
      /\ \A t \in DOMAIN tasks : Live(t)' <=> Live(t)
  BY <1>1, HeardLoop
<1>5. /\ \A t \in DOMAIN tasks : Queued(t)' <=> (Queued(t) /\ t # m) \/ (t = u /\ w)
      /\ \A t \in DOMAIN tasks : Suspended(t)' <=> Suspended(t) /\ ~(t = u /\ w)
  BY <1>1, HeardLoop
<1>6. Now = ready[1] /\ m = ready[1].task /\ 1 \in DOMAIN ready
  <2>1. Now = ready[1] /\ Me = ready[1].task /\ Len(ready) \in Nat \ {0} /\ DOMAIN ready = 1 .. Len(ready)
    BY <1>2, NowIs
  <2>2. 1 \in 1 .. Len(ready)
    BY <2>1
  <2>3. QED
    BY <1>1, <2>1, <2>2
<1>7. w => \A k \in DOMAIN tasks : k # 1 /\ Live(k) => tasks[k].up # u
  <2>1. ~Now.err
    BY <1>6, NoError
  <2>2. w => Owed(u) = {m}
    BY <1>4, <2>1
  <2>3. QED
    BY <1>4, <2>2 DEF Owed
<1>8. IF w THEN Adds(ready', Entry("run", u, Now.err)) ELSE Only(ready')
  BY HeardQueue
<1>9. Keeps(ready') /\ (~w => Only(ready')) /\ (w => \A j \in DOMAIN ready' : Stays(ready', j) \/ j = Len(ready))
  <2>1. CASE w
    BY <1>8, <2>1 DEF Adds
  <2>2. CASE ~w
    BY <1>8, <2>2 DEF Only
  <2>3. QED
    BY <2>1, <2>2
<1>10. \A t \in DOMAIN tasks : tasks'[t].frames = Fr(t) /\ tasks'[t].up = tasks[t].up
  BY <1>2, <1>3 DEF Fr
<1>11. \A i \in DOMAIN ready : Live(ready[i].task) => i # 1
  BY <1>4, <1>6
<1>12. \A t \in DOMAIN tasks : Queued(t)' /\ ~(t = u /\ w) => Queued(t)
  BY <1>5
<1>13. QED
  BY <1>2, <1>4, <1>5, <1>7, <1>9, <1>10, <1>11, <1>12

\* The queue after it.
LEMMA HeardLined ==
  ASSUME Loops, Kept, ~Doomed, NEW u, HeardView(u), NEW b, NEW x, NEW z, Chained(b, x, z), NEW w, w = Wakes
  PROVE  (w => u = z) /\ Lined(x)'
<1>1. BuildType /\ EntriesOK /\ z \in DOMAIN tasks /\ Roles(b, z) /\ Lined(x) /\ DOMAIN ready = 1 .. Len(ready) /\ Len(ready) \in Nat
  BY DEF Loops, BuildType, Chained, Chain
<1>2. u \in DOMAIN tasks /\ Keeps(ready') /\ (~w => Only(ready'))
      /\ (w => Suspended(u) /\ \A k \in DOMAIN tasks : k # 1 /\ Live(k) => tasks[k].up # u)
      /\ (w => \A j \in DOMAIN ready' : Stays(ready', j) \/ j = Len(ready))
  BY HeardIs
<1>3. w => u = z
  <2>1. SUFFICES ASSUME w, u # z PROVE FALSE
    OBVIOUS
  <2>2. Live(u) /\ ~Queued(u)
    BY <1>2, <2>1 DEF Suspended
  <2>3. Holds(b, z, u) \/ Waits(z, u)
    BY <1>1, <1>2, <2>1, <2>2 DEF Roles
  <2>4. ~Waits(z, u)
    BY <2>2 DEF Waits, Queued
  <2>5. ~Holds(b, z, u)
    BY <1>2, <2>1 DEF Holds
  <2>6. QED
    BY <2>3, <2>4, <2>5
<1>4. CASE ~w
  <2>1. Lined(x)'
    BY <1>1, <1>2, <1>4, LinedShift DEF Only
  <2>2. QED
    BY <1>3, <2>1
<1>5. CASE w
  <2>1. ASSUME NEW j \in DOMAIN ready', ready'[j].what = "run" PROVE j = Len(ready)
    <3>1. SUFFICES ASSUME j # Len(ready) PROVE FALSE
      OBVIOUS
    <3>2. j + 1 \in DOMAIN ready /\ ready[j + 1].what = "run"
      BY <1>2, <1>5, <2>1, <3>1 DEF Stays
    <3>3. PICK t : t = ready[j + 1].task
      OBVIOUS
    <3>4. t \in DOMAIN tasks /\ Live(t) /\ Queued(t)
      BY <1>1, <3>2, <3>3 DEF EntriesOK, Queued
    <3>5. t # z
      BY <1>2, <1>3, <1>5, <3>4 DEF Suspended
    <3>6. Waits(z, t)
      BY <1>1, <3>4, <3>5, TipRuns
    <3>7. Queued(z)
      BY <3>6 DEF Waits, Queued
    <3>8. QED
      BY <1>2, <1>3, <1>5, <3>7 DEF Suspended
  <2>2. ASSUME NEW i \in DOMAIN ready', NEW j \in DOMAIN ready', i < j, ready'[i].what = "run", ready'[j].what = "run"
        PROVE  x[ready'[i].task] < x[ready'[j].task] /\ \A k \in i .. j : ready'[k].what = "run"
    <3>1. i = Len(ready) /\ j = Len(ready)
      BY <2>1, <2>2
    <3>2. QED
      BY <1>1, <2>2, <3>1
  <2>3. Lined(x)'
    BY <2>2 DEF Lined
  <2>4. QED
    BY <1>3, <2>3
<1>6. QED
  BY <1>3, <1>4, <1>5

LEMMA HeardChain ==
  ASSUME Loops, Kept, ~Doomed, BuildNext, NEW u, HeardView(u), NEW b, NEW x, NEW z, Chained(b, x, z)
  PROVE  Chain(b, x, z)'
<1>1. PICK w : w = Wakes
  OBVIOUS
<1>2. /\ BuildType /\ EntriesOK /\ Tip(b, z) /\ OnStack(b) /\ Based(b) /\ Nested(b) /\ Roles(b, z) /\ z \in DOMAIN tasks
      /\ ((\E t \in DOMAIN tasks : Waits(z, t)) => PlainFrames(x[z], Fr(z)))
  BY DEF Loops, Chained, Chain
<1>3. /\ tree' = tree /\ stack' = stack /\ DOMAIN tasks' = DOMAIN tasks
      /\ (\A t \in DOMAIN tasks : /\ tasks'[t].frames = Fr(t) /\ tasks'[t].up = tasks[t].up /\ (Live(t)' <=> Live(t))
                                  /\ (Suspended(t)' <=> Suspended(t) /\ ~(t = u /\ w))
                                  /\ (Queued(t)' /\ ~(t = u /\ w) => Queued(t)))
      /\ Keeps(ready')
      /\ \A i \in DOMAIN ready : Live(ready[i].task) => i # 1
  <2>1. /\ tree' = tree /\ stack' = stack /\ DOMAIN tasks' = DOMAIN tasks
        /\ Keeps(ready')
        /\ \A i \in DOMAIN ready : Live(ready[i].task) => i # 1
    BY <1>1, HeardIs
  <2>2. \A t \in DOMAIN tasks : /\ tasks'[t].frames = Fr(t) /\ tasks'[t].up = tasks[t].up /\ (Live(t)' <=> Live(t))
                                  /\ (Suspended(t)' <=> Suspended(t) /\ ~(t = u /\ w))
                                  /\ (Queued(t)' /\ ~(t = u /\ w) => Queued(t))
    BY <1>1, HeardIs
  <2>3. QED
    BY <2>1, <2>2
<1>4. (w => u = z) /\ Lined(x)'
  BY <1>1, HeardLined
<1>5. Tip(b, z)'
  <2>1. 1 \in DOMAIN tasks
    BY DEF Loops, GathersOK
  <2>2. z \in DOMAIN tasks' /\ Live(z)' /\ Live(1)' /\ b[1] = 0
    BY <1>2, <1>3, <2>1 DEF Tip
  <2>3. Len(stack') = b[z] + (Len(tasks'[z].frames) - 1)
    BY <1>2, <1>3 DEF Tip
  <2>4. QED
    BY <2>2, <2>3 DEF Tip, Fr
<1>6. OnStack(b)'
  <2>1. ASSUME NEW t \in DOMAIN tasks', NEW fr, fr = tasks'[t].frames, fr # <<>>, NEW j \in DOMAIN fr
        PROVE  Shown(b[t] + (j - 1), fr[j].agent, fr[j].site)'
    <3>1. t \in DOMAIN tasks /\ Live(t) /\ fr = Fr(t)
      BY <1>3, <2>1 DEF Live
    <3>2. Shown(b[t] + (j - 1), fr[j].agent, fr[j].site)
      BY <1>2, <2>1, <3>1 DEF OnStack
    <3>3. QED
      BY <1>3, <3>2 DEF Shown
  <2>2. QED
    BY <2>1 DEF OnStack, Live, Fr
<1>7. Based(b)'
  <2>1. ASSUME NEW t \in DOMAIN tasks', tasks'[t].frames # <<>>, t # 1, NEW v, v = tasks'[t].up
        PROVE  tasks'[v].frames # <<>> /\ b[t] = b[v] + (Len(tasks'[v].frames) - 1)
    <3>1. t \in DOMAIN tasks /\ Live(t) /\ v = tasks[t].up
      BY <1>3, <2>1 DEF Live
    <3>2. v \in DOMAIN tasks /\ Live(v) /\ b[t] = b[v] + (Len(Fr(v)) - 1)
      BY <1>2, <2>1, <3>1 DEF Based, Loops, GathersOK
    <3>3. tasks'[v].frames = Fr(v)
      BY <1>3, <3>2
    <3>4. QED
      BY <3>2, <3>3 DEF Live
  <2>2. QED
    BY <2>1 DEF Based, Live, Fr
<1>8. Nested(b)'
  <2>1. \A t \in DOMAIN tasks : (Suspended(t)' => Suspended(t)) /\ Fr(t)' = Fr(t) /\ tasks'[t].up = tasks[t].up
    BY <1>3 DEF Fr
  <2>2. QED
    BY <1>2, <1>3, <2>1 DEF Nested
<1>9. ASSUME NEW t \in DOMAIN tasks, Live(t)', t # z PROVE Holds(b, z, t)' \/ Waits(z, t)'
  <2>1. Live(t) /\ Fr(t)' = Fr(t)
    BY <1>3, <1>9 DEF Fr
  <2>2. CASE Holds(b, z, t)
    <3>1. Suspended(t)' /\ z # 1 /\ t <= tasks'[z].up /\ b[t] + (Len(Fr(t)') - 1) <= b[z]
      BY <1>2, <1>3, <1>4, <1>9, <2>1, <2>2 DEF Holds
    <3>2. PICK k \in DOMAIN tasks : k # 1 /\ Live(k) /\ tasks[k].up = t
      BY <2>2 DEF Holds
    <3>3. \E k2 \in DOMAIN tasks' : k2 # 1 /\ Live(k2)' /\ tasks'[k2].up = t
      BY <1>3, <3>2
    <3>4. QED
      BY <3>1, <3>3 DEF Holds
  <2>3. CASE Waits(z, t)
    <3>1. Live(t) /\ t # 1 /\ z # 1 /\ tasks[t].up = tasks[z].up /\ Len(Fr(t)) = 1 /\ Fr(t)[1].todo # <<>>
      BY <2>3 DEF Waits
    <3>2. PICK i \in DOMAIN ready : \E k \in DOMAIN ready : i < k /\ ready[i].task = z /\ ready[k].task = t
      BY <2>3 DEF Waits
    <3>3. PICK k \in DOMAIN ready : i < k /\ ready[i].task = z /\ ready[k].task = t
      BY <3>2
    <3>4. i # 1 /\ k # 1
      BY <1>2, <1>3, <3>1, <3>3 DEF Tip
    <3>5. i - 1 \in DOMAIN ready' /\ ready'[i - 1] = ready[i] /\ k - 1 \in DOMAIN ready' /\ ready'[k - 1] = ready[k]
      BY <1>3, <3>4 DEF Keeps
    <3>6. i - 1 < k - 1
      <4>1. i \in Nat /\ k \in Nat
        BY <1>2 DEF BuildType
      <4>2. QED
        BY <3>3, <4>1
    <3>7. \E h \in DOMAIN ready' : \E l \in DOMAIN ready' : h < l /\ ready'[h].task = z /\ ready'[l].task = t
      BY <3>3, <3>5, <3>6
    <3>8. QED
      BY <1>2, <1>3, <1>9, <2>1, <3>1, <3>7 DEF Waits
  <2>4. QED
    BY <1>2, <1>9, <2>1, <2>2, <2>3 DEF Roles
<1>10. Roles(b, z)'
  BY <1>3, <1>9 DEF Roles
<1>11. (\E t \in DOMAIN tasks' : Waits(z, t)') => PlainFrames(x[z], Fr(z))'
  <2>1. ASSUME NEW t \in DOMAIN tasks', Waits(z, t)' PROVE Waits(z, t)
    <3>1. t \in DOMAIN tasks /\ Live(t) /\ Queued(t)'
      BY <1>3, <2>1 DEF Waits, Queued
    <3>2. t # z
      <4>1. EntriesOK' /\ BuildType'
        BY LoopsStep DEF Loops
      <4>2. PICK i \in DOMAIN ready' : \E k \in DOMAIN ready' : i < k /\ ready'[i].task = z /\ ready'[k].task = t
        BY <2>1 DEF Waits
      <4>3. PICK k \in DOMAIN ready' : i < k /\ ready'[i].task = z /\ ready'[k].task = t
        BY <4>2
      <4>4. i \in Nat /\ k \in Nat /\ i # k
        BY <4>1, <4>3 DEF BuildType
      <4>5. QED
        BY <4>1, <4>3, <4>4 DEF EntriesOK
    <3>3. Queued(t)
      BY <1>3, <1>4, <3>1, <3>2
    <3>4. QED
      BY <1>2, <3>1, <3>2, <3>3, TipRuns
  <2>2. SUFFICES ASSUME PlainFrames(x[z], Fr(z)) PROVE PlainFrames(x[z], Fr(z))'
    BY <1>2, <1>3, <2>1
  <2>3. PICK fr : fr = Fr(z)
    OBVIOUS
  <2>4. PICK i : i = x[z]
    OBVIOUS
  <2>5. PlainFrames(i, fr)'
    BY <1>3, <2>2, <2>3, <2>4, TreeFrames
  <2>6. fr = Fr(z)'
    BY <1>2, <1>3, <2>3 DEF Fr
  <2>7. QED
    BY <2>4, <2>5, <2>6
<1>12. QED
  BY <1>4, <1>5, <1>6, <1>7, <1>8, <1>10, <1>11 DEF Chain

\* What one that gathers hears keeps all in order.
LEMMA HeardInOrder ==
  ASSUME Loops, Kept, ~Doomed, BuildNext, Matches, InOrder, NEW u, HeardView(u)
  PROVE  Matches' /\ InOrder'
<1>1. PICK x \in [DOMAIN tasks -> Nat] : /\ Made(x) /\ EarlyPlain(x)
                                         /\ \/ \A t \in DOMAIN tasks : ~Live(t)
                                            \/ \E b \in [DOMAIN tasks -> Nat], z \in DOMAIN tasks : Chain(b, x, z)
  BY DEF InOrder
<1>2. /\ BuildType /\ EntriesOK /\ tree' = tree /\ nodes' = nodes /\ DOMAIN tasks' = DOMAIN tasks
      /\ Keeps(ready')
      /\ \A i \in DOMAIN ready : Live(ready[i].task) => i # 1
  BY HeardIs
<1>3. \A t \in DOMAIN tasks : tasks'[t].frames = Fr(t) /\ (Live(t)' <=> Live(t))
  BY HeardIs
<1>4. Made(x)'
  <2>1. \A t \in DOMAIN tasks' : \A fr : fr = tasks'[t].frames /\ fr # <<>> /\ t # 1 => MadeFrames(x[t], fr)
    BY <1>1, <1>2, <1>3 DEF Made, Live
  <2>2. QED
    BY <1>2, <2>1, MadeNext
<1>5. ASSUME NEW a, Opens(a) PROVE Opens(a)'
  <2>1. PICK t \in DOMAIN tasks : \E j \in DOMAIN Fr(t) : Fr(t)[j].agent = a /\ Fr(t)[j].spreads /\ Fr(t)[j].todo = CallsOf(a)
    BY <1>5 DEF Opens
  <2>2. CallsOf(a)' = CallsOf(a) /\ Fr(t)' = Fr(t) /\ t \in DOMAIN tasks'
    BY <1>2, <1>3, TreeStays DEF Fr
  <2>3. QED
    BY <2>1, <2>2 DEF Opens
<1>6. ASSUME NEW a, NEW i, Running(x, a, i) PROVE Running(x, a, i)'
  <2>1. PICK k \in DOMAIN ready : \E l \in DOMAIN ready : /\ k < l /\ ready[k].what = "run" /\ ready[l].what = "run"
                             /\ Fr(ready[k].task)[1].agent = a /\ x[ready[k].task] = i
    BY <1>6 DEF Running
  <2>2. PICK l \in DOMAIN ready : /\ k < l /\ ready[k].what = "run" /\ ready[l].what = "run"
                             /\ Fr(ready[k].task)[1].agent = a /\ x[ready[k].task] = i
    BY <2>1
  <2>3. PICK s : s = ready[k].task
    OBVIOUS
  <2>4. s \in DOMAIN tasks /\ k # 1 /\ l # 1
    BY <1>2, <2>2, <2>3 DEF EntriesOK
  <2>5. k - 1 \in DOMAIN ready' /\ ready'[k - 1] = ready[k] /\ l - 1 \in DOMAIN ready' /\ ready'[l - 1] = ready[l]
    BY <1>2, <2>4 DEF Keeps
  <2>6. k - 1 < l - 1
    <3>1. k \in Nat /\ l \in Nat
      BY <1>2 DEF BuildType
    <3>2. QED
      BY <2>2, <3>1
  <2>7. tasks'[s].frames[1].agent = a
    BY <1>3, <2>2, <2>3, <2>4
  <2>8. QED
    BY <2>2, <2>3, <2>5, <2>6, <2>7 DEF Running, Fr
<1>7. EarlyPlain(x)'
  BY <1>1, <1>2, <1>5, <1>6, EarlyStays
<1>8. \/ \A t \in DOMAIN tasks' : ~Live(t)'
      \/ \E b \in [DOMAIN tasks' -> Nat], z \in DOMAIN tasks' : Chain(b, x, z)'
  <2>1. CASE \A t \in DOMAIN tasks : ~Live(t)
    BY <1>2, <1>3, <2>1
  <2>2. CASE \E b \in [DOMAIN tasks -> Nat], z \in DOMAIN tasks : Chain(b, x, z)
    <3>1. PICK b \in [DOMAIN tasks -> Nat], z \in DOMAIN tasks : Chain(b, x, z)
      BY <2>2
    <3>2. Chained(b, x, z)
      BY <1>1, <3>1 DEF Chained
    <3>3. Chain(b, x, z)'
      BY <3>2, HeardChain
    <3>4. QED
      BY <1>2, <3>3
  <2>3. QED
    BY <1>1, <2>1, <2>2
<1>9. InOrder'
  BY <1>1, <1>2, <1>4, <1>7, <1>8 DEF InOrder
<1>10. QED
  BY <1>2, <1>9 DEF Matches

-----------------------------------------------------------------------------
(* The order is kept *)

\* Runners are made once nothing runs any more.
LEMMA InstallInOrder ==
  ASSUME Loops, Kept, ~Doomed, BuildNext, Install, Matches, InOrder
  PROVE  Doomed' \/ (Matches' /\ InOrder')
<1>1. /\ tree' = tree /\ ready' = ready /\ tasks' = tasks /\ stack' = stack /\ nodes' = nodes
      /\ outcome = "traced"
  BY DEF Install
<1>2. PICK x \in [DOMAIN tasks -> Nat] : /\ Made(x) /\ EarlyPlain(x)
                                         /\ \/ \A t \in DOMAIN tasks : ~Live(t)
                                            \/ \E b \in [DOMAIN tasks -> Nat], z \in DOMAIN tasks : Chain(b, x, z)
  BY DEF InOrder
<1>3. \A t \in DOMAIN tasks : ~Live(t)
  <2>1. 1 \in DOMAIN tasks /\ ~Live(1)
    BY <1>1 DEF Loops, GathersOK
  <2>2. \A b, z : ~Chain(b, x, z)
    BY <2>1 DEF Chain, Tip
  <2>3. QED
    BY <1>2, <2>2
<1>4. \A t \in DOMAIN tasks' : tasks'[t].frames = <<>> /\ ~Live(t)'
  BY <1>1, <1>3 DEF Live, Fr
<1>5. Made(x)'
  BY <1>1, <1>4, MadeNext
<1>6. EarlyPlain(x)'
  <2>1. \A a : Opens(a) => Opens(a)'
    <3>1. \A a : CallsOf(a)' = CallsOf(a)
      BY <1>1, TreeStays
    <3>2. QED
      BY <1>1, <3>1 DEF Opens, Fr
  <2>2. \A a, i : Running(x, a, i) => Running(x, a, i)'
    BY <1>1 DEF Running, Fr
  <2>3. QED
    BY <1>1, <1>2, <2>1, <2>2, EarlyStays
<1>7. QED
  BY <1>1, <1>2, <1>4, <1>5, <1>6 DEF InOrder, Matches

ChainInv == FramesOK /\ NodesOK /\ ChainOK
BuildInv == TraceInv /\ ChainInv

LEMMA ChainStep ==
  ASSUME BuildInv, BuildNext
  PROVE  ChainOK'
<1>1. Loops /\ Kept /\ FramesOK /\ NodesOK /\ SeenOK /\ ChainOK
  BY DEF BuildInv, ChainInv, TraceInv
<1>2. Calm' <=> Calm
  <2>1. tree' = tree
    BY <1>1, TypeStep
  <2>2. QED
    BY <2>1, TreeStays
<1>3. CASE Doomed
  BY <1>1, <1>3, DoomedStays DEF ChainOK
<1>4. CASE ~Calm /\ MissNext
  BY <1>1, <1>2, <1>4, MissStep DEF ChainOK
<1>5. CASE ~Calm /\ ~Matches
  BY <1>1, <1>2, <1>5, MismatchStays DEF ChainOK
<1>6. CASE ~Doomed /\ Matches /\ InOrder
  <2>1. ASSUME NEW fs, LeafView(fs) \/ IntoView(fs) \/ PopView(fs) PROVE Matches' /\ InOrder'
    BY <1>1, <1>6, <2>1, ViewInOrder
  <2>2. ASSUME Ends(TRUE) PROVE Doomed'
    BY <1>1, <2>2, RaiseDooms
  <2>3. ASSUME FinishView PROVE Matches' /\ InOrder'
    BY <1>1, <1>6, <2>3, FinishInOrder
  <2>4. ASSUME GatherView PROVE (~Calm' /\ MissNext') \/ (Matches' /\ InOrder')
    BY <1>1, <1>6, <2>4, GatherInOrder
  <2>5. ASSUME NEW u, HeardView(u) PROVE Matches' /\ InOrder'
    BY <1>1, <1>6, <2>5, HeardInOrder
  <2>6. ASSUME Install PROVE Doomed' \/ (Matches' /\ InOrder')
    BY <1>1, <1>6, <2>6, InstallInOrder
  <2>7. Doomed' \/ (~Calm' /\ MissNext') \/ (Matches' /\ InOrder')
    BY <1>1, <2>1, <2>2, <2>3, <2>4, <2>5, <2>6, StepIs
  <2>8. QED
    BY <2>7 DEF ChainOK
<1>7. QED
  BY <1>1, <1>3, <1>4, <1>5, <1>6 DEF ChainOK

LEMMA ChainStart ==
  ASSUME BuildInit
  PROVE  ChainOK
<1>1. /\ tree \in Trees /\ stack = <<>> /\ outcome = "tracing"
      /\ nodes = <<[path |-> <<>>, agent |-> tree.root, site |-> <<>>]>>
      /\ tasks = <<[up |-> 1, left |-> 0, woken |-> FALSE, frames |-> <<Frame(tree.root, <<>>, 1)>>]>>
      /\ ready = <<Entry("run", 1, FALSE)>>
  BY DEF BuildInit
<1>2. PICK f : f = Frame(tree.root, <<>>, 1)
  OBVIOUS
<1>3. f.agent = tree.root /\ f.todo = CallsOf(tree.root) /\ f.site = <<>> /\ f.spreads = (tree.kind[tree.root] = "gather")
  <2>1. tree.root \in Family /\ <<>> \in Sites
    BY <1>1, TreeIs DEF Sites
  <2>2. QED
    BY <1>1, <1>2, <2>1, FrameIs
<1>4. DOMAIN tasks = {1} /\ Fr(1) = <<f>> /\ DOMAIN Fr(1) = {1} /\ Fr(1)[1] = f /\ Len(Fr(1)) = 1 /\ Live(1)
  <2>1. tasks = <<[up |-> 1, left |-> 0, woken |-> FALSE, frames |-> <<f>>]>>
    BY <1>1, <1>2
  <2>2. DOMAIN tasks = {1} /\ tasks[1].frames = <<f>>
    BY <2>1
  <2>3. DOMAIN <<f>> = {1} /\ <<f>>[1] = f /\ Len(<<f>>) = 1 /\ <<f>> # <<>>
    OBVIOUS
  <2>4. QED
    BY <2>2, <2>3 DEF Fr, Live
<1>5. DOMAIN nodes = {1} /\ nodes[1].agent = tree.root /\ nodes[1].site = <<>> /\ nodes[1].path = <<>>
  BY <1>1
<1>6. Matches
  BY <1>5 DEF Matches
<1>7. DOMAIN ready = {1} /\ ready[1].task = 1
  <2>1. PICK e : e = Entry("run", 1, FALSE)
    OBVIOUS
  <2>2. ready = <<e>> /\ e.task = 1
    BY <1>1, <2>1 DEF Entry
  <2>3. QED
    BY <2>2
<1>8. PICK x \in [DOMAIN tasks -> Nat] : x[1] = 0
  <2>1. [t \in DOMAIN tasks |-> 0] \in [DOMAIN tasks -> Nat] /\ [t \in DOMAIN tasks |-> 0][1] = 0
    BY <1>4
  <2>2. QED
    BY <2>1
<1>9. Made(x)
  BY <1>4 DEF Made
<1>10. EarlyPlain(x)
  <2>1. ASSUME NEW a \in Seen, tree.kind[a] = "gather" PROVE Opens(a)
    <3>1. a = tree.root
      BY <1>5, <2>1 DEF Seen
    <3>2. 1 \in DOMAIN tasks /\ 1 \in DOMAIN Fr(1) /\ Fr(1)[1].agent = a /\ Fr(1)[1].spreads /\ Fr(1)[1].todo = CallsOf(a)
      BY <1>3, <1>4, <2>1, <3>1
    <3>3. QED
      BY <3>2 DEF Opens
  <2>2. QED
    BY <2>1 DEF EarlyPlain
<1>11. Chain(x, x, 1)
  <2>1. Tip(x, 1)
    BY <1>1, <1>4, <1>8 DEF Tip
  <2>2. OnStack(x)
    BY <1>3, <1>4, <1>8 DEF OnStack, Shown
  <2>3. Based(x)
    BY <1>4 DEF Based
  <2>4. Nested(x)
    BY <1>4 DEF Nested
  <2>5. Roles(x, 1) /\ \A t \in DOMAIN tasks : ~Waits(1, t)
    BY <1>4 DEF Roles, Waits
  <2>6. Lined(x)
    BY <1>7 DEF Lined
  <2>7. QED
    BY <2>1, <2>2, <2>3, <2>4, <2>5, <2>6 DEF Chain
<1>12. InOrder
  BY <1>4, <1>8, <1>9, <1>10, <1>11 DEF InOrder
<1>13. QED
  BY <1>6, <1>12 DEF ChainOK

LEMMA BuildInvStart == BuildInit => BuildInv
BY TraceInvStart, FramesStart, ChainStart DEF BuildInv, ChainInv

LEMMA BuildInvStep ==
  ASSUME BuildInv, BuildNext
  PROVE  BuildInv'
<1>1. TraceInv /\ Loops /\ FramesOK /\ NodesOK
  BY DEF BuildInv, ChainInv, TraceInv
<1>2. TraceInv' /\ FramesOK' /\ NodesOK'
  BY <1>1, TraceInvStep, FramesStep, NodesStep
<1>3. QED
  BY <1>2, ChainStep DEF BuildInv, ChainInv

\* What holds of a state holds as long as nothing changes.
LEMMA FramesRest ==
  ASSUME UNCHANGED buildvars, FramesOK, NodesOK
  PROVE  FramesOK' /\ NodesOK'
<1>1. tree' = tree /\ tasks' = tasks /\ nodes' = nodes
  BY DEF buildvars
<1>2. Seen' = Seen /\ Paths' = Paths /\ Within(tree.root)' = Within(tree.root) /\ \A p : AgentAt(p)' = AgentAt(p)
  <2>1. PICK r : r = tree.root
    OBVIOUS
  <2>2. Within(r)' = Within(r) /\ Paths' = Paths /\ \A p : AgentAt(p)' = AgentAt(p)
    BY <1>1, TreeStays
  <2>3. Seen' = Seen
    BY <1>1 DEF Seen
  <2>4. QED
    BY <1>1, <2>1, <2>2, <2>3
<1>3. NodesOK'
  BY <1>1, <1>2 DEF NodesOK
<1>4. ASSUME NEW t \in DOMAIN tasks', NEW fr, fr = tasks'[t].frames, NEW j \in DOMAIN fr
      PROVE  FrameOK(fr[j], t, j)' /\ Len(fr[j].site) = Len(fr[1].site) + (j - 1)
  <2>1. PICK f : f = fr[j]
    OBVIOUS
  <2>2. FrameOK(f, t, j) /\ Len(fr[j].site) = Len(fr[1].site) + (j - 1)
    BY <1>1, <1>4, <2>1 DEF FramesOK, Fr
  <2>3. FrameOK(f, t, j)'
    BY <1>1, <1>2, <2>2, FrameStays
  <2>4. QED
    BY <2>1, <2>2, <2>3
<1>5. FramesOK'
  BY <1>4 DEF FramesOK, Fr
<1>6. QED
  BY <1>3, <1>5

LEMMA ChainRests ==
  ASSUME UNCHANGED buildvars, ChainOK
  PROVE  ChainOK'
<1>1. tree' = tree /\ ready' = ready /\ tasks' = tasks /\ stack' = stack /\ nodes' = nodes /\ outcome' = outcome
  BY DEF buildvars
<1>2. \A t : /\ Fr(t)' = Fr(t) /\ (Live(t)' <=> Live(t)) /\ (Queued(t)' <=> Queued(t))
             /\ (Suspended(t)' <=> Suspended(t))
  BY <1>1 DEF Fr, Live, Queued, Suspended
<1>3. Doomed' <=> Doomed
  BY <1>1 DEF Doomed, Raised, Suspended, Live, Queued, Fr
<1>4. (Calm' <=> Calm) /\ (Matches' <=> Matches)
  BY <1>1, TreeStays DEF Matches
<1>5. MissNext' <=> MissNext
  BY <1>1 DEF MissNext, TaskRuns, Now, Top, Me, Innermost
<1>6. ASSUME NEW x, Made(x) PROVE Made(x)'
  <2>1. \A t \in DOMAIN tasks' : \A fr : fr = tasks'[t].frames /\ fr # <<>> /\ t # 1 => MadeFrames(x[t], fr)
    BY <1>1, <1>6 DEF Made, Live, Fr
  <2>2. QED
    BY <1>1, <2>1, MadeNext
<1>7. ASSUME NEW x, EarlyPlain(x) PROVE EarlyPlain(x)'
  <2>1. \A a : Opens(a) => Opens(a)'
    <3>1. \A a : CallsOf(a)' = CallsOf(a)
      BY <1>1, TreeStays
    <3>2. QED
      BY <1>1, <3>1 DEF Opens, Fr
  <2>2. \A a, i : Running(x, a, i) => Running(x, a, i)'
    BY <1>1 DEF Running, Fr
  <2>3. QED
    BY <1>1, <1>7, <2>1, <2>2, EarlyStays
<1>8. ASSUME NEW b, NEW x, NEW z, Chain(b, x, z) PROVE Chain(b, x, z)'
  <2>1. Tip(b, z)'
    BY <1>1, <1>2, <1>8 DEF Chain, Tip
  <2>2. OnStack(b)'
    <3>1. \A n, a, s : Shown(n, a, s)' <=> Shown(n, a, s)
      BY <1>1 DEF Shown
    <3>2. ASSUME NEW t \in DOMAIN tasks', NEW fr, fr = tasks'[t].frames, fr # <<>>, NEW j \in DOMAIN fr
          PROVE  Shown(b[t] + (j - 1), fr[j].agent, fr[j].site)'
      <4>1. Shown(b[t] + (j - 1), fr[j].agent, fr[j].site)
        BY <1>1, <1>8, <3>2 DEF Chain, OnStack, Live, Fr
      <4>2. QED
        BY <3>1, <4>1
    <3>3. QED
      BY <3>2 DEF OnStack, Live, Fr
  <2>3. Based(b)'
    BY <1>1, <1>8 DEF Chain, Based, Live, Fr
  <2>4. Nested(b)'
    BY <1>1, <1>2, <1>8 DEF Chain, Nested
  <2>5. \A t : (Holds(b, z, t)' <=> Holds(b, z, t)) /\ (Waits(z, t)' <=> Waits(z, t))
    BY <1>1, <1>2 DEF Holds, Waits
  <2>6. Roles(b, z)'
    BY <1>1, <1>2, <1>8, <2>5 DEF Chain, Roles
  <2>7. Lined(x)'
    BY <1>1, <1>8 DEF Chain, Lined
  <2>8. (\E t \in DOMAIN tasks' : Waits(z, t)') => PlainFrames(x[z], Fr(z))'
    <3>1. SUFFICES ASSUME PlainFrames(x[z], Fr(z)) PROVE PlainFrames(x[z], Fr(z))'
      BY <1>1, <1>8, <2>5 DEF Chain
    <3>2. PICK fr : fr = Fr(z)
      OBVIOUS
    <3>3. PICK i : i = x[z]
      OBVIOUS
    <3>4. PlainFrames(i, fr)'
      BY <1>1, <3>1, <3>2, <3>3, TreeFrames
    <3>5. fr = Fr(z)'
      BY <1>2, <3>2
    <3>6. QED
      BY <3>3, <3>4, <3>5
  <2>9. QED
    BY <2>1, <2>2, <2>3, <2>4, <2>6, <2>7, <2>8 DEF Chain
<1>9. InOrder => InOrder'
  <2>1. SUFFICES ASSUME InOrder PROVE InOrder'
    OBVIOUS
  <2>2. PICK x \in [DOMAIN tasks -> Nat] : /\ Made(x) /\ EarlyPlain(x)
                                           /\ \/ \A t \in DOMAIN tasks : ~Live(t)
                                              \/ \E b \in [DOMAIN tasks -> Nat], z \in DOMAIN tasks : Chain(b, x, z)
    BY <2>1 DEF InOrder
  <2>3. Made(x)' /\ EarlyPlain(x)' /\ x \in [DOMAIN tasks' -> Nat]
    BY <1>1, <1>6, <1>7, <2>2
  <2>4. \/ \A t \in DOMAIN tasks' : ~Live(t)'
        \/ \E b \in [DOMAIN tasks' -> Nat], z \in DOMAIN tasks' : Chain(b, x, z)'
    BY <1>1, <1>2, <1>8, <2>2
  <2>5. QED
    BY <2>3, <2>4 DEF InOrder
<1>10. QED
  BY <1>3, <1>4, <1>5, <1>9 DEF ChainOK

LEMMA BuildInvAlways == BuildSpec => []BuildInv
<1>1. BuildInv /\ [BuildNext]_buildvars => BuildInv'
  <2>1. ASSUME BuildInv, UNCHANGED buildvars PROVE BuildInv'
    BY <2>1, TraceRests, FramesRest, ChainRests DEF BuildInv, ChainInv
  <2>2. QED
    BY <2>1, BuildInvStep
<1>2. QED
  BY <1>1, BuildInvStart, PTL DEF BuildSpec

-----------------------------------------------------------------------------
(* The graph that a trace leaves *)

\* Once the agents are built nothing is left to run.
LEMMA BuiltIs ==
  ASSUME TraceInv, outcome = "built"
  PROVE  ~Doomed /\ ready = <<>> /\ \A t \in DOMAIN tasks : ~Live(t)
<1>1. /\ BuildType /\ EntriesOK /\ GathersOK /\ Loops /\ Kept /\ Counted /\ 1 \in DOMAIN tasks /\ DOMAIN tasks = 1 .. Len(tasks)
      /\ Len(tasks) \in Nat
  <2>1. BuildType /\ EntriesOK /\ GathersOK /\ Loops /\ Kept /\ Counted
    BY DEF TraceInv, Loops
  <2>2. 1 \in DOMAIN tasks
    BY <2>1 DEF GathersOK
  <2>3. tasks \in Seq(Tasks)
    BY <2>1 DEF BuildType
  <2>4. DOMAIN tasks = 1 .. Len(tasks) /\ Len(tasks) \in Nat
    BY <2>3
  <2>5. QED
    BY <2>1, <2>2, <2>4
<1>2. ~Live(1) /\ ~Queued(1)
  <2>1. ~Live(1)
    BY <1>1 DEF GathersOK
  <2>2. QED
    BY <1>1, <2>1 DEF Queued, EntriesOK
<1>3. ASSUME NEW U \in SUBSET DOMAIN tasks, U # {}, \A t \in U : t # 1 => tasks[t].up \in U, 1 \notin U PROVE FALSE
  <2>1. U \subseteq Nat
    BY <1>1
  <2>2. PICK t \in U : \A s \in U : t <= s
    BY <1>3, <2>1, NatMin
  <2>3. t # 1 /\ tasks[t].up \in U /\ tasks[t].up < t
    BY <1>1, <1>3, <2>2 DEF GathersOK
  <2>4. QED
    BY <2>1, <2>2, <2>3
<1>4. ~Doomed
  <2>1. SUFFICES ASSUME Doomed PROVE FALSE
    OBVIOUS
  <2>2. PICK c \in DOMAIN tasks, U \in SUBSET DOMAIN tasks : Raised(c, U)
    BY <2>1 DEF Doomed
  <2>3. c # 1
    BY <1>2, <2>2 DEF Raised, Queued
  <2>4. tasks[c].up \in U /\ \A t \in U : t # 1 => tasks[t].up \in U
    BY <2>2, <2>3 DEF Raised
  <2>5. 1 \notin U
    BY <1>2, <2>2 DEF Raised, Suspended
  <2>6. QED
    BY <1>3, <2>4, <2>5
<1>5. \A t \in DOMAIN tasks : ~Live(t) /\ ~Queued(t)
  <2> DEFINE S == {t \in DOMAIN tasks : Live(t) \/ Queued(t)}
  <2>1. \A t \in S : t # 1 => tasks[t].up \in S
    BY <1>1, <1>4, AllSleep DEF Suspended
  <2>2. 1 \notin S /\ S \in SUBSET DOMAIN tasks
    BY <1>2
  <2> HIDE DEF S
  <2>3. S = {}
    BY <1>3, <2>1, <2>2
  <2>4. QED
    BY <2>3 DEF S
<1>6. ready = <<>>
  <2>1. SUFFICES ASSUME ready # <<>> PROVE FALSE
    OBVIOUS
  <2>2. 1 \in DOMAIN ready
    BY <1>1, <2>1 DEF BuildType
  <2>3. ready[1].task \in DOMAIN tasks /\ Queued(ready[1].task)
    BY <1>1, <2>2 DEF EntriesOK, Queued
  <2>4. QED
    BY <1>5, <2>3
<1>7. QED
  BY <1>4, <1>5, <1>6

\* Its paths are those of the events, or the tree is not calm.
LEMMA BuiltNames ==
  ASSUME BuildInv, outcome = "built"
  PROVE  (Matches <=> Calm) /\ Within(tree.root) \subseteq Seen
<1>1. TraceInv /\ ChainOK /\ NodesOK /\ tree \in Trees
  BY DEF BuildInv, ChainInv, TraceInv, Loops, BuildType
<1>2. ~Doomed /\ ready = <<>> /\ \A t \in DOMAIN tasks : ~Live(t)
  BY <1>1, BuiltIs
<1>3. Within(tree.root) \subseteq Seen
  BY <1>1, <1>2, AllCalled
<1>4. ~MissNext
  BY <1>2 DEF MissNext, TaskRuns
<1>5. ASSUME Matches, InOrder PROVE Calm
  <2>1. PICK x \in [DOMAIN tasks -> Nat] : EarlyPlain(x)
    BY <1>5 DEF InOrder
  <2>2. \A a : ~Opens(a)
    BY <1>2 DEF Opens, Live
  <2>3. \A a, i : ~Running(x, a, i)
    BY <1>2 DEF Running
  <2>4. \A a \in Seen : tree.kind[a] = "gather" =>
          \A i \in DOMAIN CallsOf(a) : i # Len(CallsOf(a)) => Plain(CallsOf(a)[i])
    BY <2>1, <2>2, <2>3 DEF EarlyPlain
  <2>5. QED
    BY <1>1, <1>3, <2>4, CalmIs
<1>6. QED
  BY <1>1, <1>2, <1>3, <1>4, <1>5 DEF ChainOK

LEMMA NamesHold ==
  ASSUME BuildInv
  PROVE  GraphNamesAgents
BY BuiltNames DEF GraphNamesAgents, Matches

\* What is called under one path only is thawed from its own node.
LEMMA ThawHolds ==
  ASSUME BuildInv
  PROVE  CalmTreesThaw
<1> DEFINE A == {AgentAt(p) : p \in Paths}
           f == [p \in Paths |-> AgentAt(p)]
<1>1. SUFFICES ASSUME outcome = "built", Calm, Cardinality(A) = Cardinality(Paths), A = Within(tree.root), NEW p \in Paths
               PROVE  Reconstructs(p)
  BY DEF CalmTreesThaw
<1>2. tree \in Trees /\ NodesOK /\ Matches /\ Within(tree.root) \subseteq Seen /\ nodes \in Seq(Noted)
  BY <1>1, BuiltNames DEF BuildInv, ChainInv, TraceInv, Loops, BuildType
<1>3. \A q \in Paths : AgentAt(q) = AgentAt(p) => q = p
  <2>1. f \in Surjection(Paths, A)
    BY DEF Surjection
  <2>2. IsFiniteSet(Paths)
    BY <1>2, PathsAre
  <2> HIDE DEF f
  <2>3. f \in Injection(Paths, A)
    BY <1>1, <2>1, <2>2, FS_Surjection
  <2>4. \A q \in Paths : f[q] = AgentAt(q)
    BY DEF f
  <2>5. \A q \in Paths : f[q] = f[p] => q = p
    BY <2>3 DEF Injection, IsInjective
  <2>6. QED
    BY <2>4, <2>5
<1>4. p \in ClassMap
  BY <1>3 DEF ClassMap
<1>5. AgentAt(p) \in Seen
  BY <1>1, <1>2
<1>6. PICK k \in DOMAIN nodes : nodes[k].agent = AgentAt(p)
  BY <1>5 DEF Seen
<1>7. k \in NodesAt(p)
  <2>1. nodes[k].site \in Paths /\ AgentAt(nodes[k].site) = AgentAt(p)
    BY <1>2, <1>6 DEF NodesOK
  <2>2. nodes[k].path = p
    BY <1>2, <1>3, <2>1 DEF Matches
  <2>3. QED
    BY <2>2 DEF NodesAt
<1>8. ASSUME NEW j \in NodesAt(p) PROVE nodes[j].agent = AgentAt(p)
  BY <1>2, <1>8 DEF NodesAt, NodesOK, Matches
<1>9. \E l \in NodesAt(p) : \A j \in NodesAt(p) : j <= l
  <2>1. NodesAt(p) \subseteq 1 .. Len(nodes) /\ Len(nodes) \in Nat /\ NodesAt(p) # {}
    BY <1>2, <1>7 DEF NodesAt
  <2>2. \E l \in NodesAt(p) : \A j \in NodesAt(p) : l >= j
    BY <2>1, BoundedMax
  <2>3. QED
    BY <2>1, <2>2
<1>10. (CHOOSE l \in NodesAt(p) : \A j \in NodesAt(p) : j <= l) \in NodesAt(p)
  BY <1>9
<1>11. QED
  BY <1>4, <1>7, <1>8, <1>10 DEF Reconstructs

\* The trace of abuild_agent: whatever the tree and however the tasks of its gathers
\* interleave and fail, nothing stays on the tracer's stack and the trace ends; the
\* graph knows the agents by the paths of their events exactly if no gather runs
\* beside another call; and what freeze_agent writes of a calm tree that shares no
\* agent and calls each is what thaw_agent takes back.
THEOREM BuildAlwaysSound == BuildSpec => []BuildSound
<1>1. BuildInv => BuildSound
  BY NamesHold, ThawHolds, TraceEndsHolds DEF BuildSound, BuildInv
<1>2. QED
  BY <1>1, BuildInvAlways, PTL

=============================================================================
