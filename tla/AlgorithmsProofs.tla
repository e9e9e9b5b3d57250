-------------------------- MODULE AlgorithmsProofs --------------------------
(***************************************************************************)
(* A conversation of TalkerReasoner, for any tree, any callers and any     *)
(* overlap of their turns and resets; and the updates of OPRO and APE, for *)
(* any parameters, values, scores and failures; the algorithms that call   *)
(* agents concurrently, for any number of branches, iterations, rounds and *)
(* permits; and the generations of EvoGradient, for any population.        *)
(***************************************************************************)
EXTENDS Talker, ValueSearch, Algorithms, Evolution, SeqLemmas, FiniteSetTheorems

TurnType == [at : {"idle", "navigate", "speak"}, node : Node, to : Node, last : BOOLEAN, left : Nat]
Entry == [from : Node, to : Node, last : BOOLEAN]

TalkType ==
  /\ current \in Node /\ start \in Node
  /\ history \in Seq(Entry)
  /\ finished \in BOOLEAN /\ overlapped \in BOOLEAN
  /\ caller \in [Caller -> TurnType]

OnTree(from, to) == to \in {from} \cup Listed(from)

\* A turn that is about to be spoken goes along the tree.
Decided == \A c \in Caller : caller[c].at = "speak" => OnTree(caller[c].node, caller[c].to)

\* Once max_turns is reached nobody is let in, and those that were are as many
\* as the turns that may still come.
Admitted ==
  \/ Len(history) < MaxTurns
  \/ Len(history) + Cardinality(InTurn) < MaxTurns + Cardinality(Caller)

\* Where the last turn went, how it ended, and that it went along the tree.
Told ==
  /\ current = IF history = <<>> THEN start ELSE history[Len(history)].to
  /\ finished <=> \E k \in 1 .. Len(history) : history[k].last
  /\ \A k \in 1 .. Len(history) : OnTree(history[k].from, history[k].to)

\* A turn that no other overlaps starts where the conversation still is, which is open.
Alone ==
  ~overlapped =>
    /\ \A c, d \in InTurn : c = d
    /\ \A c \in InTurn : caller[c].node = current /\ ~finished /\ Len(history) < MaxTurns

Walk ==
  ~overlapped =>
    /\ Len(history) <= MaxTurns
    /\ \A k \in 1 .. Len(history) :
         /\ history[k].from = IF k = 1 THEN start ELSE history[k - 1].to
         /\ history[k].last => k = Len(history)

TalkInv == TalkType /\ Decided /\ Admitted /\ Told /\ Alone /\ Walk

-----------------------------------------------------------------------------

\* Callers are counted.
LEMMA CountCallers ==
  /\ IsFiniteSet(Caller) /\ Cardinality(Caller) \in Nat
  /\ \A S \in SUBSET Caller : IsFiniteSet(S) /\ Cardinality(S) \in Nat /\ Cardinality(S) <= Cardinality(Caller)
  /\ \A S \in SUBSET Caller, c \in Caller :
       c \in S => Cardinality(S \ {c}) = Cardinality(S) - 1 /\ Cardinality(S) >= 1
<1>1. IsFiniteSet(Caller) /\ Cardinality(Caller) \in Nat
  BY TalkerAssumption, FS_CardinalityType
<1>2. \A S \in SUBSET Caller : IsFiniteSet(S) /\ Cardinality(S) \in Nat /\ Cardinality(S) <= Cardinality(Caller)
  BY <1>1, FS_Subset, FS_CardinalityType
<1>3. ASSUME NEW S \in SUBSET Caller, NEW c \in S
      PROVE  Cardinality(S \ {c}) = Cardinality(S) - 1 /\ Cardinality(S) >= 1
  <2>1. Cardinality(S \ {c}) = Cardinality(S) - 1
    BY <1>2, FS_RemoveElement
  <2>2. Cardinality(S \ {c}) \in Nat /\ Cardinality(S) \in Nat
    BY <1>2
  <2>3. QED
    BY <2>1, <2>2
<1>4. QED
  BY <1>1, <1>2, <1>3

\* One caller changes its turn.
LEMMA OneTurns ==
  ASSUME TalkType, NEW c \in Caller, NEW t \in TurnType, caller' = [caller EXCEPT ![c] = t]
  PROVE  /\ caller' \in [Caller -> TurnType] /\ caller'[c] = t
         /\ \A d \in Caller : d # c => caller'[d] = caller[d]
         /\ InTurn' = IF t.at = "idle" THEN InTurn \ {c} ELSE InTurn \cup {c}
<1>1. /\ caller' \in [Caller -> TurnType] /\ caller'[c] = t
      /\ \A d \in Caller : d # c => caller'[d] = caller[d]
  BY DEF TalkType
<1>2. QED
  BY <1>1 DEF InTurn

LEMMA TurnTypes ==
  /\ NoTurn \in TurnType /\ NoTurn.at = "idle"
  /\ \A n \in Node, k \in Nat : /\ Turn(n, k) \in TurnType /\ Turn(n, k).at = "navigate"
                                /\ Turn(n, k).node = n
  BY TalkerAssumption DEF NoTurn, Turn, TurnType

LEMMA TalkInitInv == TalkInit => TalkInv
<1> SUFFICES ASSUME TalkInit PROVE TalkInv
  OBVIOUS
<1>1. /\ current \in Node /\ start = current /\ history = <<>> /\ finished = FALSE /\ overlapped = FALSE
      /\ caller = [c \in Caller |-> NoTurn] /\ Len(history) = 0 /\ history \in Seq(Entry)
  BY EmptySeq DEF TalkInit
<1>2. InTurn = {} /\ caller \in [Caller -> TurnType] /\ \A c \in Caller : caller[c].at = "idle"
  BY <1>1, TurnTypes DEF InTurn
<1>3. Len(history) < MaxTurns /\ Len(history) <= MaxTurns
  BY <1>1, TalkerAssumption
<1>4. TalkType /\ Decided /\ Admitted
  BY <1>1, <1>2, <1>3 DEF TalkType, Decided, Admitted
<1>5. Told /\ Alone /\ Walk
  BY <1>1, <1>2, <1>3 DEF Told, Alone, Walk
<1>6. QED
  BY <1>4, <1>5 DEF TalkInv

LEMMA StartTurnKeeps ==
  ASSUME TalkInv, NEW c \in Caller, NEW k \in 0 .. Script, StartTurn(c, k)
  PROVE  TalkInv'
<1>1. /\ caller[c].at = "idle" /\ ~finished /\ Len(history) < MaxTurns
      /\ caller' = [caller EXCEPT ![c] = Turn(current, k)]
      /\ overlapped' = (overlapped \/ InTurn # {})
      /\ UNCHANGED <<current, history, finished, start>>
  BY DEF StartTurn, Open
<1>2. /\ Turn(current, k) \in TurnType /\ Turn(current, k).at = "navigate"
      /\ Turn(current, k).node = current
  BY TurnTypes, TalkerAssumption DEF TalkInv, TalkType
<1>3. /\ caller' \in [Caller -> TurnType] /\ caller'[c].at = "navigate" /\ caller'[c].node = current
      /\ \A d \in Caller : d # c => caller'[d] = caller[d]
      /\ InTurn' = InTurn \cup {c}
  BY <1>1, <1>2, OneTurns DEF TalkInv
<1>4. TalkType' /\ Decided' /\ Admitted'
  BY <1>1, <1>3 DEF TalkInv, TalkType, Decided, Admitted
<1>5. Told' /\ Walk'
  BY <1>1 DEF TalkInv, Told, Walk
<1>6. Alone'
  BY <1>1, <1>3 DEF TalkInv, Alone
<1>7. QED
  BY <1>4, <1>5, <1>6 DEF TalkInv

LEMMA NavigatedKeeps ==
  ASSUME TalkInv, NEW c \in Caller, Navigated(c)
  PROVE  TalkInv'
<1>1. /\ caller[c].at = "navigate" /\ UNCHANGED <<current, history, finished, start, overlapped>>
      /\ caller[c] \in TurnType
  BY DEF Navigated, TalkInv, TalkType
<1>2. PICK d \in Resolved(caller[c].node) :
        caller' = [caller EXCEPT ![c] = [caller[c] EXCEPT !.at = "speak", !.to = d[1], !.last = d[2]]]
  BY DEF Navigated, TalkInv, TalkType
<1>3. /\ caller[c].node \in Node /\ d[1] \in Node /\ d[2] \in BOOLEAN /\ OnTree(caller[c].node, d[1])
  <2>1. caller[c].node \in Node
    BY <1>1 DEF TurnType
  <2>2. Listed(caller[c].node) \subseteq Node
    <3>1. Children[caller[c].node] \in Seq(Node)
      BY <2>1, TalkerAssumption
    <3>2. QED
      BY <3>1 DEF Listed
  <2> DEFINE n == caller[c].node
  <2>3. \/ d = <<n, TRUE>> \/ d = <<n, n \in Terminal>> \/ \E m \in Listed(n) : d = <<m, m \in Terminal>>
    BY <1>2, Zenon DEF Resolved
  <2>4. \E x \in {n} \cup Listed(n), last \in BOOLEAN : d = <<x, last>>
    <3>1. \A x : (x \in Terminal) \in BOOLEAN
      OBVIOUS
    <3> HIDE DEF n
    <3>2. QED
      BY <2>3, <3>1, Zenon
  <2>5. QED
    <3>1. PICK x \in {n} \cup Listed(n), last \in BOOLEAN : d = <<x, last>>
      BY <2>4
    <3>2. d[1] = x /\ d[2] = last
      BY <3>1
    <3>3. QED
      BY <2>1, <2>2, <3>2 DEF OnTree
<1> DEFINE t == [caller[c] EXCEPT !.at = "speak", !.to = d[1], !.last = d[2]]
<1>4. t \in TurnType /\ t.at = "speak" /\ t.node = caller[c].node /\ t.to = d[1]
  BY <1>1, <1>3 DEF TurnType
<1>5. caller' = [caller EXCEPT ![c] = t]
  BY <1>2
<1> HIDE DEF t
<1>6. /\ caller' \in [Caller -> TurnType] /\ caller'[c] = t
      /\ \A e \in Caller : e # c => caller'[e] = caller[e]
      /\ InTurn' = InTurn
  <2>1. c \in InTurn
    BY <1>1 DEF InTurn
  <2>2. TalkType /\ t.at # "idle" /\ t \in TurnType
    BY <1>4 DEF TalkInv
  <2>3. /\ caller' \in [Caller -> TurnType] /\ caller'[c] = t
        /\ \A e \in Caller : e # c => caller'[e] = caller[e]
        /\ InTurn' = IF t.at = "idle" THEN InTurn \ {c} ELSE InTurn \cup {c}
    BY <1>5, <2>2, OneTurns
  <2>4. QED
    BY <2>1, <2>2, <2>3
<1>7. TalkType' /\ Decided' /\ Admitted'
  BY <1>1, <1>3, <1>4, <1>6 DEF TalkInv, TalkType, Decided, Admitted
<1>8. Told' /\ Walk'
  BY <1>1 DEF TalkInv, Told, Walk
<1>9. Alone'
  <2>1. \A e \in Caller : caller'[e].node = caller[e].node
    BY <1>4, <1>6
  <2>2. InTurn \subseteq Caller
    BY DEF InTurn
  <2>3. QED
    BY <1>1, <1>6, <2>1, <2>2 DEF TalkInv, Alone
<1>10. QED
  BY <1>7, <1>8, <1>9 DEF TalkInv

LEMMA SpokenKeeps ==
  ASSUME TalkInv, NEW c \in Caller, Spoken(c)
  PROVE  TalkInv'
<1> DEFINE t == caller[c]
           turn == [from |-> t.node, to |-> t.to, last |-> t.last]
           on == t.left > 0 /\ Open(history', finished')
           next == IF on THEN Turn(t.to, t.left - 1) ELSE NoTurn
<1>1. /\ t.at = "speak" /\ history' = Append(history, turn) /\ current' = t.to
      /\ finished' = (finished \/ t.last) /\ caller' = [caller EXCEPT ![c] = next]
      /\ UNCHANGED <<start, overlapped>>
  BY DEF Spoken
<1>2. t \in TurnType /\ turn \in Entry /\ turn.from = t.node /\ turn.to = t.to /\ turn.last = t.last
      /\ t.to \in Node /\ t.left \in Nat /\ t.last \in BOOLEAN
  BY DEF TalkInv, TalkType, TurnType, Entry
<1>3. /\ next \in TurnType /\ next.at = (IF on THEN "navigate" ELSE "idle")
      /\ on => next.node = t.to
  <2>1. on => t.left - 1 \in Nat
    BY <1>2
  <2>2. QED
    BY <1>2, <2>1, TurnTypes
<1>4. on => ~finished' /\ Len(history') < MaxTurns
  BY DEF Open
<1>5. OnTree(t.node, t.to)
  BY <1>1 DEF TalkInv, Decided
<1>6. /\ history \in Seq(Entry) /\ Len(history) \in Nat /\ history' \in Seq(Entry)
      /\ Len(history') = Len(history) + 1 /\ history' # <<>> /\ history'[Len(history) + 1] = turn
      /\ \A k \in 1 .. Len(history) : history'[k] = history[k]
  <2>1. history \in Seq(Entry)
    BY DEF TalkInv, TalkType
  <2> HIDE DEF turn
  <2>2. QED
    BY <1>1, <1>2, <2>1
<1> HIDE DEF t, turn, on, next
<1>7. /\ caller' \in [Caller -> TurnType] /\ caller'[c] = next
      /\ \A d \in Caller : d # c => caller'[d] = caller[d]
      /\ InTurn' = IF next.at = "idle" THEN InTurn \ {c} ELSE InTurn \cup {c}
  <2>1. TalkType
    BY DEF TalkInv
  <2>2. QED
    BY <1>1, <1>3, <2>1, OneTurns
<1>8. c \in InTurn /\ InTurn \subseteq Caller /\ InTurn' = IF on THEN InTurn ELSE InTurn \ {c}
  <2>1. c \in InTurn /\ InTurn \subseteq Caller
    BY <1>1 DEF InTurn, t
  <2>2. QED
    BY <1>3, <1>7, <2>1
<1>9. TalkType'
  BY <1>1, <1>2, <1>6, <1>7 DEF TalkInv, TalkType
<1>10. Decided'
  BY <1>3, <1>7 DEF TalkInv, Decided
<1>11. Admitted'
  <2>1. /\ Cardinality(Caller) \in Nat /\ Cardinality(InTurn) \in Nat /\ Cardinality(InTurn) <= Cardinality(Caller)
        /\ Cardinality(InTurn \ {c}) = Cardinality(InTurn) - 1 /\ MaxTurns \in Nat
    BY <1>8, CountCallers, TalkerAssumption
  <2>2. CASE on
    BY <1>4, <2>2 DEF Admitted
  <2>3. CASE ~on
    <3>1. Cardinality(InTurn') = Cardinality(InTurn) - 1
      BY <1>8, <2>1, <2>3
    <3>2. CASE Len(history) < MaxTurns
      BY <1>6, <2>1, <3>1, <3>2 DEF Admitted
    <3>3. CASE Len(history) + Cardinality(InTurn) < MaxTurns + Cardinality(Caller)
      BY <1>6, <2>1, <3>1, <3>3 DEF Admitted
    <3>4. QED
      BY <3>2, <3>3 DEF TalkInv, Admitted
  <2>4. QED
    BY <2>2, <2>3
<1>12. \A k \in 1 .. Len(history') : k \in 1 .. Len(history) \/ k = Len(history) + 1
  BY <1>6
<1>13. Told'
  <2>1. current' = history'[Len(history')].to
    BY <1>1, <1>2, <1>6
  <2>2. finished' <=> \E k \in 1 .. Len(history') : history'[k].last
    <3>1. finished <=> \E k \in 1 .. Len(history) : history[k].last
      BY DEF TalkInv, Told
    <3>2. Len(history) + 1 \in 1 .. Len(history') /\ 1 .. Len(history) \subseteq 1 .. Len(history')
      BY <1>6
    <3>3. QED
      BY <1>1, <1>2, <1>6, <1>12, <3>1, <3>2
  <2>3. \A k \in 1 .. Len(history') : OnTree(history'[k].from, history'[k].to)
    BY <1>2, <1>5, <1>6, <1>12 DEF TalkInv, Told
  <2>4. QED
    BY <1>6, <2>1, <2>2, <2>3 DEF Told, OnTree, Listed
<1>14. ASSUME ~overlapped
       PROVE  /\ InTurn = {c} /\ t.node = current /\ ~finished /\ Len(history) < MaxTurns
  BY <1>8, <1>14 DEF TalkInv, Alone, t
<1>15. Alone'
  <2>1. SUFFICES ASSUME ~overlapped
                 PROVE  /\ \A d, e \in InTurn' : d = e
                        /\ \A d \in InTurn' : caller'[d].node = current' /\ ~finished' /\ Len(history') < MaxTurns
    BY <1>1 DEF Alone
  <2>2. InTurn' = IF on THEN {c} ELSE {}
    BY <1>8, <1>14, <2>1
  <2>3. QED
    BY <1>1, <1>3, <1>4, <1>7, <2>2
<1>16. Walk'
  <2>1. SUFFICES ASSUME ~overlapped
                 PROVE  /\ Len(history') <= MaxTurns
                        /\ \A k \in 1 .. Len(history') :
                             /\ history'[k].from = IF k = 1 THEN start ELSE history'[k - 1].to
                             /\ history'[k].last => k = Len(history')
    BY <1>1 DEF Walk
  <2>2. Len(history') <= MaxTurns
    BY <1>6, <1>14, <2>1, TalkerAssumption
  <2>3. ASSUME NEW k \in 1 .. Len(history)
        PROVE  /\ history'[k].from = IF k = 1 THEN start ELSE history'[k - 1].to
               /\ ~history'[k].last
    <3>1. ~history[k].last
      BY <1>14, <2>1 DEF TalkInv, Told
    <3>2. history[k].from = IF k = 1 THEN start ELSE history[k - 1].to
      BY <2>1 DEF TalkInv, Walk
    <3>3. k # 1 => k - 1 \in 1 .. Len(history)
      BY <1>6
    <3>4. QED
      BY <1>6, <3>1, <3>2, <3>3
  <2>4. turn.from = IF Len(history) + 1 = 1 THEN start ELSE history'[Len(history)].to
    <3>1. turn.from = IF history = <<>> THEN start ELSE history[Len(history)].to
      BY <1>2, <1>14, <2>1 DEF TalkInv, Told
    <3>2. history = <<>> <=> Len(history) = 0
      BY <1>6, EmptySeq
    <3>3. Len(history) # 0 => history'[Len(history)] = history[Len(history)]
      BY <1>6
    <3>4. QED
      BY <1>6, <3>1, <3>2, <3>3
  <2>5. QED
    BY <1>6, <1>12, <2>2, <2>3, <2>4
<1>17. QED
  BY <1>9, <1>10, <1>11, <1>13, <1>15, <1>16 DEF TalkInv

LEMMA TurnFailsKeeps ==
  ASSUME TalkInv, NEW c \in Caller, TurnFails(c)
  PROVE  TalkInv'
<1>1. /\ caller[c].at # "idle" /\ caller' = [caller EXCEPT ![c] = NoTurn]
      /\ UNCHANGED <<current, history, finished, start, overlapped>>
  BY DEF TurnFails
<1>2. /\ caller' \in [Caller -> TurnType] /\ caller'[c].at = "idle"
      /\ \A d \in Caller : d # c => caller'[d] = caller[d]
      /\ InTurn' = InTurn \ {c}
  BY <1>1, TurnTypes, OneTurns DEF TalkInv
<1>3. TalkType' /\ Decided'
  BY <1>1, <1>2 DEF TalkInv, TalkType, Decided
<1>4. Admitted'
  <2>1. /\ Cardinality(Caller) \in Nat /\ Cardinality(InTurn) \in Nat /\ MaxTurns \in Nat
        /\ Cardinality(InTurn') = Cardinality(InTurn) - 1 /\ Len(history) \in Nat
    <3>1. c \in InTurn /\ InTurn \subseteq Caller
      BY <1>1 DEF InTurn
    <3>2. Len(history) \in Nat /\ MaxTurns \in Nat
      BY TalkerAssumption DEF TalkInv, TalkType
    <3>3. QED
      BY <1>2, <3>1, <3>2, CountCallers
  <2>2. QED
    BY <1>1, <2>1 DEF TalkInv, Admitted
<1>5. Told' /\ Walk'
  BY <1>1 DEF TalkInv, Told, Walk
<1>6. Alone'
  <2>1. \A d \in InTurn' : d \in InTurn /\ caller'[d] = caller[d]
    BY <1>2 DEF InTurn
  <2>2. QED
    BY <1>1, <2>1 DEF TalkInv, Alone
<1>7. QED
  BY <1>3, <1>4, <1>5, <1>6 DEF TalkInv

LEMMA ResetKeeps ==
  ASSUME TalkInv, NEW n \in Node, Reset(n)
  PROVE  TalkInv'
<1>1. /\ current' = n /\ history' = <<>> /\ finished' = FALSE /\ start' = n
      /\ overlapped' = (InTurn # {}) /\ UNCHANGED caller /\ Len(history') = 0 /\ history' \in Seq(Entry)
  BY EmptySeq DEF Reset
<1>2. InTurn' = InTurn /\ MaxTurns \in Nat \ {0}
  BY <1>1, TalkerAssumption DEF InTurn
<1>3. TalkType'
  BY <1>1 DEF TalkInv, TalkType
<1>4. Decided' /\ Admitted'
  BY <1>1, <1>2 DEF TalkInv, Decided, Admitted, OnTree, Listed
<1>5. Told' /\ Walk'
  BY <1>1, <1>2 DEF Told, Walk
<1>6. Alone'
  BY <1>1, <1>2 DEF Alone
<1>7. QED
  BY <1>3, <1>4, <1>5, <1>6 DEF TalkInv

LEMMA TalkStep == TalkInv /\ [TalkNext]_talkvars => TalkInv'
<1> SUFFICES ASSUME TalkInv, [TalkNext]_talkvars PROVE TalkInv'
  OBVIOUS
<1>1. CASE \E c \in Caller, k \in 0 .. Script : StartTurn(c, k)
  BY <1>1, StartTurnKeeps
<1>2. CASE \E c \in Caller : Navigated(c)
  BY <1>2, NavigatedKeeps
<1>3. CASE \E c \in Caller : Spoken(c)
  BY <1>3, SpokenKeeps
<1>4. CASE \E c \in Caller : TurnFails(c)
  BY <1>4, TurnFailsKeeps
<1>5. CASE \E n \in Node : Reset(n)
  BY <1>5, ResetKeeps
<1>6. CASE UNCHANGED talkvars
  <2>1. UNCHANGED <<current, history, finished, caller, start, overlapped>> /\ InTurn' = InTurn
    BY <1>6 DEF talkvars, InTurn
  <2>2. TalkType' /\ Decided' /\ Admitted'
    BY <2>1 DEF TalkInv, TalkType, Decided, Admitted
  <2>3. Told' /\ Walk' /\ Alone'
    BY <2>1 DEF TalkInv, Told, Walk, Alone
  <2>4. QED
    BY <2>2, <2>3 DEF TalkInv
<1>7. QED
  BY <1>1, <1>2, <1>3, <1>4, <1>5, <1>6 DEF TalkNext

\* However turns and resets overlap, a conversation is where its last turn went, its
\* turns go along the tree and exceed max_turns by fewer than there are callers; as
\* long as no turn overlapped it is a walk that stops where it ended.
THEOREM TalkAlwaysSound == TalkSpec => []ConversationSound
<1>1. TalkInit => TalkInv
  BY TalkInitInv
<1>2. TalkInv /\ [TalkNext]_talkvars => TalkInv'
  BY TalkStep
<1>3. TalkInv => ConversationSound
  <2>1. SUFFICES ASSUME TalkInv PROVE ConversationSound
    OBVIOUS
  <2>2. /\ history \in Seq(Entry) /\ DOMAIN history = 1 .. Len(history)
        /\ history # <<>> => Last(history) = history[Len(history)]
    BY <2>1 DEF TalkInv, TalkType, Last
  <2>3. Len(history) < MaxTurns + Cardinality(Caller)
    <3>1. /\ Len(history) \in Nat /\ MaxTurns \in Nat /\ Cardinality(Caller) \in Nat
          /\ Cardinality(InTurn) \in Nat
      <4>1. InTurn \in SUBSET Caller
        BY DEF InTurn
      <4>2. QED
        BY <2>2, <4>1, CountCallers, TalkerAssumption
    <3>2. QED
      BY <2>1, <3>1 DEF TalkInv, Admitted
  <2>4. ConversationConsistent
    BY <2>1, <2>2, <2>3 DEF TalkInv, Told, OnTree, ConversationConsistent
  <2>5. SequentialTurnsWalk
    BY <2>1, <2>2 DEF TalkInv, Walk, SequentialTurnsWalk
  <2>6. QED
    BY <2>4, <2>5 DEF ConversationSound
<1>4. QED
  BY <1>1, <1>2, <1>3, PTL DEF TalkSpec

-----------------------------------------------------------------------------
(* OPRO and APE                                                              *)

Scored == [value : Value, score : Nat]
Update == [at : {"idle", "queued", "failed", "propose", "evaluate", "tell", "current", "score"},
           cand : Value \cup {NoValue}, best : Nat \cup {-1}, tries : Int,
           scored : SUBSET Scored, pool : SUBSET Value]

SearchTypeOK ==
  /\ method \in {"opro", "ape"} /\ landscape \in Landscapes /\ width \in Widths
  /\ value \in [Param -> Value]
  /\ recent \in [Param -> Seq(Scored)] /\ seen \in [Param -> Seq(Scored)]
  /\ update \in [Param -> Update] /\ dropped \in [Param -> SUBSET Nat]
  /\ inStep \in BOOLEAN /\ taken \in Nat /\ run \in {"none", "open", "closed"} /\ depth \in Nat
  /\ \A p \in Param : update[p].at = "evaluate" => update[p].cand \in Value

\* The history of a parameter is the end of all that was scored for it.
IsWindow(r, s) ==
  /\ Len(r) = IF Len(s) > HistoryK THEN HistoryK ELSE Len(s)
  /\ \A i \in 1 .. Len(r) : r[i] = s[Len(s) - Len(r) + i]

\* The record an update has filed and not yet written.
Waiting(u, s) == IF u.at = "tell" /\ u.cand # NoValue THEN {Len(s)} ELSE {}

\* The best score an update of OPRO knows, unless it has a record: nothing in the
\* history exceeds it, and until the history is full it is the score of something seen.
KnowsBest(u, r, s) ==
  u.at \in {"propose", "evaluate"} \/ (u.at = "tell" /\ u.cand = NoValue) =>
    /\ \A i \in 1 .. Len(r) : r[i].score <= u.best
    /\ Len(s) \in 1 .. HistoryK => \E i \in 1 .. Len(s) : s[i].score = u.best
    /\ s = <<>> => u.best = -1

\* The record that waits is the last seen, and beats those before it in its window.
BeatsWindow(u, s, d) ==
  u.at = "tell" /\ u.cand # NoValue =>
    /\ Len(s) \in 1 .. Len(s) /\ Len(s) \notin d /\ u.cand = s[Len(s)].value
    /\ \A k \in 1 .. Len(s) : Len(s) - HistoryK <= k /\ k < Len(s) => s[k].score < s[Len(s)].score

\* Of the records but those of d, the last is that of v.
LastRecord(v, s, d) ==
  Len(s) <= HistoryK =>
    \A k \in Records(s) \ d : (\A j \in Records(s) \ d : j <= k) => v = s[k].value

HistoryOK(r, s, u, d, v) ==
  /\ IsWindow(r, s) /\ KnowsBest(u, r, s)
  /\ d \subseteq 1 .. Len(s) /\ BeatsWindow(u, s, d) /\ LastRecord(v, s, d \cup Waiting(u, s))

HistoriesSound ==
  method = "opro" => \A p \in Param : HistoryOK(recent[p], seen[p], update[p], dropped[p], value[p])

\* The scores an update of APE holds: those of the agent as it is, if no other update runs.
CandidatesSound ==
  method = "ape" => \A p \in Param :
    /\ IsFiniteSet(update[p].scored)
    /\ update[p].at # "score" => update[p].scored = {}
    /\ width = 1 /\ update[p].at = "score" =>
         /\ update[p].best = landscape[value]
         /\ \A c \in update[p].scored : c.score = Score(p, c.value)

SearchInv == SearchTypeOK /\ UpdatesWithinStep /\ HistoriesSound /\ CandidatesSound

-----------------------------------------------------------------------------
(* Highest scores *)

\* A finite set of naturals that is not empty has a maximum, and Max is it.
LEMMA FiniteMax ==
  ASSUME NEW T, T \subseteq Nat, T # {}, IsFiniteSet(T)
  PROVE  Max(T) \in T /\ \A y \in T : y <= Max(T)
<1> DEFINE Bad == {m \in Nat : \E S \in SUBSET Nat : /\ S # {} /\ IsFiniteSet(S) /\ Cardinality(S) = m
                                                     /\ \A x \in S : \E y \in S : ~(y <= x)}
<1>1. Bad = {}
  <2> SUFFICES ASSUME Bad # {} PROVE FALSE
    OBVIOUS
  <2> DEFINE m == Min(Bad)
  <2>1. m \in Bad /\ \A k \in Bad : m <= k
    <3> HIDE DEF Bad
    <3>1. Bad \subseteq Nat
      BY DEF Bad
    <3> QED BY <3>1, NatMin
  <2> HIDE DEF m
  <2>2. PICK S \in SUBSET Nat : /\ S # {} /\ IsFiniteSet(S) /\ Cardinality(S) = m
                                /\ \A x \in S : \E y \in S : ~(y <= x)
    BY <2>1
  <2>3. PICK x \in S : TRUE
    BY <2>2
  <2>4. IsFiniteSet(S \ {x}) /\ Cardinality(S \ {x}) = m - 1 /\ m \in Nat
    BY <2>1, <2>2, <2>3, FS_RemoveElement
  <2>5. S \ {x} # {}
    BY <2>2, <2>3
  <2>6. m - 1 \in Nat
    <3>1. Cardinality(S \ {x}) \in Nat
      BY <2>4, FS_CardinalityType
    <3> QED BY <2>4, <3>1
  <2>7. m - 1 \notin Bad
    <3> HIDE DEF Bad
    <3> QED BY <2>1, <2>4, <2>6
  <2>8. PICK z \in S \ {x} : \A y \in S \ {x} : y <= z
    BY <2>4, <2>5, <2>6, <2>7
  <2>9. x \in Nat /\ z \in Nat
    BY <2>3, <2>8
  <2>10. \A y \in S : y <= (IF x <= z THEN z ELSE x)
    <3>1. ASSUME NEW y \in S PROVE y <= (IF x <= z THEN z ELSE x)
      BY <2>8, <2>9
    <3> QED BY <3>1
  <2> QED BY <2>2, <2>3, <2>8, <2>10
<1>2. Cardinality(T) \in Nat
  BY FS_CardinalityType
<1>3. PICK x \in T : \A y \in T : y <= x
  <2>1. Cardinality(T) \notin Bad
    BY <1>1
  <2> QED BY <1>2, <2>1
<1>4. \E w \in T : \A y \in T : w >= y
  BY <1>3
<1>5. Max(T) \in T /\ \A y \in T : Max(T) >= y
  BY <1>4, Zenon DEF Max
<1> QED BY <1>5

LEMMA ScoresFinite ==
  ASSUME NEW h \in Seq(Scored)
  PROVE  IsFiniteSet(ScoresOf(h)) /\ ScoresOf(h) \subseteq Nat
<1> DEFINE f == [k \in 1 .. Len(h) |-> h[k].score]
<1>1. DOMAIN h = 1 .. Len(h) /\ \A k \in 1 .. Len(h) : h[k] \in Scored
  OBVIOUS
<1>2. f \in Surjection(1 .. Len(h), ScoresOf(h))
  BY <1>1 DEF Surjection, ScoresOf
<1>3. IsFiniteSet(1 .. Len(h))
  BY FS_Interval
<1>4. IsFiniteSet(ScoresOf(h))
  BY <1>2, <1>3, FS_Surjection
<1> QED BY <1>1, <1>4 DEF ScoresOf, Scored

\* MaxScore is the highest of finitely many, and -1 of none.
LEMMA MaxScoreIs ==
  ASSUME NEW S, S \subseteq Nat, IsFiniteSet(S)
  PROVE  /\ MaxScore(S) \in Nat \cup {-1} /\ \A y \in S : y <= MaxScore(S)
         /\ S # {} => MaxScore(S) \in S
         /\ S = {} => MaxScore(S) = -1
<1>1. CASE S = {}
  BY <1>1 DEF MaxScore
<1>2. CASE S # {}
  <2>1. Max(S) \in S /\ \A y \in S : y <= Max(S)
    BY <1>2, FiniteMax
  <2> QED BY <1>2, <2>1 DEF MaxScore
<1> QED BY <1>1, <1>2

\* The best score an update starts from.
LEMMA BestOfHistory ==
  ASSUME NEW r \in Seq(Scored), NEW s \in Seq(Scored), IsWindow(r, s), HistoryK \in Nat \ {0}
  PROVE  /\ MaxScore(ScoresOf(r)) \in Nat \cup {-1}
         /\ \A i \in 1 .. Len(r) : r[i].score <= MaxScore(ScoresOf(r))
         /\ Len(s) \in 1 .. HistoryK => \E i \in 1 .. Len(s) : s[i].score = MaxScore(ScoresOf(r))
         /\ s = <<>> => MaxScore(ScoresOf(r)) = -1
<1> DEFINE m == MaxScore(ScoresOf(r))
<1>1. /\ m \in Nat \cup {-1} /\ \A y \in ScoresOf(r) : y <= m
      /\ ScoresOf(r) # {} => m \in ScoresOf(r)
      /\ ScoresOf(r) = {} => m = -1
  BY ScoresFinite, MaxScoreIs
<1>2. DOMAIN r = 1 .. Len(r) /\ DOMAIN s = 1 .. Len(s) /\ Len(r) \in Nat /\ Len(s) \in Nat
  OBVIOUS
<1> HIDE DEF m
<1>3. \A i \in 1 .. Len(r) : r[i].score <= m
  BY <1>1, <1>2 DEF ScoresOf
<1>4. ASSUME Len(s) \in 1 .. HistoryK PROVE \E i \in 1 .. Len(s) : s[i].score = m
  <2>1. Len(r) = Len(s) /\ \A i \in 1 .. Len(r) : r[i] = s[i]
    <3>1. Len(r) = Len(s)
      <4>1. Len(r) = IF Len(s) > HistoryK THEN HistoryK ELSE Len(s)
        BY DEF IsWindow
      <4>2. ~(Len(s) > HistoryK)
        BY <1>2, <1>4
      <4> QED BY <4>1, <4>2
    <3>2. \A i \in 1 .. Len(r) : Len(s) - Len(r) + i = i
      BY <1>2, <3>1
    <3> QED BY <3>1, <3>2 DEF IsWindow
  <2>2. r[1].score \in ScoresOf(r)
    BY <1>2, <1>4, <2>1 DEF ScoresOf
  <2>3. m \in ScoresOf(r)
    BY <1>1, <2>2
  <2>4. PICK i \in 1 .. Len(r) : m = r[i].score
    BY <1>2, <2>3 DEF ScoresOf
  <2> QED BY <2>1, <2>4
<1>5. ASSUME s = <<>> PROVE m = -1
  <2>1. Len(r) = 0
    BY <1>2, <1>5 DEF IsWindow
  <2> QED BY <1>1, <1>2, <2>1 DEF ScoresOf
<1>6. m \in Nat \cup {-1}
  BY <1>1
<1> QED BY <1>3, <1>4, <1>5, <1>6 DEF m

-----------------------------------------------------------------------------
(* A candidate is scored *)

\* The history goes on as the end of what was seen.
LEMMA WindowGoesOn ==
  ASSUME NEW r \in Seq(Scored), NEW s \in Seq(Scored), NEW e \in Scored, IsWindow(r, s), HistoryK \in Nat \ {0}
  PROVE  IsWindow(Truncated(Append(r, e)), Append(s, e)) /\ Truncated(Append(r, e)) \in Seq(Scored)
<1> DEFINE a == Append(r, e)   b == Append(s, e)   t == Truncated(a)
<1>1. /\ a \in Seq(Scored) /\ Len(a) = Len(r) + 1 /\ a[Len(r) + 1] = e /\ \A i \in 1 .. Len(r) : a[i] = r[i]
      /\ b \in Seq(Scored) /\ Len(b) = Len(s) + 1 /\ b[Len(s) + 1] = e /\ \A i \in 1 .. Len(s) : b[i] = s[i]
      /\ Len(r) \in Nat /\ Len(s) \in Nat
  OBVIOUS
<1> HIDE DEF a, b
<1>2. Len(r) = (IF Len(s) > HistoryK THEN HistoryK ELSE Len(s)) /\ \A i \in 1 .. Len(r) : r[i] = s[Len(s) - Len(r) + i]
  BY DEF IsWindow
<1>3. \A i \in 1 .. Len(a) : a[i] = b[Len(b) - Len(a) + i]
  <2>1. ASSUME NEW i \in 1 .. Len(r) PROVE a[i] = b[Len(b) - Len(a) + i]
    <3>1. Len(b) - Len(a) + i = Len(s) - Len(r) + i /\ Len(s) - Len(r) + i \in 1 .. Len(s)
      BY <1>1, <1>2
    <3> QED BY <1>1, <1>2, <3>1
  <2>2. Len(b) - Len(a) + Len(a) = Len(s) + 1
    BY <1>1
  <2>3. \A i \in 1 .. Len(a) : i \in 1 .. Len(r) \/ i = Len(a)
    BY <1>1
  <2> QED BY <1>1, <2>1, <2>2, <2>3
<1>4. CASE Len(a) > HistoryK
  <2>1. t = SubSeq(a, Len(a) - HistoryK + 1, Len(a))
    BY <1>4 DEF Truncated
  <2>2. Len(a) - HistoryK + 1 \in 1 .. Len(a)
    BY <1>1, <1>4
  <2>3. t \in Seq(Scored) /\ Len(t) = HistoryK /\ \A i \in 1 .. HistoryK : t[i] = a[Len(a) - HistoryK + i]
    <3> HIDE DEF t
    <3>1. t \in Seq(Scored) /\ Len(t) = Len(a) - (Len(a) - HistoryK + 1) + 1
      BY <1>1, <2>1, <2>2
    <3>2. \A i \in 1 .. Len(t) : t[i] = a[(Len(a) - HistoryK + 1) + i - 1]
      BY <1>1, <2>1, <2>2
    <3>3. Len(t) = HistoryK /\ \A i \in 1 .. HistoryK : (Len(a) - HistoryK + 1) + i - 1 = Len(a) - HistoryK + i
      BY <1>1, <3>1
    <3> QED BY <3>1, <3>2, <3>3
  <2> HIDE DEF t
  <2>4. ASSUME NEW i \in 1 .. HistoryK PROVE t[i] = b[Len(b) - HistoryK + i]
    <3>1. Len(a) - HistoryK + i \in 1 .. Len(a)
      BY <1>1, <1>4
    <3>2. Len(b) - Len(a) + (Len(a) - HistoryK + i) = Len(b) - HistoryK + i
      BY <1>1
    <3>3. a[Len(a) - HistoryK + i] = b[Len(b) - Len(a) + (Len(a) - HistoryK + i)]
      BY <1>3, <3>1
    <3> QED BY <2>3, <3>2, <3>3
  <2>5. Len(b) > HistoryK
    BY <1>1, <1>2, <1>4
  <2>6. IsWindow(t, b)
    BY <2>3, <2>4, <2>5 DEF IsWindow
  <2> QED BY <2>3, <2>6 DEF t, a, b
<1>5. CASE ~(Len(a) > HistoryK)
  <2>1. t = a
    BY <1>5 DEF Truncated
  <2>2. Len(b) = Len(a) /\ ~(Len(b) > HistoryK)
    BY <1>1, <1>2, <1>5
  <2>3. IsWindow(a, b)
    BY <1>3, <2>2 DEF IsWindow
  <2> QED BY <1>1, <2>1, <2>3 DEF a, b
<1> QED BY <1>4, <1>5

\* What is scored adds a record, or none, and changes no other.
LEMMA RecordsGoOn ==
  ASSUME NEW s \in Seq(Scored), NEW e \in Scored
  PROVE  /\ Records(Append(s, e)) \ {Len(s) + 1} = Records(s)
         /\ Records(s) \subseteq 1 .. Len(s)
<1> DEFINE b == Append(s, e)
<1>1. /\ Len(b) = Len(s) + 1 /\ DOMAIN b = 1 .. Len(s) + 1 /\ DOMAIN s = 1 .. Len(s) /\ Len(s) \in Nat
      /\ \A i \in 1 .. Len(s) : b[i] = s[i]
  OBVIOUS
<1> HIDE DEF b
<1>2. ASSUME NEW k \in 1 .. Len(s) PROVE k \in Records(b) <=> k \in Records(s)
  <2>1. \A j \in 1 .. k - 1 : b[j] = s[j]
    BY <1>1
  <2>2. b[k] = s[k] /\ k \in DOMAIN b /\ k \in DOMAIN s
    BY <1>1
  <2> QED BY <2>1, <2>2 DEF Records
<1>3. Records(s) \subseteq 1 .. Len(s) /\ Records(b) \subseteq 1 .. Len(s) + 1
  BY <1>1 DEF Records
<1>4. \A k \in 1 .. Len(s) + 1 : k = Len(s) + 1 \/ (k \in 1 .. Len(s) /\ k # Len(s) + 1)
  BY <1>1
<1>5. \A k \in 1 .. Len(s) : k \in 1 .. Len(s) + 1 /\ k # Len(s) + 1
  BY <1>1
<1> QED BY <1>2, <1>3, <1>4, <1>5 DEF b

\* What is no record, by the best score known, is none of those seen.
LEMMA NoRecord ==
  ASSUME NEW s \in Seq(Scored), NEW e \in Scored, NEW r \in Seq(Scored), NEW u \in Update,
         HistoryK \in Nat \ {0}, u.at = "evaluate", KnowsBest(u, r, s), ~(e.score > u.best),
         Len(s) + 1 <= HistoryK
  PROVE  Len(s) + 1 \notin Records(Append(s, e))
<1> DEFINE b == Append(s, e)
<1>1. /\ Len(s) \in Nat /\ b[Len(s) + 1] = e /\ e.score \in Nat
      /\ \A i \in 1 .. Len(s) : b[i] = s[i] /\ s[i].score \in Nat
  <2>1. \A i \in 1 .. Len(s) : s[i] \in Scored
    OBVIOUS
  <2>2. Len(s) \in Nat /\ b[Len(s) + 1] = e /\ \A i \in 1 .. Len(s) : b[i] = s[i]
    OBVIOUS
  <2> HIDE DEF b
  <2> QED BY <2>1, <2>2 DEF Scored
<1> HIDE DEF b
<1>2. s # <<>>
  <2>1. s = <<>> => u.best = -1
    BY DEF KnowsBest
  <2> QED BY <1>1, <2>1
<1>3. Len(s) \in 1 .. HistoryK
  BY <1>1, <1>2
<1>4. PICK i \in 1 .. Len(s) : s[i].score = u.best
  BY <1>3 DEF KnowsBest
<1>5. i \in 1 .. (Len(s) + 1) - 1 /\ ~(b[i].score < b[Len(s) + 1].score)
  <2>1. b[i].score = u.best /\ b[i].score \in Nat
    BY <1>1, <1>4
  <2> QED BY <1>1, <1>4, <2>1
<1> QED BY <1>5 DEF Records, b

\* A record waits to be written; what is none leaves the last in its place.
LEMMA LastRecordGoesOn ==
  ASSUME NEW s \in Seq(Scored), NEW v, NEW e \in Scored, NEW r \in Seq(Scored), NEW u \in Update,
         NEW d \in SUBSET (1 .. Len(s)),
         HistoryK \in Nat \ {0}, u.at = "evaluate", KnowsBest(u, r, s), LastRecord(v, s, d)
  PROVE  /\ LastRecord(v, Append(s, e), d \cup {Len(s) + 1})
         /\ ~(e.score > u.best) => LastRecord(v, Append(s, e), d)
<1> DEFINE b == Append(s, e)   n == Len(s) + 1
<1>1. /\ Len(b) = n /\ Len(s) \in Nat /\ \A i \in 1 .. Len(s) : b[i] = s[i]
  OBVIOUS
<1>2. Records(b) \ {n} = Records(s) /\ Records(s) \subseteq 1 .. Len(s)
  BY RecordsGoOn
<1>3. CASE ~(n <= HistoryK)
  <2> HIDE DEF b, n
  <2> QED BY <1>1, <1>3 DEF LastRecord, b, n
<1>4. CASE n <= HistoryK
  <2>1. ASSUME NEW R, R = Records(s) \ d, NEW k \in R, \A j \in R : j <= k PROVE v = b[k].value
    <3>1. Len(s) <= HistoryK
      BY <1>1, <1>4
    <3>2. v = s[k].value
      BY <2>1, <3>1 DEF LastRecord
    <3>3. k \in 1 .. Len(s)
      BY <1>2, <2>1
    <3> HIDE DEF b, n
    <3> QED BY <1>1, <3>2, <3>3
  <2>2. Records(b) \ (d \cup {n}) = Records(s) \ d
    <3> HIDE DEF b, n
    <3> QED BY <1>2
  <2>3. ~(e.score > u.best) => Records(b) \ d = Records(s) \ d
    <3>1. ~(e.score > u.best) => n \notin Records(b)
      BY <1>4, NoRecord
    <3> HIDE DEF b, n
    <3> QED BY <1>2, <3>1
  <2> HIDE DEF b, n
  <2>4. LastRecord(v, b, d \cup {n})
    BY <2>1, <2>2 DEF LastRecord
  <2>5. ~(e.score > u.best) => LastRecord(v, b, d)
    BY <2>1, <2>3 DEF LastRecord
  <2> QED BY <2>4, <2>5 DEF b, n
<1> QED BY <1>3, <1>4

\* A record beats the window before it.
LEMMA RecordBeats ==
  ASSUME NEW s \in Seq(Scored), NEW e \in Scored, NEW r \in Seq(Scored), NEW u \in Update,
         HistoryK \in Nat \ {0}, u.at = "evaluate", KnowsBest(u, r, s), IsWindow(r, s), e.score > u.best,
         NEW k \in 1 .. Len(s), k > Len(s) - HistoryK
  PROVE  s[k].score < e.score
<1> DEFINE i == k - Len(s) + Len(r)
<1>1. /\ Len(s) \in Nat /\ Len(r) \in Nat
      /\ Len(r) = IF Len(s) > HistoryK THEN HistoryK ELSE Len(s)
  BY DEF IsWindow
<1>2. i \in 1 .. Len(r) /\ Len(s) - Len(r) + i = k
  <2>1. CASE Len(s) > HistoryK
    BY <1>1, <2>1
  <2>2. CASE ~(Len(s) > HistoryK)
    BY <1>1, <2>2
  <2> QED BY <2>1, <2>2
<1> HIDE DEF i
<1>3. r[i] = s[k]
  BY <1>2 DEF IsWindow
<1>4. r[i].score <= u.best
  BY <1>2 DEF KnowsBest
<1>5. s[k] \in Scored /\ u.best \in Nat \cup {-1}
  BY DEF Update
<1>6. s[k].score \in Nat /\ e.score \in Nat
  BY <1>5 DEF Scored
<1> QED BY <1>3, <1>4, <1>5, <1>6

\* The record that waited is now the last that is written.
LEMMA RecordWritten ==
  ASSUME NEW s \in Seq(Scored), NEW u \in Update, NEW d, HistoryK \in Nat \ {0},
         u.at = "tell", u.cand # NoValue, BeatsWindow(u, s, d)
  PROVE  LastRecord(u.cand, s, d)
<1> DEFINE n == Len(s)
<1>1. /\ n \in 1 .. n /\ n \in Nat /\ n \notin d /\ u.cand = s[n].value /\ DOMAIN s = 1 .. n
      /\ \A k \in 1 .. n : n - HistoryK <= k /\ k < n => s[k].score < s[n].score
  BY DEF BeatsWindow
<1> HIDE DEF n
<1>2. ASSUME n <= HistoryK PROVE n \in Records(s) \ d
  <2>1. \A k \in 1 .. n - 1 : k \in 1 .. n /\ n - HistoryK <= k /\ k < n
    BY <1>1, <1>2
  <2> QED BY <1>1, <2>1 DEF Records
<1>3. ASSUME n <= HistoryK, NEW k \in Records(s) \ d, \A j \in Records(s) \ d : j <= k PROVE k = n
  <2>1. k \in 1 .. n /\ n <= k
    BY <1>1, <1>2, <1>3 DEF Records
  <2> QED BY <1>1, <2>1
<1> QED BY <1>1, <1>3 DEF LastRecord, n

\* The update that asks again knows the best of what was scored.
LEMMA KnowsBestGoesOn ==
  ASSUME NEW s \in Seq(Scored), NEW e \in Scored, NEW r \in Seq(Scored), NEW u \in Update, NEW w \in Update,
         HistoryK \in Nat \ {0}, u.at = "evaluate", KnowsBest(u, r, s), IsWindow(r, s),
         w.best = u.best, e.score <= u.best
  PROVE  KnowsBest(w, Truncated(Append(r, e)), Append(s, e))
<1> DEFINE a == Append(r, e)   b == Append(s, e)   t == Truncated(a)
<1>1. /\ a \in Seq(Scored) /\ Len(a) = Len(r) + 1 /\ a[Len(r) + 1] = e /\ \A i \in 1 .. Len(r) : a[i] = r[i]
      /\ b \in Seq(Scored) /\ Len(b) = Len(s) + 1 /\ b[Len(s) + 1] = e /\ \A i \in 1 .. Len(s) : b[i] = s[i]
      /\ Len(r) \in Nat /\ Len(s) \in Nat
  OBVIOUS
<1>2. \A i \in 1 .. Len(a) : a[i].score <= u.best
  <2>1. \A i \in 1 .. Len(a) : i \in 1 .. Len(r) \/ i = Len(r) + 1
    BY <1>1
  <2>2. \A i \in 1 .. Len(r) : r[i].score <= u.best
    BY DEF KnowsBest
  <2> QED BY <1>1, <2>1, <2>2
<1>3. \A i \in 1 .. Len(t) : t[i].score <= u.best
  <2>1. CASE Len(a) > HistoryK
    <3>1. t = SubSeq(a, Len(a) - HistoryK + 1, Len(a)) /\ Len(a) - HistoryK + 1 \in 1 .. Len(a) /\ Len(a) \in Nat
      <4> HIDE DEF a
      <4>1. t = SubSeq(a, Len(a) - HistoryK + 1, Len(a))
        BY <2>1 DEF Truncated
      <4>2. Len(a) \in Nat
        BY <1>1
      <4>3. Len(a) - HistoryK + 1 \in 1 .. Len(a)
        BY <2>1, <4>2
      <4> QED BY <4>1, <4>2, <4>3
    <3> HIDE DEF a, t
    <3>2. ASSUME NEW i \in 1 .. Len(t) PROVE \E j \in 1 .. Len(a) : t[i] = a[j]
      <4>1. Len(t) = Len(a) - (Len(a) - HistoryK + 1) + 1 /\ t[i] = a[(Len(a) - HistoryK + 1) + i - 1]
        BY <1>1, <3>1, <3>2
      <4>2. (Len(a) - HistoryK + 1) + i - 1 \in 1 .. Len(a)
        BY <3>1, <4>1
      <4> QED BY <4>1, <4>2
    <3> QED BY <1>2, <3>2
  <2>2. CASE ~(Len(a) > HistoryK)
    BY <1>2, <2>2 DEF Truncated
  <2> QED BY <2>1, <2>2
<1>4. ASSUME Len(b) \in 1 .. HistoryK PROVE \E i \in 1 .. Len(b) : b[i].score = u.best
  <2>1. s # <<>>
    <3>1. s = <<>> => u.best = -1
      BY DEF KnowsBest
    <3>2. e.score \in Nat
      BY DEF Scored
    <3> QED BY <3>1, <3>2
  <2>2. Len(s) \in 1 .. HistoryK
    BY <1>1, <1>4, <2>1
  <2>3. PICK i \in 1 .. Len(s) : s[i].score = u.best
    BY <2>2 DEF KnowsBest
  <2> QED BY <1>1, <2>3
<1>5. b # <<>>
  BY <1>1
<1> QED BY <1>3, <1>4, <1>5 DEF KnowsBest

-----------------------------------------------------------------------------
(* What each action makes of the update of its parameter *)

\* Only the update of p moves on, to another update.
Moves(p) == update' \in [Param -> Update] /\ \A q \in Param : q # p => update'[q] = update[q]

\* A record of the fields of an update is one.
LEMMA UpdateRecord ==
  ASSUME NEW u \in Update
  PROVE  /\ DOMAIN u = {"at", "cand", "best", "tries", "scored", "pool"}
         /\ u = [x \in {"at", "cand", "best", "tries", "scored", "pool"} |-> u[x]]
         /\ u.at \in {"idle", "queued", "failed", "propose", "evaluate", "tell", "current", "score"}
         /\ u.cand \in Value \cup {NoValue} /\ u.best \in Nat \cup {-1} /\ u.tries \in Int
         /\ u.scored \in SUBSET Scored /\ u.pool \in SUBSET Value
  BY DEF Update

LEMMA NoUpdateIs == NoUpdate \in Update /\ NoUpdate.at = "idle" /\ NoUpdate.scored = {} /\ IsFiniteSet({})
<1>1. {} \in SUBSET Scored /\ {} \in SUBSET Value /\ -1 \in Nat \cup {-1} /\ 0 \in Int
  OBVIOUS
<1> QED BY <1>1, FS_EmptySet DEF NoUpdate, Update

LEMMA ScoreIs ==
  ASSUME SearchTypeOK, NEW p \in Param, NEW v \in Value
  PROVE  Score(p, v) \in Nat /\ [value |-> v, score |-> Score(p, v)] \in Scored
<1>1. landscape \in [[Param -> Value] -> Nat] /\ [value EXCEPT ![p] = v] \in [Param -> Value]
  BY ValueSearchAssumption DEF SearchTypeOK
<1>2. Score(p, v) \in Nat
  BY <1>1 DEF Score
<1> QED BY <1>2 DEF Scored

LEMMA MovesTo ==
  ASSUME update \in [Param -> Update], NEW p \in Param, NEW w \in Update, update' = [update EXCEPT ![p] = w]
  PROVE  Moves(p) /\ update'[p] = w
  BY DEF Moves

LEMMA BeginMoves ==
  ASSUME SearchTypeOK, NEW p \in Param, UpdateBegins(p)
  PROVE  /\ Moves(p) /\ update'[p].at = "propose" /\ update'[p].scored = update[p].scored
         /\ update'[p].best = MaxScore(ScoresOf(recent[p]))
<1> DEFINE m == MaxScore(ScoresOf(recent[p]))
           w == [update[p] EXCEPT !.at = "propose", !.tries = Retries, !.best = m]
<1>1. m \in Nat \cup {-1}
  <2>1. recent[p] \in Seq(Scored)
    BY DEF SearchTypeOK
  <2> QED BY <2>1, ScoresFinite, MaxScoreIs
<1>2. update \in [Param -> Update] /\ Retries \in Int
  BY ValueSearchAssumption DEF SearchTypeOK
<1>3. update' = [update EXCEPT ![p] = w]
  BY <1>2 DEF UpdateBegins
<1> HIDE DEF m
<1>4. w \in Update /\ w.at = "propose" /\ w.scored = update[p].scored /\ w.best = m
  BY <1>1, <1>2 DEF Update
<1> HIDE DEF w
<1> QED BY <1>2, <1>3, <1>4, MovesTo DEF m

LEMMA FailMoves ==
  ASSUME SearchTypeOK, NEW p \in Param, UpdateFails(p)
  PROVE  Moves(p) /\ update'[p].at = "failed" /\ update'[p].scored = {}
<1> DEFINE w == [NoUpdate EXCEPT !.at = "failed"]
<1>1. w \in Update /\ w.at = "failed" /\ w.scored = {}
  BY NoUpdateIs DEF Update
<1>2. update' = [update EXCEPT ![p] = w] /\ update \in [Param -> Update]
  BY DEF UpdateFails, SearchTypeOK
<1> HIDE DEF w
<1> QED BY <1>1, <1>2, MovesTo

LEMMA ProposeMoves ==
  ASSUME SearchTypeOK, NEW p \in Param, Propose(p)
  PROVE  /\ Moves(p) /\ update'[p].at \in {"idle", "propose", "evaluate"}
         /\ update'[p].at = "evaluate" => update'[p].cand \in Value
         /\ update'[p].at # "idle" => update'[p].best = update[p].best
         /\ IsFiniteSet(update[p].scored) => IsFiniteSet(update'[p].scored)
<1>1. update \in [Param -> Update]
  BY DEF SearchTypeOK
<1>2. ASSUME NEW v \in Value, update' = [update EXCEPT ![p].at = "evaluate", ![p].cand = v]
      PROVE  /\ Moves(p) /\ update'[p].at = "evaluate" /\ update'[p].cand \in Value /\ update'[p].best = update[p].best
             /\ update'[p].scored = update[p].scored
  <2> DEFINE w == [update[p] EXCEPT !.at = "evaluate", !.cand = v]
  <2>1. w \in Update /\ w.at = "evaluate" /\ w.cand = v /\ w.best = update[p].best /\ w.scored = update[p].scored
    BY <1>1 DEF Update
  <2>2. update' = [update EXCEPT ![p] = w]
    BY <1>1, <1>2
  <2> HIDE DEF w
  <2> QED BY <1>1, <2>1, <2>2, MovesTo
<1>3. CASE update' = [update EXCEPT ![p] = IF update[p].tries = 1 THEN NoUpdate ELSE [update[p] EXCEPT !.tries = update[p].tries - 1]]
  <2>1. CASE update[p].tries = 1
    <3>1. update' = [update EXCEPT ![p] = NoUpdate]
      BY <1>3, <2>1
    <3>2. Moves(p) /\ update'[p] = NoUpdate
      BY <1>1, <3>1, NoUpdateIs, MovesTo
    <3> QED BY <3>2, NoUpdateIs
  <2>2. CASE update[p].tries # 1
    <3> DEFINE w == [update[p] EXCEPT !.tries = update[p].tries - 1]
    <3>1. w \in Update /\ w.at = update[p].at /\ w.best = update[p].best /\ w.scored = update[p].scored
      <4>1. update[p].tries \in Int /\ update[p] \in Update
        BY <1>1 DEF Update
      <4>2. update[p].tries - 1 \in Int
        BY <4>1
      <4> QED BY <4>1, <4>2 DEF Update
    <3>2. update' = [update EXCEPT ![p] = w]
      <4>1. update' = [update EXCEPT ![p] = IF update[p].tries = 1 THEN NoUpdate ELSE w]
        BY <1>3
      <4> HIDE DEF w
      <4> QED BY <4>1, <2>2
    <3>3. update[p].at = "propose"
      BY DEF Propose
    <3> HIDE DEF w
    <3> QED BY <1>1, <3>1, <3>2, <3>3, MovesTo
  <2> QED BY <2>1, <2>2
<1>4. \/ \E v \in Value : update' = [update EXCEPT ![p].at = "evaluate", ![p].cand = v]
      \/ update' = [update EXCEPT ![p] = IF update[p].tries = 1 THEN NoUpdate ELSE [update[p] EXCEPT !.tries = update[p].tries - 1]]
  BY DEF Propose
<1> QED BY <1>2, <1>3, <1>4

LEMMA EvaluateMoves ==
  ASSUME SearchTypeOK, NEW p \in Param, Evaluate(p)
  PROVE  LET v == update[p].cand
         IN  /\ Moves(p) /\ update'[p].at = "tell" /\ update'[p].best = update[p].best
             /\ update'[p].cand = IF IsRecord(p, Score(p, v)) THEN v ELSE NoValue
             /\ update'[p].scored = update[p].scored
<1> DEFINE v == update[p].cand
           c == IF IsRecord(p, Score(p, v)) THEN v ELSE NoValue
           w == [update[p] EXCEPT !.at = "tell", !.cand = c]
<1>1. update \in [Param -> Update] /\ update[p] \in Update
  BY DEF SearchTypeOK
<1>2. update' = [update EXCEPT ![p] = w]
  BY DEF Evaluate
<1>3. c \in Value \cup {NoValue}
  BY <1>1 DEF Update
<1> HIDE DEF c
<1>4. w \in Update /\ w.at = "tell" /\ w.best = update[p].best /\ w.cand = c /\ w.scored = update[p].scored
  BY <1>1, <1>3 DEF Update
<1> HIDE DEF w
<1> QED BY <1>1, <1>2, <1>4, MovesTo DEF c, v

LEMMA DecideMoves ==
  ASSUME SearchTypeOK, NEW p \in Param, Decide(p)
  PROVE  /\ Moves(p) /\ update'[p].at \in {"idle", "propose"}
         /\ update'[p].at = "propose" => update'[p].best = update[p].best /\ update[p].cand = NoValue
         /\ IsFiniteSet(update[p].scored) => IsFiniteSet(update'[p].scored)
<1> DEFINE w == [update[p] EXCEPT !.at = "propose", !.tries = update[p].tries - 1]
<1>1. update \in [Param -> Update] /\ update[p] \in Update
  BY DEF SearchTypeOK
<1>2. update' = [update EXCEPT ![p] = IF update[p].cand # NoValue \/ update[p].tries = 1 THEN NoUpdate ELSE w]
  BY DEF Decide
<1>3. w \in Update /\ w.at = "propose" /\ w.best = update[p].best /\ w.scored = update[p].scored
  <2>1. update[p].tries \in Int /\ update[p].tries - 1 \in Int
    BY <1>1 DEF Update
  <2> QED BY <1>1, <2>1 DEF Update
<1> HIDE DEF w
<1>4. CASE update[p].cand # NoValue \/ update[p].tries = 1
  <2>1. update' = [update EXCEPT ![p] = NoUpdate]
    BY <1>2, <1>4
  <2>2. Moves(p) /\ update'[p] = NoUpdate
    BY <1>1, <2>1, NoUpdateIs, MovesTo
  <2> QED BY <2>2, NoUpdateIs
<1>5. CASE ~(update[p].cand # NoValue \/ update[p].tries = 1)
  <2>1. update' = [update EXCEPT ![p] = w]
    BY <1>2, <1>5
  <2>2. Moves(p) /\ update'[p] = w
    BY <1>1, <1>3, <2>1, MovesTo
  <2> QED BY <1>3, <1>5, <2>2
<1> QED BY <1>4, <1>5

\* The fields of an update that only change one by one.
LEMMA CandidateMoves ==
  ASSUME SearchTypeOK, NEW p \in Param
  PROVE  /\ \A C \in SUBSET Value : Sample(p, C) =>
              Moves(p) /\ update'[p].at \in {"idle", "current"} /\ update'[p].scored \in {{}, update[p].scored}
         /\ ScoreCurrent(p) =>
              /\ Moves(p) /\ update'[p].at = "score" /\ update'[p].best = Score(p, value[p])
              /\ update'[p].scored = update[p].scored
         /\ \A v \in Value : ScoreCandidate(p, v) =>
              /\ Moves(p) /\ update'[p].at = "score" /\ update'[p].best = update[p].best
              /\ update'[p].scored = update[p].scored \cup {[value |-> v, score |-> Score(p, v)]}
         /\ \A v \in Value : ScoreCandidate(p, v) => update[p].at = "score"
<1>1. update \in [Param -> Update] /\ update[p] \in Update
  BY DEF SearchTypeOK
<1>2. ASSUME NEW C \in SUBSET Value, Sample(p, C)
      PROVE  Moves(p) /\ update'[p].at \in {"idle", "current"} /\ update'[p].scored \in {{}, update[p].scored}
  <2>1. CASE C = {}
    <3>1. update' = [update EXCEPT ![p] = NoUpdate]
      BY <1>2, <2>1 DEF Sample
    <3>2. Moves(p) /\ update'[p] = NoUpdate
      BY <1>1, <3>1, NoUpdateIs, MovesTo
    <3> QED BY <3>2, NoUpdateIs
  <2>2. CASE C # {}
    <3> DEFINE w == [update[p] EXCEPT !.at = "current", !.pool = C]
    <3>1. w \in Update /\ w.at = "current" /\ w.scored = update[p].scored
      BY <1>1 DEF Update
    <3>2. update' = [update EXCEPT ![p] = w]
      BY <1>1, <1>2, <2>2 DEF Sample
    <3> HIDE DEF w
    <3> QED BY <1>1, <3>1, <3>2, MovesTo
  <2> QED BY <2>1, <2>2
<1>3. ASSUME ScoreCurrent(p)
      PROVE  /\ Moves(p) /\ update'[p].at = "score" /\ update'[p].best = Score(p, value[p])
             /\ update'[p].scored = update[p].scored
  <2> DEFINE s == Score(p, value[p])   w == [update[p] EXCEPT !.at = "score", !.best = s]
  <2>1. s \in Nat
    <3>1. value[p] \in Value
      BY DEF SearchTypeOK
    <3> QED BY <3>1, ScoreIs
  <2>2. update' = [update EXCEPT ![p] = w]
    <3>1. update' = [update EXCEPT ![p].at = "score", ![p].best = s]
      BY <1>3 DEF ScoreCurrent
    <3> HIDE DEF s
    <3> QED BY <1>1, <3>1
  <2> HIDE DEF s
  <2>3. w \in Update /\ w.at = "score" /\ w.best = s /\ w.scored = update[p].scored
    BY <1>1, <2>1 DEF Update
  <2> HIDE DEF w
  <2> QED BY <1>1, <2>2, <2>3, MovesTo DEF s
<1>4. ASSUME NEW v \in Value, ScoreCandidate(p, v)
      PROVE  /\ Moves(p) /\ update'[p].at = "score" /\ update'[p].best = update[p].best
             /\ update'[p].scored = update[p].scored \cup {[value |-> v, score |-> Score(p, v)]}
             /\ update[p].at = "score"
  <2> DEFINE e == [value |-> v, score |-> Score(p, v)]
             w == [update[p] EXCEPT !.pool = update[p].pool \ {v}, !.scored = update[p].scored \cup {e}]
  <2>1. e \in Scored
    BY ScoreIs
  <2>2. update' = [update EXCEPT ![p] = w]
    <3>1. update' = [update EXCEPT ![p].pool = update[p].pool \ {v}, ![p].scored = update[p].scored \cup {e}]
      BY <1>4 DEF ScoreCandidate
    <3> HIDE DEF e
    <3> QED BY <1>1, <3>1
  <2> HIDE DEF e
  <2>3. update[p].at = "score"
    BY <1>4 DEF ScoreCandidate
  <2>4. w \in Update /\ w.at = "score" /\ w.best = update[p].best /\ w.scored = update[p].scored \cup {e}
    <3>1. update[p].pool \ {v} \in SUBSET Value /\ update[p].scored \cup {e} \in SUBSET Scored
      BY <1>1, <2>1 DEF Update
    <3> QED BY <1>1, <2>3, <3>1 DEF Update
  <2> HIDE DEF w
  <2> QED BY <1>1, <2>2, <2>3, <2>4, MovesTo DEF e
<1> QED BY <1>2, <1>3, <1>4

LEMMA WriteMoves ==
  ASSUME SearchTypeOK, NEW p \in Param, WriteWinner(p)
  PROVE  Moves(p) /\ update'[p].at = "idle" /\ update'[p].scored = {}
<1>1. update' = [update EXCEPT ![p] = NoUpdate] /\ update \in [Param -> Update]
  BY DEF WriteWinner, SearchTypeOK
<1>2. Moves(p) /\ update'[p] = NoUpdate
  BY <1>1, NoUpdateIs, MovesTo
<1> QED BY <1>2, NoUpdateIs

\* What a winner is.
LEMMA WinnerIs ==
  ASSUME SearchTypeOK, NEW p \in Param, IsFiniteSet(update[p].scored), NEW v \in Winners(p)
  PROVE  \/ v = value[p]
         \/ \E c \in update[p].scored : v = c.value /\ c.score > update[p].best
<1> DEFINE S == {c.score : c \in update[p].scored}   m == MaxScore(S)
<1>1. update[p] \in Update /\ update[p].scored \subseteq Scored
  BY DEF SearchTypeOK, Update
<1>2. S \subseteq Nat
  BY <1>1 DEF Scored
<1>3. IsFiniteSet(S)
  <2> DEFINE f == [c \in update[p].scored |-> c.score]
  <2>1. f \in Surjection(update[p].scored, S)
    BY DEF Surjection
  <2> HIDE DEF f, S
  <2> QED BY <2>1, FS_Surjection
<1> HIDE DEF S
<1>4. /\ m \in Nat \cup {-1}
      /\ S # {} => m \in S
      /\ S = {} => m = -1
  BY <1>2, <1>3, MaxScoreIs
<1> HIDE DEF m
<1>5. CASE m > update[p].best
  <2>1. S # {}
    <3>1. update[p].best \in Nat \cup {-1}
      BY <1>1 DEF Update
    <3> QED BY <1>4, <1>5, <3>1
  <2>2. v \in TopCandidates(p)
    BY <1>5 DEF Winners, m, S
  <2>3. PICK c \in update[p].scored : v = c.value /\ c.score = m
    BY <2>2 DEF TopCandidates, m, S
  <2> QED BY <1>5, <2>3
<1>6. CASE ~(m > update[p].best)
  BY <1>6 DEF Winners, m, S
<1> QED BY <1>5, <1>6

-----------------------------------------------------------------------------
(* Every step keeps the invariant *)

\* An update goes on.
Works(p) ==
  \/ UpdateBegins(p) \/ UpdateFails(p) \/ Propose(p) \/ Evaluate(p) \/ Decide(p)
  \/ (\E C \in SUBSET Value : Sample(p, C))
  \/ ScoreCurrent(p) \/ (\E v \in Value : ScoreCandidate(p, v)) \/ WriteWinner(p)

LEMMA WorksMoves ==
  ASSUME SearchTypeOK, NEW p \in Param, Works(p)
  PROVE  /\ Moves(p)
         /\ update'[p].at = "evaluate" => update'[p].cand \in Value
         /\ IsFiniteSet(update[p].scored) => IsFiniteSet(update'[p].scored)
<1>1. CASE UpdateBegins(p)
  BY <1>1, BeginMoves
<1>2. CASE UpdateFails(p)
  BY <1>2, FailMoves, NoUpdateIs
<1>3. CASE Propose(p)
  BY <1>3, ProposeMoves
<1>4. CASE Evaluate(p)
  BY <1>4, EvaluateMoves
<1>9. CASE Decide(p)
  BY <1>9, DecideMoves
<1>5. ASSUME NEW C \in SUBSET Value, Sample(p, C)
      PROVE  Moves(p) /\ update'[p].at # "evaluate" /\ (IsFiniteSet(update[p].scored) => IsFiniteSet(update'[p].scored))
  BY <1>5, CandidateMoves, NoUpdateIs
<1>6. CASE ScoreCurrent(p)
  BY <1>6, CandidateMoves
<1>7. ASSUME NEW v \in Value, ScoreCandidate(p, v)
      PROVE  Moves(p) /\ update'[p].at # "evaluate" /\ (IsFiniteSet(update[p].scored) => IsFiniteSet(update'[p].scored))
  <2>1. /\ Moves(p) /\ update'[p].at = "score"
        /\ update'[p].scored = update[p].scored \cup {[value |-> v, score |-> Score(p, v)]}
    BY <1>7, CandidateMoves
  <2> QED BY <2>1, FS_AddElement
<1>8. CASE WriteWinner(p)
  BY <1>8, WriteMoves, NoUpdateIs
<1> QED BY <1>1, <1>2, <1>3, <1>4, <1>5, <1>6, <1>7, <1>8, <1>9 DEF Works

\* What no update changes, and what only some do.
LEMMA WorksFrame ==
  ASSUME NEW p \in Param, Works(p)
  PROVE  /\ UNCHANGED <<method, landscape, width, inStep, taken, run, depth>>
         /\ Evaluate(p) \/ UNCHANGED <<recent, seen>>
         /\ Decide(p) \/ WriteWinner(p) \/ UNCHANGED value
         /\ UpdateFails(p) \/ UNCHANGED dropped
         /\ Evaluate(p) \/ Decide(p) => method = "opro"
         /\ WriteWinner(p) => method = "ape"
<1> USE DEF fixed
<1>1. CASE UpdateBegins(p) \/ Propose(p) \/ ScoreCurrent(p)
  BY <1>1 DEF UpdateBegins, Propose, ScoreCurrent, Evaluate, Decide, WriteWinner
<1>2. CASE Evaluate(p) \/ Decide(p)
  BY <1>2 DEF Evaluate, Decide, WriteWinner
<1>3. CASE (\E C \in SUBSET Value : Sample(p, C)) \/ (\E v \in Value : ScoreCandidate(p, v))
  BY <1>3 DEF Sample, ScoreCandidate, Evaluate, Decide, WriteWinner
<1>4. CASE WriteWinner(p)
  BY <1>4 DEF WriteWinner, Evaluate, Decide
<1>5. CASE UpdateFails(p)
  BY <1>5 DEF UpdateFails, Evaluate, Decide, WriteWinner
<1> QED BY <1>1, <1>2, <1>3, <1>4, <1>5 DEF Works

LEMMA EvaluateFiles ==
  ASSUME SearchTypeOK, HistoriesSound, NEW p \in Param, Evaluate(p)
  PROVE  LET v == update[p].cand
             e == [value |-> v, score |-> Score(p, v)]
         IN  /\ v \in Value /\ e \in Scored
             /\ recent' \in [Param -> Seq(Scored)] /\ seen' \in [Param -> Seq(Scored)]
             /\ recent'[p] = Truncated(Append(recent[p], e)) /\ seen'[p] = Append(seen[p], e)
             /\ \A q \in Param : q # p => recent'[q] = recent[q] /\ seen'[q] = seen[q]
<1> DEFINE v == update[p].cand
           e == [value |-> v, score |-> Score(p, v)]
           t == Truncated(Append(recent[p], e))
           b == Append(seen[p], e)
<1>1. v \in Value /\ method = "opro"
  BY DEF Evaluate, SearchTypeOK
<1>2. e \in Scored
  BY <1>1, ScoreIs
<1>3. recent \in [Param -> Seq(Scored)] /\ seen \in [Param -> Seq(Scored)]
  BY DEF SearchTypeOK
<1>4. recent' = [recent EXCEPT ![p] = t] /\ seen' = [seen EXCEPT ![p] = b]
  BY DEF Evaluate
<1> HIDE DEF v, e, t
<1>5. t \in Seq(Scored)
  <2>1. IsWindow(recent[p], seen[p]) /\ recent[p] \in Seq(Scored) /\ seen[p] \in Seq(Scored)
    BY <1>1, <1>3 DEF HistoriesSound, HistoryOK
  <2>2. HistoryK \in Nat \ {0}
    BY ValueSearchAssumption
  <2> QED BY <1>2, <2>1, <2>2, WindowGoesOn DEF t
<1>6. b \in Seq(Scored)
  BY <1>2, <1>3
<1> HIDE DEF b
<1>7. recent' \in [Param -> Seq(Scored)] /\ seen' \in [Param -> Seq(Scored)]
  BY <1>3, <1>4, <1>5, <1>6
<1>8. /\ recent'[p] = t /\ seen'[p] = b
      /\ \A q \in Param : q # p => recent'[q] = recent[q] /\ seen'[q] = seen[q]
  BY <1>3, <1>4
<1> QED BY <1>1, <1>2, <1>7, <1>8 DEF t, b, e, v

LEMMA PendingIs ==
  ASSUME SearchTypeOK, NEW p \in Param
  PROVE  Pending(p) = Waiting(update[p], seen[p]) /\ Pending(p) \in SUBSET Nat
<1>1. seen[p] \in Seq(Scored)
  BY DEF SearchTypeOK
<1>2. Len(seen[p]) \in Nat
  BY <1>1
<1> QED BY <1>2 DEF Pending, Waiting

LEMMA SearchTypes ==
  ASSUME SearchInv, [SearchNext]_searchvars
  PROVE  SearchTypeOK'
<1> USE DEF SearchTypeOK
<1>0. SearchTypeOK /\ HistoriesSound /\ CandidatesSound
  BY DEF SearchInv
<1>1. ASSUME NEW p \in Param, Works(p) PROVE SearchTypeOK'
  <2>1. /\ update' \in [Param -> Update] /\ \A q \in Param : q # p => update'[q] = update[q]
        /\ update'[p].at = "evaluate" => update'[p].cand \in Value
    BY <1>0, <1>1, WorksMoves DEF Moves
  <2>2. UNCHANGED <<method, landscape, width, inStep, taken, run, depth>>
    BY <1>1, WorksFrame
  <2>3. recent' \in [Param -> Seq(Scored)] /\ seen' \in [Param -> Seq(Scored)] /\ value' \in [Param -> Value]
    <3>1. recent' \in [Param -> Seq(Scored)] /\ seen' \in [Param -> Seq(Scored)]
      BY <1>0, <1>1, EvaluateFiles, WorksFrame
    <3>2. CASE WriteWinner(p)
      <4>1. PICK v \in Winners(p) : value' = [value EXCEPT ![p] = v]
        BY <3>2 DEF WriteWinner
      <4>2. IsFiniteSet(update[p].scored)
        BY <1>0, <3>2 DEF CandidatesSound, WriteWinner
      <4>3. v \in Value
        <5>1. update[p].scored \subseteq Scored
          BY <1>0 DEF Update
        <5>2. value[p] \in Value
          BY <1>0
        <5>3. v = value[p] \/ \E c \in update[p].scored : v = c.value /\ c.score > update[p].best
          BY <1>0, <4>2, WinnerIs
        <5> QED BY <5>1, <5>2, <5>3 DEF Scored
      <4> QED BY <1>0, <3>1, <4>1, <4>3
    <3>3. CASE Decide(p)
      <4>1. update[p].cand \in Value \cup {NoValue}
        BY <1>0 DEF Update
      <4>2. value' = value \/ (update[p].cand \in Value /\ value' = [value EXCEPT ![p] = update[p].cand])
        BY <3>3, <4>1 DEF Decide
      <4> QED BY <1>0, <3>1, <4>2
    <3> QED BY <1>0, <1>1, <3>1, <3>2, <3>3, WorksFrame
  <2>5. dropped' \in [Param -> SUBSET Nat]
    <3>1. CASE UpdateFails(p)
      <4>1. dropped' = [dropped EXCEPT ![p] = dropped[p] \cup Pending(p)]
        BY <3>1 DEF UpdateFails
      <4>2. Pending(p) \in SUBSET Nat
        BY <1>0, PendingIs
      <4> QED BY <1>0, <4>1, <4>2
    <3> QED BY <1>0, <1>1, <3>1, WorksFrame
  <2>4. \A q \in Param : update'[q].at = "evaluate" => update'[q].cand \in Value
    BY <1>0, <2>1
  <2> QED BY <1>0, <2>1, <2>2, <2>3, <2>4, <2>5
<1>2. ASSUME NEW P \in SUBSET Param, SearchStep(P) PROVE SearchTypeOK'
  <2>1. [NoUpdate EXCEPT !.at = "queued"] \in Update /\ [NoUpdate EXCEPT !.at = "queued"].at = "queued"
    BY NoUpdateIs DEF Update
  <2>2. \A q \in Param : update'[q] \in Update /\ update'[q].at # "evaluate"
    BY <1>2, <2>1, NoUpdateIs DEF SearchStep
  <2>3. update' \in [Param -> Update]
    BY <1>2, <2>1, NoUpdateIs DEF SearchStep
  <2>4. /\ UNCHANGED <<method, landscape, width, value, recent, seen, dropped, depth>> /\ inStep' = TRUE
        /\ taken' = taken + 1 /\ run' = IF method = "opro" THEN "open" ELSE run
    BY <1>2 DEF SearchStep, fixed
  <2>5. taken' \in Nat /\ run' \in {"none", "open", "closed"}
    BY <1>0, <2>4
  <2> QED BY <1>0, <2>2, <2>3, <2>4, <2>5
<1>3. CASE SearchStepEnds
  <2>1. update' \in [Param -> Update]
    BY <1>0, <1>3, NoUpdateIs DEF SearchStepEnds
  <2>2. \A q \in Param : update'[q] = NoUpdate \/ update'[q] = update[q]
    BY <1>3 DEF SearchStepEnds
  <2>3. \A q \in Param : update'[q].at = "evaluate" => update'[q].cand \in Value
    BY <1>0, <2>2, NoUpdateIs
  <2> QED BY <1>0, <1>3, <2>1, <2>3 DEF SearchStepEnds, fixed
<1>4. CASE SearchStepCancelled
  <2>1. \A q \in Param : update'[q] = NoUpdate
    BY <1>4 DEF SearchStepCancelled
  <2>2. update' \in [Param -> Update] /\ \A q \in Param : update'[q].at # "evaluate"
    BY <1>4, <2>1, NoUpdateIs DEF SearchStepCancelled
  <2>3. dropped' \in [Param -> SUBSET Nat]
    <3>1. \A q \in Param : dropped[q] \cup Pending(q) \in SUBSET Nat
      BY <1>0, PendingIs
    <3> QED BY <1>4, <3>1 DEF SearchStepCancelled
  <2> QED BY <1>0, <1>4, <2>2, <2>3 DEF SearchStepCancelled, fixed
<1>5. CASE EnterSession \/ (\E c \in BOOLEAN : ExitSession(c))
  BY <1>0, <1>5 DEF EnterSession, ExitSession, ClosedBySession, fixed
<1>6. CASE UNCHANGED searchvars
  BY <1>0, <1>6 DEF searchvars
<1> QED BY <1>1, <1>2, <1>3, <1>4, <1>5, <1>6 DEF SearchNext, Works

LEMMA SearchWithin ==
  ASSUME SearchInv, [SearchNext]_searchvars
  PROVE  UpdatesWithinStep'
<1> DEFINE U == {p \in Param : Updating(p)}
<1>0. /\ SearchTypeOK /\ update \in [Param -> Update] /\ width \in Nat \ {0}
      /\ (~inStep => \A p \in Param : update[p].at = "idle") /\ Cardinality(U) <= width
      /\ method = "opro" /\ inStep => run = "open"
  BY ValueSearchAssumption DEF SearchInv, SearchTypeOK, UpdatesWithinStep
<1>1. IsFiniteSet(U) /\ Cardinality(U) \in Nat
  <2>1. IsFiniteSet(Param) /\ U \in SUBSET Param
    BY ValueSearchAssumption
  <2>2. IsFiniteSet(U)
    BY <2>1, FS_Subset
  <2> QED BY <2>2, FS_CardinalityType
<1>2. ASSUME U' \subseteq U PROVE Cardinality(U') <= width
  <2>1. U' \in SUBSET U
    BY <1>2
  <2> HIDE DEF U
  <2>2. Cardinality(U') <= Cardinality(U) /\ Cardinality(U') \in Nat
    BY <1>1, <2>1, FS_Subset, FS_CardinalityType
  <2> QED BY <1>0, <1>1, <2>2
<1>3. ASSUME NEW p \in Param, Works(p) PROVE UpdatesWithinStep'
  <2>1. Moves(p) /\ UNCHANGED <<method, landscape, width, inStep, taken, run, depth>>
    BY <1>0, <1>3, WorksMoves, WorksFrame
  <2>2. update[p].at # "idle"
    BY <1>3 DEF Works, UpdateBegins, UpdateFails, Updating, Propose, Evaluate, Decide, Sample, ScoreCurrent, ScoreCandidate, WriteWinner
  <2>3. inStep
    BY <1>0, <2>2
  <2>4. Cardinality(U') <= width
    <3>1. CASE UpdateBegins(p)
      <4>1. Cardinality(U) < width
        BY <3>1 DEF UpdateBegins
      <4>2. U' \in SUBSET (U \cup {p})
        BY <2>1 DEF Moves, Updating
      <4> HIDE DEF U
      <4>3. IsFiniteSet(U \cup {p}) /\ Cardinality(U \cup {p}) <= Cardinality(U) + 1 /\ Cardinality(U \cup {p}) \in Nat
        <5>1. /\ IsFiniteSet(U \cup {p})
              /\ Cardinality(U \cup {p}) = IF p \in U THEN Cardinality(U) ELSE Cardinality(U) + 1
          BY <1>1, FS_AddElement
        <5>2. Cardinality(U \cup {p}) \in Nat
          BY <5>1, FS_CardinalityType
        <5>3. Cardinality(U) <= Cardinality(U) + 1 /\ Cardinality(U) + 1 <= Cardinality(U) + 1
          BY <1>1
        <5> QED BY <5>1, <5>2, <5>3
      <4>4. Cardinality(U') <= Cardinality(U \cup {p}) /\ Cardinality(U') \in Nat
        BY <4>2, <4>3, FS_Subset, FS_CardinalityType
      <4> QED BY <1>0, <1>1, <4>1, <4>3, <4>4
    <3>2. CASE ~UpdateBegins(p)
      <4>1. Updating(p)
        BY <1>3, <3>2 DEF Works, UpdateFails, Updating, Propose, Evaluate, Decide, Sample, ScoreCurrent, ScoreCandidate, WriteWinner
      <4>2. U' \subseteq U
        BY <2>1, <4>1 DEF Moves, Updating
      <4> QED BY <4>2, <1>2
    <3> QED BY <3>1, <3>2
  <2> QED BY <1>0, <2>1, <2>3, <2>4 DEF UpdatesWithinStep
<1>4. ASSUME NEW P \in SUBSET Param, SearchStep(P) PROVE UpdatesWithinStep'
  <2>1. \A q \in Param : update'[q].at \in {"idle", "queued"}
    BY <1>4, NoUpdateIs DEF SearchStep, NoUpdate
  <2>2. U' \subseteq U
    BY <2>1 DEF Updating
  <2>3. Cardinality(U') <= width
    BY <2>2, <1>2
  <2> QED BY <2>3, <1>4 DEF SearchStep, UpdatesWithinStep, fixed
<1>5. ASSUME \A q \in Param : update'[q].at = "idle" PROVE Cardinality(U') <= width
  <2>1. U' \subseteq U
    BY <1>5 DEF Updating
  <2> QED BY <2>1, <1>2
<1>6. CASE SearchStepEnds
  <2>1. \A q \in Param : update'[q].at = "idle"
    BY <1>6, NoUpdateIs DEF SearchStepEnds, AllOver, Failures
  <2> QED BY <2>1, <1>5, <1>6 DEF SearchStepEnds, UpdatesWithinStep, fixed
<1>7. CASE SearchStepCancelled
  <2>1. \A q \in Param : update'[q].at = "idle"
    BY <1>7, NoUpdateIs DEF SearchStepCancelled
  <2> QED BY <2>1, <1>5, <1>7 DEF SearchStepCancelled, UpdatesWithinStep, fixed
<1>8. CASE UNCHANGED <<update, width, method, inStep>> /\ (run' = run \/ ~inStep)
  <2>1. U' = U
    BY <1>8 DEF Updating
  <2> QED BY <1>0, <1>8, <2>1 DEF UpdatesWithinStep
<1>9. CASE EnterSession \/ (\E c \in BOOLEAN : ExitSession(c)) \/ UNCHANGED searchvars
  BY <1>8, <1>9 DEF EnterSession, ExitSession, fixed, searchvars
<1> QED BY <1>3, <1>4, <1>6, <1>7, <1>9 DEF SearchNext, Works

\* An update that ends leaves what it has not written among the dropped.
LEMMA LetGo ==
  ASSUME NEW s \in Seq(Scored), NEW r, NEW u, NEW w, NEW d, NEW v, HistoryOK(r, s, u, d, v),
         w.at \notin {"propose", "evaluate", "tell"}
  PROVE  HistoryOK(r, s, w, d \cup Waiting(u, s), v)
<1>1. d \cup Waiting(u, s) \subseteq 1 .. Len(s)
  BY DEF HistoryOK, BeatsWindow, Waiting
<1>2. Waiting(w, s) = {} /\ (d \cup Waiting(u, s)) \cup {} = d \cup Waiting(u, s)
  BY DEF Waiting
<1>3. KnowsBest(w, r, s) /\ BeatsWindow(w, s, d \cup Waiting(u, s))
  BY DEF KnowsBest, BeatsWindow
<1>4. LastRecord(v, s, (d \cup Waiting(u, s)) \cup Waiting(w, s))
  BY <1>2 DEF HistoryOK
<1> QED BY <1>1, <1>3, <1>4 DEF HistoryOK

\* An update that has nothing to write, before or after, keeps what was told of its history.
LEMMA GoesOn ==
  ASSUME NEW s, NEW r, NEW u, NEW w, NEW d, NEW v, HistoryOK(r, s, u, d, v), KnowsBest(w, r, s),
         u.at # "tell" \/ u.cand = NoValue, w.at # "tell"
  PROVE  HistoryOK(r, s, w, d, v)
<1>1. Waiting(u, s) = {} /\ Waiting(w, s) = {}
  BY DEF Waiting
<1>2. BeatsWindow(w, s, d)
  BY DEF BeatsWindow
<1> QED BY <1>1, <1>2 DEF HistoryOK

\* A candidate is scored and filed.
LEMMA CandidateFiled ==
  ASSUME NEW s \in Seq(Scored), NEW r \in Seq(Scored), NEW u \in Update, NEW w \in Update, NEW d, NEW v,
         NEW e \in Scored, HistoryOK(r, s, u, d, v), u.at = "evaluate", w.at = "tell", w.best = u.best,
         w.cand = IF e.score > u.best THEN e.value ELSE NoValue
  PROVE  HistoryOK(Truncated(Append(r, e)), Append(s, e), w, d, v)
<1> DEFINE b == Append(s, e)   n == Len(s) + 1   t == Truncated(Append(r, e))
<1>0. HistoryK \in Nat \ {0} /\ NoValue \notin Value
  BY ValueSearchAssumption
<1>1. /\ Len(b) = n /\ b[n] = e /\ Len(s) \in Nat /\ \A i \in 1 .. Len(s) : b[i] = s[i]
  OBVIOUS
<1>2. /\ IsWindow(r, s) /\ KnowsBest(u, r, s) /\ d \in SUBSET (1 .. Len(s)) /\ LastRecord(v, s, d)
  <2>1. Waiting(u, s) = {} /\ d \cup {} = d
    BY DEF Waiting
  <2> QED BY <2>1 DEF HistoryOK
<1>3. IsWindow(t, b)
  BY <1>0, <1>2, WindowGoesOn
<1>4. d \subseteq 1 .. n /\ n \notin d /\ n \in 1 .. n
  BY <1>1, <1>2
<1>5. LastRecord(v, b, d \cup {n}) /\ (~(e.score > u.best) => LastRecord(v, b, d))
  BY <1>0, <1>2, LastRecordGoesOn
<1>6. e.value \in Value /\ e.score \in Nat /\ u.best \in Nat \cup {-1}
  BY DEF Scored, Update
<1>7. CASE e.score > u.best
  <2>1. w.cand = e.value /\ w.cand # NoValue
    BY <1>0, <1>6, <1>7
  <2>2. ASSUME NEW k \in 1 .. n, n - HistoryK <= k, k < n PROVE b[k].score < b[n].score
    <3>1. k \in 1 .. Len(s) /\ k > Len(s) - HistoryK
      BY <1>0, <1>1, <2>2
    <3>2. s[k].score < e.score
      BY <1>0, <1>2, <1>7, <3>1, RecordBeats
    <3> HIDE DEF b, n
    <3> QED BY <1>1, <3>1, <3>2
  <2> HIDE DEF b, n, t
  <2>3. BeatsWindow(w, b, d)
    BY <1>1, <1>4, <2>1, <2>2 DEF BeatsWindow
  <2>4. Waiting(w, b) = {n}
    BY <1>1, <2>1 DEF Waiting
  <2>5. KnowsBest(w, t, b)
    BY <2>1 DEF KnowsBest
  <2>6. HistoryOK(t, b, w, d, v)
    BY <1>1, <1>3, <1>4, <1>5, <2>3, <2>4, <2>5 DEF HistoryOK
  <2> QED BY <2>6 DEF t, b
<1>8. CASE ~(e.score > u.best)
  <2>1. w.cand = NoValue /\ e.score <= u.best
    BY <1>6, <1>8
  <2>2. KnowsBest(w, t, b)
    BY <1>0, <1>2, <2>1, KnowsBestGoesOn
  <2> HIDE DEF b, n, t
  <2>3. BeatsWindow(w, b, d) /\ Waiting(w, b) = {} /\ d \cup {} = d
    BY <2>1 DEF BeatsWindow, Waiting
  <2>4. HistoryOK(t, b, w, d, v)
    BY <1>1, <1>3, <1>4, <1>5, <1>8, <2>2, <2>3 DEF HistoryOK
  <2> QED BY <2>4 DEF t, b
<1> QED BY <1>7, <1>8

\* What waited is written.
LEMMA RecordIsWritten ==
  ASSUME NEW s \in Seq(Scored), NEW r, NEW u \in Update, NEW w, NEW d, NEW v,
         HistoryOK(r, s, u, d, v), u.at = "tell", u.cand # NoValue, w.at \notin {"propose", "evaluate", "tell"}
  PROVE  HistoryOK(r, s, w, d, u.cand)
<1>1. LastRecord(u.cand, s, d)
  BY RecordWritten, ValueSearchAssumption DEF HistoryOK
<1>2. Waiting(w, s) = {} /\ d \cup {} = d
  BY DEF Waiting
<1>3. KnowsBest(w, r, s) /\ BeatsWindow(w, s, d)
  BY DEF KnowsBest, BeatsWindow
<1> QED BY <1>1, <1>2, <1>3 DEF HistoryOK

LEMMA SearchHistories ==
  ASSUME SearchInv, [SearchNext]_searchvars
  PROVE  HistoriesSound'
<1> DEFINE OK(q) == HistoryOK(recent[q], seen[q], update[q], dropped[q], value[q])
<1>0. /\ SearchTypeOK /\ HistoriesSound
      /\ recent \in [Param -> Seq(Scored)] /\ seen \in [Param -> Seq(Scored)]
      /\ update \in [Param -> Update] /\ value \in [Param -> Value] /\ dropped \in [Param -> SUBSET Nat]
  BY DEF SearchInv, SearchTypeOK
<1>1. ASSUME UNCHANGED <<method, recent, seen, value>>,
             \A q \in Param : /\ update'[q].at \notin {"propose", "evaluate", "tell"}
                             /\ dropped'[q] = dropped[q] \cup Pending(q)
      PROVE  HistoriesSound'
  <2>1. ASSUME method = "opro", NEW q \in Param PROVE OK(q)'
    <3>1. OK(q) /\ seen[q] \in Seq(Scored)
      BY <1>0, <2>1 DEF HistoriesSound
    <3>2. dropped'[q] = dropped[q] \cup Waiting(update[q], seen[q])
      BY <1>0, <1>1, PendingIs
    <3>3. HistoryOK(recent[q], seen[q], update'[q], dropped[q] \cup Waiting(update[q], seen[q]), value[q])
      BY <1>1, <3>1, LetGo
    <3> QED BY <1>1, <3>2, <3>3
  <2> QED BY <1>1, <2>1 DEF HistoriesSound
<1>2. ASSUME NEW p \in Param, Works(p) PROVE HistoriesSound'
  <2>1. Moves(p) /\ method' = method
    BY <1>0, <1>2, WorksMoves, WorksFrame
  <2>2. SUFFICES ASSUME method = "opro" PROVE \A q \in Param : OK(q)'
    BY <2>1 DEF HistoriesSound
  <2>3. ASSUME NEW q \in Param, q # p PROVE OK(q)'
    <3>1. update'[q] = update[q]
      BY <2>1, <2>3 DEF Moves
    <3>2. recent'[q] = recent[q] /\ seen'[q] = seen[q]
      BY <1>0, <1>2, <2>3, EvaluateFiles, WorksFrame
    <3>3. dropped'[q] = dropped[q]
      <4>1. UpdateFails(p) => dropped' = [dropped EXCEPT ![p] = dropped[p] \cup Pending(p)]
        BY DEF UpdateFails
      <4> QED BY <1>0, <1>2, <2>3, <4>1, WorksFrame
    <3>4. value'[q] = value[q]
      <4>1. Decide(p) => value' = IF update[p].cand # NoValue THEN [value EXCEPT ![p] = update[p].cand] ELSE value
        BY DEF Decide
      <4> QED BY <1>0, <1>2, <2>2, <2>3, <4>1, WorksFrame
    <3> QED BY <1>0, <2>2, <3>1, <3>2, <3>3, <3>4 DEF HistoriesSound
  <2>4. /\ OK(p) /\ IsWindow(recent[p], seen[p]) /\ KnowsBest(update[p], recent[p], seen[p])
        /\ recent[p] \in Seq(Scored) /\ seen[p] \in Seq(Scored) /\ update[p] \in Update /\ HistoryK \in Nat \ {0}
    BY <1>0, <2>2, ValueSearchAssumption DEF HistoriesSound, HistoryOK
  <2>5. CASE Evaluate(p)
    <3> DEFINE v == update[p].cand
               e == [value |-> v, score |-> Score(p, v)]
    <3>1. /\ v \in Value /\ e \in Scored /\ e.score = Score(p, v) /\ e.value = v
          /\ recent'[p] = Truncated(Append(recent[p], e)) /\ seen'[p] = Append(seen[p], e)
      BY <1>0, <2>5, EvaluateFiles
    <3>2. /\ update[p].at = "evaluate" /\ value' = value /\ dropped' = dropped
      BY <2>5 DEF Evaluate, fixed
    <3>3. /\ update'[p].at = "tell" /\ update'[p].best = update[p].best /\ update'[p] \in Update
          /\ update'[p].cand = IF e.score > update[p].best THEN e.value ELSE NoValue
      BY <1>0, <2>1, <2>5, <3>1, EvaluateMoves DEF Moves, IsRecord
    <3> HIDE DEF e, v
    <3>4. HistoryOK(recent'[p], seen'[p], update'[p], dropped[p], value[p])
      BY <2>4, <3>1, <3>2, <3>3, CandidateFiled
    <3> QED BY <2>3, <3>2, <3>4
  <2>6. CASE UpdateFails(p)
    <3>1. update'[p].at \notin {"propose", "evaluate", "tell"}
      BY <1>0, <2>6, FailMoves
    <3>2. dropped'[p] = dropped[p] \cup Waiting(update[p], seen[p])
      BY <1>0, <2>6, PendingIs DEF UpdateFails
    <3>3. UNCHANGED <<recent, seen, value>>
      BY <2>6 DEF UpdateFails
    <3>4. HistoryOK(recent[p], seen[p], update'[p], dropped[p] \cup Waiting(update[p], seen[p]), value[p])
      BY <2>4, <3>1, LetGo
    <3> QED BY <2>3, <3>2, <3>3, <3>4
  <2>7. CASE Decide(p)
    <3>1. /\ update'[p].at \in {"idle", "propose"} /\ update[p].at = "tell"
          /\ update'[p].at = "propose" => update'[p].best = update[p].best /\ update[p].cand = NoValue
      BY <1>0, <2>7, DecideMoves DEF Decide
    <3>2. /\ UNCHANGED <<recent, seen, dropped>>
          /\ value'[p] = IF update[p].cand # NoValue THEN update[p].cand ELSE value[p]
      BY <1>0, <2>7 DEF Decide
    <3>3. CASE update[p].cand # NoValue
      <4>1. update'[p].at \notin {"propose", "evaluate", "tell"}
        BY <3>1, <3>3
      <4>2. HistoryOK(recent[p], seen[p], update'[p], dropped[p], update[p].cand)
        BY <2>4, <3>1, <3>3, <4>1, RecordIsWritten
      <4> QED BY <2>3, <3>2, <3>3, <4>2
    <3>4. CASE update[p].cand = NoValue
      <4>1. KnowsBest(update'[p], recent[p], seen[p])
        BY <2>4, <3>1, <3>4 DEF KnowsBest
      <4>2. HistoryOK(recent[p], seen[p], update'[p], dropped[p], value[p])
        BY <2>4, <3>1, <3>4, <4>1, GoesOn
      <4> QED BY <2>3, <3>2, <3>4, <4>2
    <3> QED BY <3>3, <3>4
  <2>8. CASE UpdateBegins(p) \/ Propose(p)
    <3>1. UNCHANGED <<recent, seen, value, dropped>> /\ update[p].at # "tell"
      BY <2>8 DEF UpdateBegins, Propose
    <3>2. KnowsBest(update'[p], recent[p], seen[p]) /\ update'[p].at # "tell"
      <4>1. CASE UpdateBegins(p)
        <5>1. update'[p].best = MaxScore(ScoresOf(recent[p])) /\ update'[p].at = "propose"
          BY <1>0, <4>1, BeginMoves
        <5> QED BY <2>4, <5>1, BestOfHistory DEF KnowsBest
      <4>2. CASE Propose(p)
        <5>1. /\ update'[p].at \in {"idle", "propose", "evaluate"}
              /\ update'[p].at # "idle" => update'[p].best = update[p].best
              /\ update[p].at = "propose"
          BY <1>0, <4>2, ProposeMoves DEF Propose
        <5> QED BY <2>4, <5>1 DEF KnowsBest
      <4> QED BY <2>8, <4>1, <4>2
    <3>3. HistoryOK(recent[p], seen[p], update'[p], dropped[p], value[p])
      BY <2>4, <3>1, <3>2, GoesOn
    <3> QED BY <2>3, <3>1, <3>3
  <2> QED BY <1>2, <2>2, <2>5, <2>6, <2>7, <2>8 DEF Works, Sample, ScoreCurrent, ScoreCandidate, WriteWinner
<1>3. ASSUME \A q \in Param : update[q].at # "tell" PROVE \A q \in Param : dropped[q] = dropped[q] \cup Pending(q)
  BY <1>3 DEF Pending
<1>4. ASSUME NEW P \in SUBSET Param, SearchStep(P) PROVE HistoriesSound'
  <2>1. \A q \in Param : update'[q].at \in {"idle", "queued"}
    BY <1>4, NoUpdateIs DEF SearchStep, NoUpdate
  <2>2. \A q \in Param : update[q].at # "tell"
    BY <1>4 DEF SearchStep, SearchInv, UpdatesWithinStep
  <2> QED BY <2>1, <2>2, <1>1, <1>3, <1>4 DEF SearchStep, fixed
<1>5. CASE SearchStepEnds
  <2>1. \A q \in Param : update'[q] = NoUpdate \/ update'[q] = update[q]
    BY <1>5 DEF SearchStepEnds
  <2>2. \A q \in Param : update[q].at \in {"idle", "failed"}
    BY <1>5 DEF SearchStepEnds, AllOver
  <2>3. UNCHANGED <<method, recent, seen, value, dropped>>
    BY <1>5 DEF SearchStepEnds, fixed
  <2>4. \A q \in Param : update'[q].at \notin {"propose", "evaluate", "tell"}
    BY <2>1, <2>2, NoUpdateIs
  <2> QED BY <2>2, <2>3, <2>4, <1>1, <1>3
<1>6. CASE SearchStepCancelled
  <2>1. \A q \in Param : update'[q] = NoUpdate /\ dropped'[q] = dropped[q] \cup Pending(q)
    BY <1>6 DEF SearchStepCancelled
  <2>2. UNCHANGED <<method, recent, seen, value>>
    BY <1>6 DEF SearchStepCancelled, fixed
  <2> QED BY <2>1, <2>2, <1>1, NoUpdateIs
<1>7. CASE EnterSession \/ (\E c \in BOOLEAN : ExitSession(c)) \/ UNCHANGED searchvars
  <2>1. UNCHANGED <<method, recent, seen, value, update, dropped>>
    BY <1>7 DEF EnterSession, ExitSession, fixed, searchvars
  <2> QED BY <1>0, <2>1 DEF HistoriesSound
<1> QED BY <1>2, <1>4, <1>5, <1>6, <1>7 DEF SearchNext, Works

\* While no other update runs, the values are those the scores of this one were taken at.
LEMMA OneUpdating ==
  ASSUME SearchInv, width = 1, NEW p \in Param, NEW q \in Param, Updating(p), Updating(q)
  PROVE  p = q
<1> DEFINE U == {r \in Param : Updating(r)}
<1>1. IsFiniteSet(U) /\ Cardinality(U) <= 1
  <2>1. IsFiniteSet(Param) /\ U \in SUBSET Param
    BY ValueSearchAssumption
  <2>2. IsFiniteSet(U)
    BY <2>1, FS_Subset
  <2> QED BY <2>2 DEF SearchInv, UpdatesWithinStep
<1>2. p \in U /\ q \in U
  OBVIOUS
<1> HIDE DEF U
<1>3. IsFiniteSet(U \ {p}) /\ Cardinality(U \ {p}) = Cardinality(U) - 1 /\ Cardinality(U) \in Nat
  BY <1>1, <1>2, FS_RemoveElement, FS_CardinalityType
<1>4. Cardinality(U \ {p}) \in Nat
  BY <1>3, FS_CardinalityType
<1>5. Cardinality(U \ {p}) = 0
  BY <1>1, <1>3, <1>4
<1>6. U \ {p} = {}
  BY <1>3, <1>5, FS_EmptySet
<1> QED BY <1>2, <1>6

LEMMA SearchCandidates ==
  ASSUME SearchInv, [SearchNext]_searchvars
  PROVE  CandidatesSound'
<1>0. SearchTypeOK /\ CandidatesSound /\ update \in [Param -> Update] /\ value \in [Param -> Value]
  BY DEF SearchInv, SearchTypeOK
<1>1. ASSUME UNCHANGED <<method, landscape, width, value>>,
             \A q \in Param : update'[q] = update[q] \/ (update'[q].at # "score" /\ update'[q].scored = {})
      PROVE  CandidatesSound'
  BY <1>0, <1>1, FS_EmptySet DEF CandidatesSound, Score
<1>2. ASSUME NEW p \in Param, Works(p) PROVE CandidatesSound'
  <2>1. /\ Moves(p) /\ UNCHANGED <<method, landscape, width>>
        /\ IsFiniteSet(update[p].scored) => IsFiniteSet(update'[p].scored)
    BY <1>0, <1>2, WorksMoves, WorksFrame
  <2>2. CASE method # "ape"
    BY <2>1, <2>2 DEF CandidatesSound
  <2>3. CASE method = "ape"
    <3>1. \A q \in Param : IsFiniteSet(update'[q].scored)
      BY <1>0, <2>1, <2>3 DEF CandidatesSound, Moves
    <3>2. ASSUME width = 1, NEW q \in Param, update'[q].at = "score"
          PROVE  /\ update'[q].best = landscape[value'] /\ \A c \in update'[q].scored : c.score = landscape[[value' EXCEPT ![q] = c.value]]
      <4>1. CASE WriteWinner(p)
        <5>1. update[p].at = "score" /\ update'[p].at = "idle"
          BY <1>0, <4>1, WriteMoves DEF WriteWinner
        <5>2. q # p /\ update'[q] = update[q]
          BY <3>2, <5>1, <2>1 DEF Moves
        <5>3. Updating(p) /\ Updating(q)
          BY <3>2, <5>1, <5>2 DEF Updating
        <5> QED BY <3>2, <5>2, <5>3, OneUpdating
      <4>2. CASE value' = value
        <5>1. CASE update'[q] = update[q]
          BY <1>0, <2>3, <3>2, <4>2, <5>1 DEF CandidatesSound, Score
        <5>2. CASE q = p /\ ScoreCurrent(p)
          <6>1. /\ update'[p].best = Score(p, value[p]) /\ update'[p].scored = update[p].scored /\ update[p].at = "current"
            BY <1>0, <5>2, CandidateMoves DEF ScoreCurrent
          <6>2. [value EXCEPT ![p] = value[p]] = value
            BY <1>0
          <6>3. update[p].scored = {}
            BY <1>0, <2>3, <6>1 DEF CandidatesSound
          <6> QED BY <4>2, <5>2, <6>1, <6>2, <6>3 DEF Score
        <5>3. ASSUME q = p, NEW v \in Value, ScoreCandidate(p, v)
              PROVE  /\ update'[q].best = landscape[value'] /\ \A c \in update'[q].scored : c.score = landscape[[value' EXCEPT ![q] = c.value]]
          <6>1. /\ update'[p].best = update[p].best /\ update[p].at = "score"
                /\ update'[p].scored = update[p].scored \cup {[value |-> v, score |-> Score(p, v)]}
            BY <1>0, <5>3, CandidateMoves
          <6>2. update[p].best = landscape[value] /\ \A c \in update[p].scored : c.score = Score(p, c.value)
            BY <2>3, <3>2, <6>1 DEF SearchInv, CandidatesSound
          <6>3. \A c \in update'[p].scored : c.score = Score(p, c.value)
            BY <6>1, <6>2
          <6> QED BY <4>2, <5>3, <6>1, <6>2, <6>3 DEF Score
        <5>4. q = p /\ update'[q] # update[q] => ScoreCurrent(p) \/ \E v \in Value : ScoreCandidate(p, v)
          <6>1. UpdateBegins(p) => update'[p].at # "score"
            BY <1>0, BeginMoves
          <6>2. UpdateFails(p) => update'[p].at # "score"
            BY <1>0, FailMoves
          <6>3. WriteWinner(p) => update'[p].at # "score"
            BY <1>0, WriteMoves
          <6>4. \A C \in SUBSET Value : Sample(p, C) => update'[p].at # "score"
            BY <1>0, CandidateMoves
          <6>5. ~Propose(p) /\ ~Evaluate(p) /\ ~Decide(p)
            BY <2>3 DEF Propose, Evaluate, Decide
          <6> QED BY <1>2, <3>2, <6>1, <6>2, <6>3, <6>4, <6>5 DEF Works
        <5> QED BY <2>1, <5>1, <5>2, <5>3, <5>4 DEF Moves
      <4>3. ~Decide(p)
        BY <2>3 DEF Decide
      <4> QED BY <1>2, <4>1, <4>2, <4>3, WorksFrame
    <3>3. update'[p].at # "score" => update'[p].scored = {}
      <4>1. update[p].at # "score" => update[p].scored = {}
        BY <1>0, <2>3 DEF CandidatesSound
      <4>2. UpdateBegins(p) => update[p].at # "score" /\ update'[p].scored = update[p].scored
        BY <1>0, BeginMoves DEF UpdateBegins
      <4>3. UpdateFails(p) \/ WriteWinner(p) => update'[p].scored = {}
        BY <1>0, FailMoves, WriteMoves
      <4>4. \A C \in SUBSET Value : Sample(p, C) => update[p].at # "score" /\ update'[p].scored \in {{}, update[p].scored}
        BY <1>0, CandidateMoves DEF Sample
      <4>5. /\ ScoreCurrent(p) => update'[p].at = "score"
            /\ \A v \in Value : ScoreCandidate(p, v) => update'[p].at = "score"
        BY <1>0, CandidateMoves
      <4>6. ~Propose(p) /\ ~Evaluate(p) /\ ~Decide(p)
        BY <2>3 DEF Propose, Evaluate, Decide
      <4> QED BY <1>2, <4>1, <4>2, <4>3, <4>4, <4>5, <4>6 DEF Works
    <3>4. \A q \in Param : update'[q].at # "score" => update'[q].scored = {}
      BY <1>0, <2>1, <2>3, <3>3 DEF CandidatesSound, Moves
    <3> QED BY <2>1, <3>1, <3>2, <3>4 DEF CandidatesSound, Score
  <2> QED BY <2>2, <2>3
<1>3. ASSUME NEW P \in SUBSET Param, SearchStep(P) PROVE CandidatesSound'
  <2>1. \A q \in Param : update'[q].at \in {"idle", "queued"} /\ update'[q].scored = {}
    BY <1>3, NoUpdateIs DEF SearchStep, NoUpdate
  <2> QED BY <2>1, <1>1, <1>3, NoUpdateIs DEF SearchStep, fixed
<1>4. CASE SearchStepEnds \/ SearchStepCancelled
  <2>1. \A q \in Param : update'[q] = NoUpdate \/ update'[q] = update[q]
    BY <1>4 DEF SearchStepEnds, SearchStepCancelled
  <2>2. UNCHANGED <<method, landscape, width, value>>
    BY <1>4 DEF SearchStepEnds, SearchStepCancelled, fixed
  <2> QED BY <2>1, <2>2, <1>1, NoUpdateIs
<1>5. CASE EnterSession \/ (\E c \in BOOLEAN : ExitSession(c)) \/ UNCHANGED searchvars
  BY <1>1, <1>5 DEF EnterSession, ExitSession, fixed, searchvars
<1> QED BY <1>2, <1>3, <1>4, <1>5 DEF SearchNext, Works

LEMMA SearchBegins == SearchInit => SearchInv
<1> SUFFICES ASSUME SearchInit PROVE SearchInv
  OBVIOUS
<1>1. /\ method \in {"opro", "ape"} /\ landscape \in Landscapes /\ width \in Widths /\ value \in [Param -> Value]
      /\ recent = [p \in Param |-> <<>>] /\ seen = [p \in Param |-> <<>>] /\ dropped = [p \in Param |-> {}]
      /\ update = [p \in Param |-> NoUpdate]
      /\ inStep = FALSE /\ taken = 0 /\ run = "none" /\ depth = 0
  BY DEF SearchInit
<1>2. <<>> \in Seq(Scored) /\ Len(<<>>) = 0
  OBVIOUS
<1>3. \A p \in Param : recent[p] = <<>> /\ seen[p] = <<>> /\ update[p] = NoUpdate /\ dropped[p] = {}
  BY <1>1
<1>4. recent \in [Param -> Seq(Scored)] /\ seen \in [Param -> Seq(Scored)] /\ update \in [Param -> Update]
      /\ dropped \in [Param -> SUBSET Nat]
  BY <1>1, <1>2, NoUpdateIs
<1>5. SearchTypeOK
  BY <1>1, <1>3, <1>4, NoUpdateIs DEF SearchTypeOK
<1>6. UpdatesWithinStep
  <2>1. {p \in Param : Updating(p)} = {}
    BY <1>3, NoUpdateIs DEF Updating
  <2>2. Cardinality({p \in Param : Updating(p)}) = 0 /\ width \in Nat
    BY <1>1, <2>1, FS_EmptySet, ValueSearchAssumption
  <2> QED BY <1>1, <1>3, <2>2, NoUpdateIs DEF UpdatesWithinStep
<1>7. HistoriesSound
  <2>1. \A x, u \in {<<>>} : IsWindow(x, u)
    BY <1>2, ValueSearchAssumption DEF IsWindow
  <2>2. KnowsBest(NoUpdate, <<>>, <<>>) /\ BeatsWindow(NoUpdate, <<>>, {}) /\ Waiting(NoUpdate, <<>>) = {}
    BY NoUpdateIs DEF KnowsBest, BeatsWindow, Waiting
  <2>3. \A v : LastRecord(v, <<>>, {} \cup {})
    BY <1>2 DEF LastRecord, Records
  <2>4. \A v : HistoryOK(<<>>, <<>>, NoUpdate, {}, v)
    BY <2>1, <2>2, <2>3 DEF HistoryOK
  <2> QED BY <1>3, <2>4 DEF HistoriesSound
<1>8. CandidatesSound
  BY <1>3, NoUpdateIs DEF CandidatesSound
<1> QED BY <1>5, <1>6, <1>7, <1>8 DEF SearchInv

LEMMA SearchInductive == SearchInv /\ [SearchNext]_searchvars => SearchInv'
  BY SearchTypes, SearchWithin, SearchHistories, SearchCandidates DEF SearchInv

LEMMA SearchInvSound == SearchInv => SearchSound
<1> SUFFICES ASSUME SearchInv PROVE SearchSound
  OBVIOUS
<1>1. HoldsRecord
  <2>1. ASSUME method = "opro", NEW p \in Param
        PROVE  LastRecord(value[p], seen[p], dropped[p] \cup Pending(p))
    BY <2>1, PendingIs DEF SearchInv, HistoriesSound, HistoryOK
  <2> QED BY <2>1 DEF HoldsRecord, Written, LastRecord
<1> QED BY <1>1 DEF SearchInv, SearchSound

-----------------------------------------------------------------------------
(* What a step writes and closes *)

LEMMA RecordBeatsWindow ==
  ASSUME SearchInv, [SearchNext]_searchvars, method = "opro", NEW p \in Param, value'[p] # value[p]
  PROVE  LET h == seen[p]
         IN  /\ h # <<>> /\ value'[p] = Last(h).value
             /\ \A k \in DOMAIN h : Len(h) - HistoryK <= k /\ k < Len(h) => h[k].score < Last(h).score
<1>0. SearchTypeOK /\ HistoriesSound /\ value \in [Param -> Value]
  BY DEF SearchInv, SearchTypeOK
<1>1. PICK q \in Param : Works(q)
  <2>1. value' # value
    OBVIOUS
  <2>2. /\ ~SearchStepEnds /\ ~SearchStepCancelled /\ ~EnterSession /\ (\A P \in SUBSET Param : ~SearchStep(P))
        /\ (\A c \in BOOLEAN : ~ExitSession(c)) /\ searchvars' # searchvars
    BY <2>1 DEF SearchStepEnds, SearchStepCancelled, EnterSession, SearchStep, ExitSession, searchvars
  <2> QED BY <2>2 DEF SearchNext, Works
<1>2. Decide(q)
  BY <1>1, WorksFrame
<1>3. update[q].at = "tell" /\ update[q].cand # NoValue /\ value' = [value EXCEPT ![q] = update[q].cand]
  BY <1>2 DEF Decide
<1>4. q = p /\ value'[p] = update[p].cand
  BY <1>0, <1>3
<1>5. BeatsWindow(update[p], seen[p], dropped[p]) /\ seen[p] \in Seq(Scored)
  BY <1>0 DEF HistoriesSound, HistoryOK, SearchTypeOK
<1> DEFINE h == seen[p]
<1>6. /\ Len(h) \in 1 .. Len(h) /\ value'[p] = h[Len(h)].value
      /\ \A k \in 1 .. Len(h) : Len(h) - HistoryK <= k /\ k < Len(h) => h[k].score < h[Len(h)].score
  BY <1>3, <1>4, <1>5 DEF BeatsWindow
<1>7. DOMAIN h = 1 .. Len(h) /\ Last(h) = h[Len(h)] /\ Len(h) \in Nat
  BY <1>5 DEF Last
<1>8. h # <<>>
  <2>1. Len(<<>>) = 0
    OBVIOUS
  <2> HIDE DEF h
  <2> QED BY <1>6, <1>7, <2>1
<1> HIDE DEF h
<1> QED BY <1>6, <1>7, <1>8 DEF h

LEMMA SerialWrite ==
  ASSUME SearchInv, [SearchNext]_searchvars, method = "ape", width = 1
  PROVE  landscape[value'] >= landscape[value]
<1>0. SearchTypeOK /\ CandidatesSound /\ value \in [Param -> Value] /\ update \in [Param -> Update]
  BY DEF SearchInv, SearchTypeOK
<1>1. landscape[value] \in Nat
  BY <1>0, ValueSearchAssumption DEF SearchTypeOK
<1>2. CASE value' = value
  BY <1>1, <1>2
<1>3. ASSUME NEW p \in Param, WriteWinner(p) PROVE landscape[value'] >= landscape[value]
  <2>1. PICK v \in Winners(p) : value' = [value EXCEPT ![p] = v]
    BY <1>3 DEF WriteWinner
  <2>2. /\ update[p].at = "score" /\ IsFiniteSet(update[p].scored) /\ update[p].best = landscape[value]
        /\ \A c \in update[p].scored : c.score = Score(p, c.value)
    BY <1>0, <1>3 DEF WriteWinner, CandidatesSound
  <2>3. v = value[p] \/ \E c \in update[p].scored : v = c.value /\ c.score > update[p].best
    BY <1>0, <2>2, WinnerIs
  <2>4. CASE v = value[p]
    <3>1. value' = value
      BY <1>0, <2>1, <2>4
    <3> QED BY <3>1, <1>1
  <2>5. CASE \E c \in update[p].scored : v = c.value /\ c.score > update[p].best
    <3>1. PICK c \in update[p].scored : v = c.value /\ c.score > update[p].best
      BY <2>5
    <3>2. c.score = landscape[value']
      BY <2>1, <2>2, <3>1 DEF Score
    <3>3. c.score \in Nat
      <4>1. update[p].scored \subseteq Scored
        BY <1>0 DEF Update
      <4> QED BY <3>1, <4>1 DEF Scored
    <3> QED BY <1>1, <2>2, <3>1, <3>2, <3>3
  <2> QED BY <2>3, <2>4, <2>5
<1>4. ASSUME NEW p \in Param, Works(p), ~WriteWinner(p) PROVE value' = value
  BY <1>4, WorksFrame
<1>5. CASE \/ SearchStepEnds \/ SearchStepCancelled \/ EnterSession \/ (\E P \in SUBSET Param : SearchStep(P))
           \/ (\E c \in BOOLEAN : ExitSession(c)) \/ UNCHANGED searchvars
  BY <1>5, <1>2 DEF SearchStepEnds, SearchStepCancelled, EnterSession, SearchStep, ExitSession, searchvars
<1> QED BY <1>2, <1>3, <1>4, <1>5 DEF SearchNext, Works

LEMMA OutermostCloses ==
  ASSUME SearchInv, [SearchNext]_searchvars, run = "open", run' = "closed"
  PROVE  depth' = 0
<1>1. ASSUME NEW p \in Param, Works(p) PROVE FALSE
  BY <1>1, WorksFrame
<1>2. ASSUME NEW P \in SUBSET Param, SearchStep(P) PROVE FALSE
  BY <1>2 DEF SearchStep
<1>3. CASE SearchStepEnds
  BY <1>3 DEF SearchStepEnds
<1>4. CASE SearchStepCancelled \/ EnterSession \/ UNCHANGED searchvars
  BY <1>4 DEF SearchStepCancelled, EnterSession, searchvars
<1>5. ASSUME NEW c \in BOOLEAN, ExitSession(c) PROVE depth' = 0
  BY <1>5 DEF ExitSession, ClosedBySession
<1> QED BY <1>1, <1>2, <1>3, <1>4, <1>5 DEF SearchNext, Works

\* For any parameters, values, scores and histories, whatever updates overlap, fail or
\* are cancelled: they end within their step, no more than the width run at a time, and
\* with OPRO a parameter holds the newest record that was not lost between its filing and
\* its writing, as long as its history lasts.
THEOREM SearchAlwaysSound == SearchSpec => []SearchSound
<1>1. SearchInit => SearchInv
  BY SearchBegins
<1>2. SearchInv /\ [SearchNext]_searchvars => SearchInv'
  BY SearchInductive
<1>3. SearchInv => SearchSound
  BY SearchInvSound
<1> QED BY <1>1, <1>2, <1>3, PTL DEF SearchSpec

\* OPRO writes only what beats the scores of its history, APE makes no agent worse while
\* its updates do not overlap, and a run ends only with its outermost session.
THEOREM SearchStepsAlwaysSound == SearchSpec => SearchStepsSound
<1>1. SearchInit => SearchInv
  BY SearchBegins
<1>2. SearchInv /\ [SearchNext]_searchvars => SearchInv'
  BY SearchInductive
<1>3. SearchInv /\ [SearchNext]_searchvars =>
        [\A p \in Param : method = "opro" /\ value'[p] # value[p] =>
           LET h == seen[p]
           IN  /\ h # <<>> /\ value'[p] = Last(h).value
               /\ \A k \in DOMAIN h : Len(h) - HistoryK <= k /\ k < Len(h) => h[k].score < Last(h).score]_searchvars
  BY RecordBeatsWindow
<1>4. SearchInv /\ [SearchNext]_searchvars =>
        [method = "ape" /\ width = 1 => landscape[value'] >= landscape[value]]_searchvars
  BY SerialWrite
<1>5. SearchInv /\ [SearchNext]_searchvars => [run = "open" /\ run' = "closed" => depth' = 0]_searchvars
  BY OutermostCloses
<1> QED BY <1>1, <1>2, <1>3, <1>4, <1>5, PTL DEF SearchSpec, SearchStepsSound, WritesBeatWindow, SerialWritesImprove, RunSpansSession

-----------------------------------------------------------------------------
(* Places in an order *)

\* R is a total order of the finite set S, and place counts for each member those
\* that come before it.
Ordered(S, R, ahead, place) ==
  /\ IsFiniteSet(S) /\ place \in [S -> Nat]
  /\ \A x \in S : <<x, x>> \notin R
  /\ \A x, y \in S : x # y => <<x, y>> \in R \/ <<y, x>> \in R
  /\ \A x, y, z \in S : <<x, y>> \in R /\ <<y, z>> \in R => <<x, z>> \in R
  /\ \A x \in S : \A y : y \in ahead[x] <=> y \in S /\ <<y, x>> \in R
  /\ \A x \in S : place[x] = Cardinality(ahead[x]) + 1

\* Each place is taken, and what comes before is placed before.
Placed(S, R, place) ==
  /\ \A x, y \in S : <<x, y>> \in R => place[x] < place[y]
  /\ \A x \in S : place[x] \in 1 .. Cardinality(S)
  /\ \A k \in 1 .. Cardinality(S) : \E x \in S : place[x] = k

\* In a finite total order each place is taken, once.
LEMMA PlacesTaken ==
  ASSUME NEW S, NEW R, NEW ahead, NEW place, Ordered(S, R, ahead, place)
  PROVE  Placed(S, R, place)
<1> SUFFICES ASSUME IsFiniteSet(S), place \in [S -> Nat],
         \A x \in S : <<x, x>> \notin R,
         \A x, y \in S : x # y => <<x, y>> \in R \/ <<y, x>> \in R,
         \A x, y, z \in S : <<x, y>> \in R /\ <<y, z>> \in R => <<x, z>> \in R,
         \A x \in S : \A y : y \in ahead[x] <=> y \in S /\ <<y, x>> \in R,
         \A x \in S : place[x] = Cardinality(ahead[x]) + 1
       PROVE Placed(S, R, place)
  BY DEF Ordered
<1> DEFINE n == Cardinality(S)
<1>1. n \in Nat
  BY FS_CardinalityType
<1>2. \A x \in S : IsFiniteSet(ahead[x]) /\ Cardinality(ahead[x]) \in Nat /\ place[x] = Cardinality(ahead[x]) + 1
  <2>1. \A x \in S : ahead[x] \subseteq S
    OBVIOUS
  <2>2. \A x \in S : IsFiniteSet(ahead[x])
    BY <2>1, FS_Subset
  <2>3. \A x \in S : Cardinality(ahead[x]) \in Nat
    BY <2>2, FS_CardinalityType
  <2>4. QED
    BY <2>2, <2>3
<1>3. ASSUME NEW x \in S, NEW y \in S, <<x, y>> \in R PROVE place[x] < place[y]
  <2>1. ahead[x] \subseteq ahead[y] /\ ahead[x] # ahead[y]
    <3>1. x \in ahead[y] /\ x \notin ahead[x]
      BY <1>3
    <3>2. \A z \in S : <<z, x>> \in R => <<z, y>> \in R
      BY <1>3
    <3>3. ahead[x] \subseteq ahead[y]
      BY <3>2
    <3>4. QED
      BY <3>1, <3>3
  <2>2. Cardinality(ahead[x]) <= Cardinality(ahead[y]) /\ Cardinality(ahead[x]) # Cardinality(ahead[y])
    BY <1>2, <2>1, FS_Subset
  <2>3. QED
    BY <1>2, <2>2
<1>4. ASSUME NEW x \in S PROVE place[x] \in 1 .. n
  <2>1. ahead[x] \subseteq S /\ ahead[x] # S
    <3>1. x \notin ahead[x] /\ \A y \in ahead[x] : y \in S
      OBVIOUS
    <3>2. QED
      BY <3>1
  <2>2. Cardinality(ahead[x]) <= n /\ Cardinality(ahead[x]) # n
    BY <2>1, FS_Subset
  <2>3. QED
    BY <1>1, <1>2, <2>2
<1>5. place \in Injection(S, 1 .. n)
  <2>1. place \in [S -> 1 .. n]
    BY <1>4
  <2>2. \A x, y \in S : x # y => place[x] # place[y]
    <3>1. SUFFICES ASSUME NEW x \in S, NEW y \in S, x # y PROVE place[x] # place[y]
      OBVIOUS
    <3>2. place[x] < place[y] \/ place[y] < place[x]
      BY <1>3, <3>1
    <3>3. place[x] \in Nat /\ place[y] \in Nat
      BY <1>4
    <3>4. QED
      BY <3>2, <3>3
  <2>3. DOMAIN place = S
    BY <2>1
  <2>4. IsInjective(place)
    BY <2>2, <2>3, Zenon DEF IsInjective
  <2>5. QED
    BY <2>1, <2>4, Zenon DEF Injection
<1>6. IsFiniteSet(1 .. n) /\ Cardinality(1 .. n) = n
  BY <1>1, FS_Interval
<1>7. place \in Surjection(S, 1 .. n)
  BY <1>5, <1>6, FS_Injection
<1>8. \A k \in 1 .. n : \E x \in S : place[x] = k
  BY <1>7 DEF Surjection
<1>9. QED
  BY <1>3, <1>4, <1>8 DEF Placed

\* The ranking of the branches, best first: each has its place.
LEMMA RankedBranches ==
  ASSUME \A i \in Branch : branch[i].score \in Nat
  PROVE  /\ Ranked \in Seq(Branch) /\ Len(Ranked) = N
         /\ \A k \in 1 .. N : \A i \in Branch \ {Ranked[j] : j \in 1 .. k} :
              \/ branch[Ranked[k]].score > branch[i].score
              \/ branch[Ranked[k]].score = branch[i].score /\ Ranked[k] < i
<1> DEFINE R == {e \in Branch \X Branch : Before(e[1], e[2])}
           ahead == [i \in Branch |-> {j \in Branch : Before(j, i)}]
           place == [i \in Branch |-> Place(i)]
<1>1. N \in Nat \ {0} /\ Branch \subseteq Int
  BY AlgorithmsAssumption DEF Branch
<1>2. IsFiniteSet(Branch) /\ Cardinality(Branch) = N
  BY <1>1, FS_Interval DEF Branch
<1>3. \A i, j \in Branch : <<i, j>> \in R <=> Before(i, j)
  OBVIOUS
<1>4. /\ place \in [Branch -> Nat] /\ \A i \in Branch : place[i] = Place(i)
      /\ \A i \in Branch : place[i] = Cardinality(ahead[i]) + 1
      /\ \A i \in Branch : \A j : j \in ahead[i] <=> j \in Branch /\ <<j, i>> \in R
  <2>1. \A i \in Branch : ahead[i] \subseteq Branch
    OBVIOUS
  <2>2. \A i \in Branch : Cardinality(ahead[i]) \in Nat
    <3> HIDE DEF ahead
    <3> QED  BY <1>2, <2>1, FS_Subset, FS_CardinalityType
  <2>3. \A i \in Branch : Place(i) = Cardinality(ahead[i]) + 1
    BY DEF Place
  <2>4. place \in [Branch -> Nat] /\ \A i \in Branch : place[i] = Place(i)
    <3> HIDE DEF ahead
    <3> QED  BY <2>2, <2>3
  <2>5. \A i \in Branch : \A j : j \in ahead[i] <=> j \in Branch /\ <<j, i>> \in R
    OBVIOUS
  <2>6. QED
    <3> HIDE DEF ahead, place, R
    <3> QED  BY <2>3, <2>4, <2>5
<1>5. \A i \in Branch : <<i, i>> \notin R
  BY <1>1, <1>3 DEF Before
<1>6. \A i, j \in Branch : i # j => <<i, j>> \in R \/ <<j, i>> \in R
  BY <1>1, <1>3 DEF Before
<1>7. \A i, j, k \in Branch : <<i, j>> \in R /\ <<j, k>> \in R => <<i, k>> \in R
  <2>1. ASSUME NEW i \in Branch, NEW j \in Branch, NEW k \in Branch, Before(i, j), Before(j, k)
        PROVE  Before(i, k)
    <3>1. /\ branch[i].score \in Nat /\ branch[j].score \in Nat /\ branch[k].score \in Nat
          /\ i \in Int /\ j \in Int /\ k \in Int
      BY <1>1
    <3>2. QED
      BY ONLY <2>1, <3>1 DEF Before
  <2>2. QED
    <3> HIDE DEF R
    <3> QED  BY <1>3, <2>1
<1> HIDE DEF R
<1>8. /\ \A i, j \in Branch : <<i, j>> \in R => place[i] < place[j]
      /\ \A i \in Branch : place[i] \in 1 .. N
      /\ \A k \in 1 .. N : \E i \in Branch : place[i] = k
  <2> HIDE DEF place, ahead
  <2>1. /\ \A i, j \in Branch : <<i, j>> \in R => place[i] < place[j]
        /\ \A i \in Branch : place[i] \in 1 .. Cardinality(Branch)
        /\ \A k \in 1 .. Cardinality(Branch) : \E i \in Branch : place[i] = k
    <3>1. Ordered(Branch, R, ahead, place)
      BY <1>2, <1>4, <1>5, <1>6, <1>7 DEF Ordered
    <3>2. Placed(Branch, R, place)
      BY <3>1, PlacesTaken, Zenon
    <3>3. QED
      BY <3>2 DEF Placed
  <2>2. QED
    BY <1>2, <2>1
<1> HIDE DEF place
<1>9. ASSUME NEW k \in 1 .. N PROVE Ranked[k] \in Branch /\ place[Ranked[k]] = k
  <2>1. Ranked[k] = CHOOSE i \in Branch : Place(i) = k
    BY DEF Ranked
  <2>2. \E i \in Branch : Place(i) = k
    BY <1>4, <1>8
  <2>3. Ranked[k] \in Branch /\ Place(Ranked[k]) = k
    BY <2>1, <2>2, Zenon
  <2>4. QED
    BY <1>4, <2>3
<1>10. Ranked \in Seq(Branch) /\ Len(Ranked) = N
  <2>1. Ranked = [k \in 1 .. N |-> Ranked[k]]
    BY DEF Ranked
  <2>2. QED
    BY <1>1, <1>9, <2>1
<1>11. ASSUME NEW k \in 1 .. N, NEW i \in Branch \ {Ranked[j] : j \in 1 .. k} PROVE Before(Ranked[k], i)
  <2>1. i # Ranked[k]
    BY <1>1
  <2>2. SUFFICES ASSUME <<i, Ranked[k]>> \in R PROVE FALSE
    BY <1>3, <1>6, <1>9, <2>1
  <2>3. place[i] \in 1 .. N /\ place[i] < k
    BY <1>8, <1>9, <2>2
  <2>4. DEFINE r == Ranked[place[i]]
  <2>5. r \in Branch /\ place[r] = place[i] /\ place[i] \in 1 .. k
    BY <1>1, <1>9, <2>3
  <2>6. r # i
    BY <2>5
  <2>7. place[r] < place[i] \/ place[i] < place[r]
    <3> HIDE DEF r
    <3> QED  BY <1>6, <1>8, <2>5, <2>6
  <2>8. QED
    <3> HIDE DEF r
    <3> QED  BY <2>3, <2>5, <2>7
<1>12. QED
  BY <1>10, <1>11 DEF Before

-----------------------------------------------------------------------------
(* A run of an algorithm                                                   *)

States == Calls \cup {"idle", "queued", "ok", "raised", "cancelled"}
Item   == [at : States, iter : 0 .. MaxIter, draft : 0 .. MaxIter + 1, seen : Nat, score : Nat]

AlgoType ==
  /\ MaxIter = 0 => algo # "refine"
  /\ algo \in Algos /\ judged \in BOOLEAN
  /\ algo \notin {"beam", "sweep"} => judged
  /\ phase \in 0 .. Len(Phases) /\ permits \in Nat
  /\ branch \in [Branch -> Item]
  /\ kept \in Seq(Branch) /\ (Running => kept = <<>>)
  /\ over \in {"none", "algo_end", "algo_error", "cancelled"}
  /\ late \subseteq Branch

\* How far an attempt, a refinement and a single call have come: what each has
\* drafted, and that it ends with a draft that was judged.
Unstarted(b) == b.at = "idle" /\ b.iter = 0 /\ b.draft = 0

AttemptOK(b) ==
  /\ b.at \notin {"idle", "queued", "call"}
  /\ b.at \in {"plan", "retrieve"} => b.iter = 0 /\ b.draft = 0
  /\ b.at = "reason" => b.draft = b.iter
  /\ b.at = "critic" => b.draft = b.iter + 1
  /\ b.at = "reflect" => b.draft = b.iter + 1 /\ b.iter < MaxIter
  /\ b.at = "ok" => b.draft > 0 /\ b.seen = b.draft

RefineOK(b) ==
  /\ b.at \in {"reason", "reflect", "ok", "raised", "cancelled"}
  /\ b.at = "reason" => b.draft = b.iter /\ b.iter < MaxIter
  /\ b.at = "reflect" => b.draft = b.iter + 1 /\ b.iter < MaxIter
  /\ b.at = "ok" => b.draft > 0 /\ b.seen = b.draft

CallOK(i, b, name) ==
  /\ b.at \in {"queued", "call", "critic", "ok", "raised", "cancelled"}
  /\ b.iter = 0 /\ b.draft \in {0, 1}
  /\ b.at = "queued" => algo = "sweep"
  /\ b.at = "critic" => name = "judge"
  /\ b.at = "call" => name # "judge"
  /\ b.at = "ok" \/ name # "generate" => b.draft = 1
  /\ b.at = "ok" /\ name = "judge" => b.seen = b.draft
  /\ name = "synthesize" /\ i # 0 => b.at = "ok"

FitsIn(i, b, p) ==
  IF p = 0 THEN Unstarted(b)
  ELSE CASE algo = "auto"   -> AttemptOK(b)
         [] algo = "refine" -> IF i = 0 THEN RefineOK(b) ELSE Unstarted(b)
         [] OTHER           -> CallOK(i, b, Phases[p])

BranchesFit == \A i \in Branch : FitsIn(i, branch[i], phase)

\* After algo_end nothing runs and nothing has raised.
Ended ==
  over = "algo_end" =>
    /\ Live = {} /\ Raised = {}
    /\ phase > 0 => phase = Len(Phases) /\ Gathered

InCall == {i \in Branch : branch[i].at \in Calls}

PermitsCounted ==
  /\ algo = "sweep" => permits + Cardinality(InCall) = Concurrency
  /\ algo # "sweep" => permits = Concurrency

AlgoInv ==
  AlgoType /\ BranchesFit /\ Ended /\ StraysOnlyOfFailure /\ BestKept /\ PermitsCounted

\* The phases of each algorithm: only the first generates, only the last one of
\* Debate synthesizes, and all between them judge.
LEMMA PhaseNames ==
  ASSUME algo \in Algos, judged \in BOOLEAN
  PROVE  /\ Len(Phases) \in Nat \ {0}
         /\ algo \in {"auto", "refine"} => Len(Phases) = 1
         /\ algo \in {"beam", "sweep"} => Len(Phases) = IF judged THEN 2 ELSE 1
         /\ \A p \in 1 .. Len(Phases) :
              /\ algo = "auto" => Phases[p] = "attempt"
              /\ algo = "refine" => Phases[p] = "refine"
              /\ algo \in {"beam", "sweep", "debate"} =>
                   /\ p = 1 => Phases[p] = "generate"
                   /\ p > 1 => Phases[p] \in {"judge", "synthesize"}
                   /\ Phases[p] = "synthesize" => algo = "debate" /\ p = Len(Phases)
<1>1. CASE algo = "auto"
  <2>1. Phases = <<"attempt">>
    BY <1>1 DEF Phases
  <2>2. QED
    BY <1>1, <2>1
<1>2. CASE algo = "refine"
  <2>1. Phases = <<"refine">>
    BY <1>2 DEF Phases
  <2>2. QED
    BY <1>2, <2>1
<1>3. CASE algo \in {"beam", "sweep"}
  <2>1. Phases = IF judged THEN <<"generate", "judge">> ELSE <<"generate">>
    BY <1>3 DEF Phases
  <2>2. QED
    BY <1>3, <2>1
<1>4. CASE algo = "debate"
  <2> DEFINE Names == {"generate", "judge", "synthesize"}
             mid == [r \in 1 .. Rounds |-> "judge"]
             front == <<"generate">> \o mid
  <2>1. Rounds \in Nat
    BY AlgorithmsAssumption
  <2>2. mid \in Seq(Names) /\ Len(mid) = Rounds /\ \A r \in 1 .. Rounds : mid[r] = "judge"
    <3>1. mid \in [1 .. Rounds -> Names] /\ \A r \in 1 .. Rounds : mid[r] = "judge"
      OBVIOUS
    <3>2. QED
      <4> HIDE DEF mid, Names
      <4> QED  BY <2>1, <3>1
  <2>3. Phases = front \o <<"synthesize">>
    BY <1>4 DEF Phases
  <2> HIDE DEF mid
  <2>4. /\ front \in Seq(Names) /\ Len(front) = Rounds + 1 /\ front[1] = "generate"
        /\ \A r \in 2 .. Rounds + 1 : front[r] = "judge"
    <3>1. <<"generate">> \in Seq(Names) /\ Len(<<"generate">>) = 1 /\ <<"generate">>[1] = "generate"
      BY SMTT(30)
    <3>2. \A r \in 2 .. Rounds + 1 : r - 1 \in 1 .. Rounds /\ front[r] = mid[r - 1]
      BY <2>1, <2>2, <3>1
    <3>3. QED
      BY <2>1, <2>2, <3>1, <3>2
  <2> HIDE DEF front
  <2>5. /\ Len(Phases) = Rounds + 2 /\ Phases[Rounds + 2] = "synthesize"
        /\ \A r \in 1 .. Rounds + 1 : Phases[r] = front[r]
    BY <2>1, <2>3, <2>4
  <2>6. QED
    BY <1>4, <2>1, <2>4, <2>5
<1>5. QED
  BY <1>1, <1>2, <1>3, <1>4 DEF Algos

\* The parameters are numbers.
LEMMA AlgoNumbers ==
  /\ N \in Nat \ {0} /\ MaxIter \in Nat /\ TopK \in 1 .. N
  /\ Concurrency \in Nat \ {0} /\ Scores \subseteq Nat /\ Branch \subseteq Int /\ 0 \in Branch
  BY AlgorithmsAssumption DEF Branch

\* A branch that changes alone, to one that fits, leaves all of them fit.
LEMMA OneBranch ==
  ASSUME AlgoType, BranchesFit, NEW i \in Branch, NEW b \in Item, FitsIn(i, b, phase),
         branch' = [branch EXCEPT ![i] = b], UNCHANGED <<algo, judged, phase>>
  PROVE  branch' \in [Branch -> Item] /\ BranchesFit'
<1>1. branch' \in [Branch -> Item]
  BY DEF AlgoType
<1>2. \A j \in Branch : FitsIn(j, branch'[j], phase)
  BY DEF AlgoType, BranchesFit
<1>3. Phases' = Phases
  BY DEF Phases
<1>4. QED
  BY <1>1, <1>2, <1>3 DEF BranchesFit, FitsIn, AttemptOK, RefineOK, CallOK, Unstarted

\* A call that returns leaves a branch that fits.
LEMMA ReturnFits ==
  ASSUME AlgoType, NEW i \in Branch, FitsIn(i, branch[i], phase), branch[i].at \in Calls, NEW s \in Nat
  PROVE  /\ Returned(branch[i], s) \in Item /\ FitsIn(i, Returned(branch[i], s), phase)
         /\ Returned(branch[i], s).at # "raised"
         /\ algo \notin {"auto", "refine"} => Returned(branch[i], s).at = "ok"
<1> DEFINE b == branch[i]
           r == Returned(b, s)
<1>1. b \in Item /\ MaxIter \in Nat
  BY AlgoNumbers DEF AlgoType
<1>0. /\ b = [at |-> b.at, iter |-> b.iter, draft |-> b.draft, seen |-> b.seen, score |-> b.score]
      /\ b.iter \in Nat /\ b.iter <= MaxIter /\ b.draft \in Nat /\ b.draft <= MaxIter + 1
      /\ b.seen \in Nat /\ b.score \in Nat
  <2> HIDE DEF b
  <2> QED  BY <1>1 DEF Item
<1>2. phase # 0 /\ phase \in 1 .. Len(Phases)
  <2>1. phase # 0
    <3>1. SUFFICES ASSUME phase = 0 PROVE FALSE
      OBVIOUS
    <3>2. Unstarted(branch[i])
      BY <3>1 DEF FitsIn
    <3>3. QED
      BY <3>2 DEF Unstarted, Calls
  <2>2. Len(Phases) \in Nat
    BY PhaseNames DEF AlgoType
  <2>3. QED
    BY <2>1, <2>2 DEF AlgoType
<1>3. CASE algo = "auto"
  <2>1. AttemptOK(b) /\ r = Attempted(b, s)
    BY <1>2, <1>3 DEF FitsIn, Returned
  <2>2. r \in Item /\ AttemptOK(r) /\ r.at # "raised"
    <3> HIDE DEF b, r
    <3>1. CASE b.at \in {"plan", "retrieve"}
      BY <1>1, <2>1, <3>1 DEF Item, States, Calls, AttemptOK, Attempted
    <3>2. CASE b.at = "reason"
      <4>1. r = [at |-> "critic", iter |-> b.iter, draft |-> b.draft + 1, seen |-> b.seen, score |-> b.score]
        BY <1>0, <2>1, <3>2 DEF Attempted, Drafted
      <4>2. QED
        BY <1>0, <1>1, <2>1, <3>2, <4>1 DEF Item, States, Calls, AttemptOK
    <3>3. CASE b.at = "critic"
      <4>1. r = [at |-> IF Accepted(b, s) THEN "ok" ELSE "reflect",
                 iter |-> b.iter, draft |-> b.draft, seen |-> b.draft, score |-> s]
        BY <1>0, <2>1, <3>3 DEF Attempted
      <4>2. QED
        BY <1>0, <1>1, <2>1, <3>3, <4>1 DEF Item, States, Calls, AttemptOK, Accepted
    <3>4. CASE b.at = "reflect"
      <4>1. r = [at |-> "reason", iter |-> b.iter + 1, draft |-> b.draft, seen |-> b.seen, score |-> b.score]
        BY <1>0, <2>1, <3>4 DEF Attempted
      <4>2. QED
        BY <1>0, <1>1, <2>1, <3>4, <4>1 DEF Item, States, Calls, AttemptOK
    <3>5. QED
      BY <2>1, <3>1, <3>2, <3>3, <3>4 DEF Calls, AttemptOK, b
  <2>3. QED
    BY <1>2, <1>3, <2>2 DEF FitsIn
<1>4. CASE algo = "refine"
  <2>1. i = 0 /\ RefineOK(b) /\ r = Refined(b, s)
    BY <1>2, <1>4 DEF FitsIn, Returned, Unstarted, Calls
  <2>2. r \in Item /\ RefineOK(r) /\ r.at # "raised"
    <3> HIDE DEF b, r
    <3>1. CASE b.at = "reason"
      <4>1. r = [at |-> "reflect", iter |-> b.iter, draft |-> b.draft + 1, seen |-> b.seen, score |-> b.score]
        BY <1>0, <2>1, <3>1 DEF Refined
      <4>2. QED
        BY <1>0, <1>1, <2>1, <3>1, <4>1 DEF Item, States, Calls, RefineOK
    <3>2. CASE b.at = "reflect"
      <4> DEFINE done == Settled(b, s < Threshold)
      <4>1. r = [at |-> IF done THEN "ok" ELSE "reason", iter |-> IF done THEN b.iter ELSE b.iter + 1,
                 draft |-> b.draft, seen |-> b.draft, score |-> s]
        BY <1>0, <2>1, <3>2 DEF Refined
      <4>2. ~done => b.iter + 1 # MaxIter
        BY DEF Settled
      <4> HIDE DEF done
      <4>3. QED
        BY <1>0, <1>1, <2>1, <3>2, <4>1, <4>2 DEF Item, States, Calls, RefineOK
    <3>3. QED
      BY <2>1, <3>1, <3>2 DEF Calls, RefineOK, b
  <2>3. QED
    BY <1>2, <1>4, <2>1, <2>2 DEF FitsIn
<1>5. CASE algo \notin {"auto", "refine"}
  <2>1. CallOK(i, b, Phases[phase]) /\ r = Called(b, s)
    BY <1>2, <1>5 DEF FitsIn, Returned
  <2>2. r \in Item /\ CallOK(i, r, Phases[phase]) /\ r.at = "ok"
    <3> DEFINE name == Phases[phase]
    <3> HIDE DEF b, r
    <3>0. r = IF name = "judge" THEN [b EXCEPT !.at = "ok", !.score = s, !.seen = b.draft]
                                ELSE [b EXCEPT !.at = "ok", !.draft = 1]
      BY <2>1 DEF Called
    <3>1. name \in {"generate", "judge", "synthesize"}
      BY <1>2, <1>5, PhaseNames DEF AlgoType, Algos
    <3>2. CallOK(i, b, name)
      BY <2>1
    <3> HIDE DEF name
    <3>3. r \in Item /\ CallOK(i, r, name) /\ r.at = "ok"
      <4>1. r = [at |-> "ok", iter |-> b.iter, draft |-> IF name = "judge" THEN b.draft ELSE 1,
                 seen |-> IF name = "judge" THEN b.draft ELSE b.seen,
                 score |-> IF name = "judge" THEN s ELSE b.score]
        BY <1>0, <3>0
      <4>2. QED
        BY <1>0, <1>1, <3>1, <3>2, <4>1 DEF Item, States, CallOK
    <3>4. QED
      BY <3>3 DEF name
  <2>3. QED
    BY <1>2, <1>5, <2>2 DEF FitsIn
<1>6. QED
  BY <1>3, <1>4, <1>5

\* A task that stops, by an exception or a cancellation, fits every phase.
LEMMA StopFits ==
  ASSUME AlgoType, NEW i \in Branch, FitsIn(i, branch[i], phase),
         branch[i].at \in Calls \cup {"queued"}, NEW x \in {"raised", "cancelled"}
  PROVE  [branch[i] EXCEPT !.at = x] \in Item /\ FitsIn(i, [branch[i] EXCEPT !.at = x], phase)
<1> DEFINE b == branch[i]
           r == [b EXCEPT !.at = x]
<1>1. b \in Item
  BY DEF AlgoType
<1>2. /\ r \in Item /\ r.at = x /\ r.iter = b.iter /\ r.draft = b.draft /\ r.seen = b.seen
      /\ b.at \in Calls \cup {"queued"}
  <2> HIDE DEF b
  <2>1. r = [at |-> x, iter |-> b.iter, draft |-> b.draft, seen |-> b.seen, score |-> b.score]
    BY <1>1 DEF Item
  <2>2. QED
    BY <1>1, <2>1 DEF Item, States, b
<1>3. FitsIn(i, b, phase)
  OBVIOUS
<1> HIDE DEF b, r
<1>4. phase # 0
  <2>1. SUFFICES ASSUME phase = 0 PROVE FALSE
    OBVIOUS
  <2>2. Unstarted(b)
    BY <1>3, <2>1 DEF FitsIn
  <2>3. QED
    BY <1>2, <2>2 DEF Unstarted, Calls
<1>5. CASE algo = "auto"
  <2>1. AttemptOK(b)
    BY <1>3, <1>4, <1>5 DEF FitsIn
  <2>2. AttemptOK(r)
    BY <1>2, <2>1 DEF AttemptOK
  <2>3. QED
    BY <1>2, <1>4, <1>5, <2>2 DEF FitsIn, r, b
<1>6. CASE algo = "refine"
  <2>1. i = 0 /\ RefineOK(b)
    BY <1>2, <1>3, <1>4, <1>6 DEF FitsIn, Unstarted, Calls
  <2>2. RefineOK(r)
    BY <1>2, <2>1 DEF RefineOK
  <2>3. QED
    BY <1>2, <1>4, <1>6, <2>1, <2>2 DEF FitsIn, r, b
<1>7. CASE algo \notin {"auto", "refine"}
  <2>1. CallOK(i, b, Phases[phase])
    BY <1>3, <1>4, <1>7 DEF FitsIn
  <2>2. CallOK(i, r, Phases[phase])
    BY <1>2, <2>1 DEF CallOK, Calls
  <2>3. QED
    BY <1>2, <1>4, <1>7, <2>2 DEF FitsIn, r, b
<1>8. QED
  BY <1>5, <1>6, <1>7

\* A branch in a call or in the queue moves only if algo_end was not emitted, and
\* if the run is over, only because a sibling of it raised.
LEMMA BranchMoves ==
  ASSUME AlgoInv, NEW i \in Branch, branch[i].at \in Calls \cup {"queued"},
         NEW b \in Item, FitsIn(i, b, phase),
         branch' = [branch EXCEPT ![i] = b], UNCHANGED <<algo, judged, phase, kept, over>>
  PROVE  /\ branch' \in [Branch -> Item] /\ BranchesFit' /\ Ended' /\ BestKept'
         /\ ~Running => Raised # {}
         /\ Raised' = IF b.at = "raised" THEN Raised \cup {i} ELSE Raised
         /\ i \notin Raised
         /\ InCall' = IF b.at \in Calls THEN InCall \cup {i} ELSE InCall \ {i}
<1>1. branch' \in [Branch -> Item] /\ BranchesFit'
  BY OneBranch DEF AlgoInv
<1>2. i \in Live
  BY DEF Live
<1>3. over # "algo_end"
  BY <1>2 DEF AlgoInv, Ended
<1>4. Ended' /\ BestKept'
  BY <1>3 DEF Ended, BestKept
<1>5. ~Running => Raised # {}
  BY <1>2 DEF AlgoInv, StraysOnlyOfFailure
<1>6. /\ branch \in [Branch -> Item] /\ branch'[i] = b /\ \A j \in Branch : j # i => branch'[j] = branch[j]
  BY DEF AlgoInv, AlgoType
<1>7. i \notin Raised
  BY DEF Raised, Calls
<1>8. Raised' = IF b.at = "raised" THEN Raised \cup {i} ELSE Raised
  BY <1>6, <1>7 DEF Raised
<1>9. InCall' = IF b.at \in Calls THEN InCall \cup {i} ELSE InCall \ {i}
  BY <1>6 DEF InCall, Calls
<1>10. QED
  BY <1>1, <1>4, <1>5, <1>7, <1>8, <1>9

\* A permit is taken or given back for each call.
LEMMA CallsCounted ==
  /\ IsFiniteSet(InCall) /\ Cardinality(InCall) \in Nat
  /\ \A i \in Branch :
       /\ i \notin InCall => Cardinality(InCall \cup {i}) = Cardinality(InCall) + 1
       /\ i \in InCall => Cardinality(InCall \ {i}) = Cardinality(InCall) - 1 /\ Cardinality(InCall) >= 1
<1>1. IsFiniteSet(Branch)
  BY AlgoNumbers, FS_Interval DEF Branch
<1>2. InCall \subseteq Branch
  BY DEF InCall
<1>3. IsFiniteSet(InCall)
  BY <1>1, <1>2, FS_Subset
<1>4. Cardinality(InCall) \in Nat
  BY <1>3, FS_CardinalityType
<1>5. \A i : i \notin InCall => Cardinality(InCall \cup {i}) = Cardinality(InCall) + 1
  BY <1>3, FS_AddElement
<1>6. \A i : i \in InCall => Cardinality(InCall \ {i}) = Cardinality(InCall) - 1
  BY <1>3, FS_RemoveElement
<1>7. \A i : i \in InCall => Cardinality(InCall) >= 1
  BY <1>3, <1>4, FS_EmptySet
<1>8. QED
  BY <1>3, <1>4, <1>5, <1>6, <1>7

\* Phases do not change during a run.
LEMMA PhasesStay == ASSUME UNCHANGED <<algo, judged>> PROVE Phases' = Phases
  BY DEF Phases

LEMMA AdmitKeeps ==
  ASSUME AlgoInv, NEW i \in Branch, Admit(i)
  PROVE  AlgoInv'
<1> DEFINE x == IF Phases[phase] = "judge" THEN "critic" ELSE "call"
           b == branch[i]
           r == [b EXCEPT !.at = x]
<1>1. b \in Item /\ b.at = "queued" /\ phase \in 0 .. Len(Phases) /\ FitsIn(i, b, phase)
  BY DEF AlgoInv, AlgoType, BranchesFit, Admit
<1>2. phase # 0
  <2>1. SUFFICES ASSUME phase = 0 PROVE FALSE
    OBVIOUS
  <2>2. Unstarted(b)
    BY <1>1, <2>1 DEF FitsIn
  <2>3. QED
    BY <1>1, <2>2 DEF Unstarted
<1>3. algo \notin {"auto", "refine"}
  BY <1>1, <1>2 DEF FitsIn, AttemptOK, RefineOK, Unstarted
<1>4. CallOK(i, b, Phases[phase])
  BY <1>1, <1>2, <1>3 DEF FitsIn
<1>5. algo = "sweep"
  BY <1>1, <1>4 DEF CallOK
<1>6. /\ r \in Item /\ r.at = x /\ r.iter = b.iter /\ r.draft = b.draft /\ r.seen = b.seen /\ x \in Calls
  <2> HIDE DEF b
  <2>1. r = [at |-> x, iter |-> b.iter, draft |-> b.draft, seen |-> b.seen, score |-> b.score]
    BY <1>1 DEF Item
  <2>2. QED
    BY <1>1, <2>1 DEF Item, States, Calls
<1>7. CallOK(i, r, Phases[phase])
  <2> HIDE DEF b, r
  <2> QED  BY <1>1, <1>4, <1>6 DEF CallOK
<1>8. FitsIn(i, r, phase)
  BY <1>2, <1>3, <1>7 DEF FitsIn
<1>9. branch' = [branch EXCEPT ![i] = r] /\ permits' = permits - 1 /\ permits > 0
      /\ UNCHANGED <<algo, judged, phase, kept, over, late>>
  BY DEF Admit, AlgoInv, AlgoType
<1>10. branch[i].at \in Calls \cup {"queued"}
  BY <1>1
<1>11. /\ branch' \in [Branch -> Item] /\ BranchesFit' /\ Ended' /\ BestKept'
       /\ ~Running => Raised # {}
       /\ Raised' = IF r.at = "raised" THEN Raised \cup {i} ELSE Raised
       /\ InCall' = IF r.at \in Calls THEN InCall \cup {i} ELSE InCall \ {i}
  <2> HIDE DEF r
  <2> QED  BY <1>6, <1>8, <1>9, <1>10, BranchMoves
<1>12. Raised' = Raised /\ InCall' = InCall \cup {i} /\ i \notin InCall
  BY <1>1, <1>6, <1>11 DEF InCall, Calls
<1>13. AlgoType'
  BY <1>9, <1>11, PhasesStay DEF AlgoInv, AlgoType, Running
<1>14. StraysOnlyOfFailure'
  BY <1>9, <1>11, <1>12 DEF AlgoInv, StraysOnlyOfFailure, Running
<1>15. PermitsCounted'
  BY <1>5, <1>9, <1>12, CallsCounted DEF AlgoInv, AlgoType, PermitsCounted
<1>16. QED
  BY <1>11, <1>13, <1>14, <1>15 DEF AlgoInv

LEMMA ReturnKeeps ==
  ASSUME AlgoInv, NEW i \in Branch, NEW s \in Scores \cup {0}, Return(i, s)
  PROVE  AlgoInv'
<1> DEFINE b == branch[i]
           r == Returned(b, s)
<1>1. b \in Item /\ b.at \in Calls /\ FitsIn(i, b, phase) /\ s \in Nat
  BY AlgoNumbers DEF AlgoInv, AlgoType, BranchesFit, Return
<1>2. /\ r \in Item /\ FitsIn(i, r, phase) /\ r.at # "raised"
      /\ algo \notin {"auto", "refine"} => r.at = "ok"
  BY <1>1, ReturnFits DEF AlgoInv
<1>3. branch' = [branch EXCEPT ![i] = r] /\ permits' = Release("ok")
      /\ late' = (IF Emits(branch[i].at) /\ ~Running THEN late \cup {i} ELSE late)
      /\ UNCHANGED <<algo, judged, phase, kept, over>>
  BY DEF Return, AlgoInv, AlgoType
<1>4. branch[i].at \in Calls \cup {"queued"}
  BY <1>1
<1>5. /\ branch' \in [Branch -> Item] /\ BranchesFit' /\ Ended' /\ BestKept'
      /\ ~Running => Raised # {}
      /\ Raised' = (IF r.at = "raised" THEN Raised \cup {i} ELSE Raised)
      /\ i \notin Raised
      /\ InCall' = IF r.at \in Calls THEN InCall \cup {i} ELSE InCall \ {i}
  <2> HIDE DEF r
  <2> QED  BY <1>2, <1>3, <1>4, BranchMoves
<1>6. Raised' = Raised
  BY <1>2, <1>5
<1>7. late' \subseteq Branch
  BY <1>3 DEF AlgoInv, AlgoType
<1>8. permits' \in Nat
  BY <1>3 DEF AlgoInv, AlgoType, Release
<1>9. AlgoType'
  BY <1>3, <1>5, <1>7, <1>8, PhasesStay DEF AlgoInv, AlgoType, Running
<1>10. late' # {} => Raised # {} /\ algo = "auto"
  <2>1. CASE Emits(branch[i].at) /\ ~Running
    <3>1. SUFFICES ASSUME algo = "refine" PROVE FALSE
      BY <1>5, <2>1 DEF Emits
    <3>2. PICK j \in Branch : branch[j].at = "raised" /\ j # i
      BY <1>5, <2>1 DEF Raised
    <3>3. FitsIn(j, branch[j], phase)
      BY DEF AlgoInv, BranchesFit
    <3>4. \A k \in Branch : branch[k].at # "idle" /\ FitsIn(k, branch[k], phase) => k = 0
      BY <3>1 DEF FitsIn, Unstarted
    <3>5. QED
      BY <1>1, <3>2, <3>3, <3>4 DEF Calls
  <2>2. CASE ~(Emits(branch[i].at) /\ ~Running)
    BY <1>3, <2>2 DEF AlgoInv, StraysOnlyOfFailure
  <2>3. QED
    BY <2>1, <2>2
<1>11. StraysOnlyOfFailure'
  BY <1>3, <1>5, <1>6, <1>10 DEF StraysOnlyOfFailure, Running
<1>12. PermitsCounted'
  <2>1. i \in InCall /\ (algo = "sweep" => InCall' = InCall \ {i})
    BY <1>1, <1>2, <1>5 DEF InCall, Calls
  <2>2. permits \in Nat /\ PermitsCounted
    BY DEF AlgoInv, AlgoType
  <2>3. QED
    BY <1>3, <2>1, <2>2, CallsCounted DEF PermitsCounted, Release
<1>13. QED
  BY <1>5, <1>9, <1>11, <1>12 DEF AlgoInv

LEMMA RaiseKeeps ==
  ASSUME AlgoInv, NEW i \in Branch, Raise(i)
  PROVE  AlgoInv'
<1> DEFINE b == branch[i]
           r == [b EXCEPT !.at = "raised"]
<1>1. b \in Item /\ b.at \in Calls /\ FitsIn(i, b, phase)
  BY DEF AlgoInv, AlgoType, BranchesFit, Raise
<1>2. branch[i].at \in Calls \cup {"queued"}
  BY <1>1
<1>3. r \in Item /\ FitsIn(i, r, phase)
  BY <1>1, <1>2, StopFits DEF AlgoInv
<1>4. r.at = "raised"
  BY <1>1 DEF Item
<1>5. branch' = [branch EXCEPT ![i] = r] /\ permits' = Release("raised")
      /\ UNCHANGED <<algo, judged, phase, kept, over, late>>
  BY DEF Raise, AlgoInv, AlgoType
<1>6. /\ branch' \in [Branch -> Item] /\ BranchesFit' /\ Ended' /\ BestKept'
      /\ Raised' = (IF r.at = "raised" THEN Raised \cup {i} ELSE Raised)
      /\ InCall' = IF r.at \in Calls THEN InCall \cup {i} ELSE InCall \ {i}
  <2> HIDE DEF r
  <2> QED  BY <1>2, <1>3, <1>5, BranchMoves
<1>7. i \in Raised' /\ i \in InCall /\ InCall' = InCall \ {i}
  BY <1>1, <1>4, <1>6 DEF InCall, Calls
<1>8. permits' \in Nat
  BY <1>5 DEF AlgoInv, AlgoType, Release
<1>9. AlgoType'
  BY <1>5, <1>6, <1>8, PhasesStay DEF AlgoInv, AlgoType, Running
<1>10. StraysOnlyOfFailure'
  BY <1>5, <1>7 DEF AlgoInv, StraysOnlyOfFailure
<1>11. PermitsCounted'
  BY <1>5, <1>7, CallsCounted DEF AlgoInv, AlgoType, PermitsCounted, Release
<1>12. QED
  BY <1>6, <1>9, <1>10, <1>11 DEF AlgoInv

\* Once all the tasks of a phase have returned no branch runs or has raised.
LEMMA AllReturned ==
  ASSUME AlgoInv, phase \in 1 .. Len(Phases), Gathered
  PROVE  /\ \A i \in Branch : branch[i].at \in {"ok", "idle"}
         /\ Live = {} /\ Raised = {} /\ InCall = {} /\ late = {}
<1>1. \A i \in Branch : branch[i].at \in {"ok", "idle"}
  <2>1. SUFFICES ASSUME NEW i \in Branch, branch[i].at # "ok" PROVE branch[i].at = "idle"
    OBVIOUS
  <2>2. i \notin Width(phase)
    BY <2>1 DEF Gathered
  <2>3. Phases[phase] \in {"synthesize", "refine"} /\ i # 0
    BY <2>2 DEF Width
  <2>4. FitsIn(i, branch[i], phase) /\ phase # 0 /\ algo \in Algos /\ judged \in BOOLEAN
    BY DEF AlgoInv, BranchesFit, AlgoType
  <2>5. CASE algo = "refine"
    BY <2>3, <2>4, <2>5 DEF FitsIn, Unstarted
  <2>6. CASE algo = "auto"
    BY <2>3, <2>4, <2>6, PhaseNames
  <2>7. CASE algo \notin {"auto", "refine"}
    <3>1. Phases[phase] = "synthesize"
      BY <2>3, <2>4, <2>7, PhaseNames DEF Algos
    <3>2. CallOK(i, branch[i], Phases[phase])
      BY <2>4, <2>7 DEF FitsIn
    <3>3. QED
      BY <2>1, <2>3, <3>1, <3>2 DEF CallOK
  <2>8. QED
    BY <2>5, <2>6, <2>7
<1>2. Live = {} /\ Raised = {} /\ InCall = {}
  BY <1>1 DEF Live, Raised, InCall, Calls
<1>3. late = {}
  BY <1>2 DEF AlgoInv, StraysOnlyOfFailure
<1>4. QED
  BY <1>1, <1>2, <1>3

\* Before the first phase nothing has started.
LEMMA NothingStarted ==
  ASSUME AlgoInv, phase = 0
  PROVE  /\ \A i \in Branch : Unstarted(branch[i])
         /\ Live = {} /\ Raised = {} /\ InCall = {} /\ late = {}
<1>1. \A i \in Branch : Unstarted(branch[i])
  BY DEF AlgoInv, BranchesFit, FitsIn
<1>2. Live = {} /\ Raised = {} /\ InCall = {}
  BY <1>1 DEF Live, Raised, InCall, Calls, Unstarted
<1>3. late = {}
  BY <1>2 DEF AlgoInv, StraysOnlyOfFailure
<1>4. QED
  BY <1>1, <1>2, <1>3

\* A phase that starts while no call is under way leaves the books in order.
LEMMA PhaseStarts ==
  ASSUME AlgoInv, Running, InCall = {}, late = {}, phase' \in 1 .. Len(Phases),
         branch' = Launched(phase'),
         \A i \in Branch : branch'[i] \in Item /\ FitsIn(i, branch'[i], phase'),
         algo = "sweep" => InCall' = {},
         UNCHANGED <<algo, judged, permits, kept, over, late>>
  PROVE  AlgoInv'
<1>1. Phases' = Phases
  BY PhasesStay
<1>2. branch' \in [Branch -> Item]
  <2>1. branch' = [i \in Branch |-> branch'[i]]
    BY DEF Launched
  <2>2. QED
    BY <2>1
<1>3. AlgoType'
  BY <1>1, <1>2 DEF AlgoInv, AlgoType, Running
<1>4. BranchesFit'
  BY <1>1 DEF BranchesFit, FitsIn, AttemptOK, RefineOK, CallOK, Unstarted
<1>5. Ended' /\ BestKept' /\ StraysOnlyOfFailure'
  BY DEF Running, Ended, BestKept, StraysOnlyOfFailure
<1>6. PermitsCounted'
  BY DEF AlgoInv, PermitsCounted
<1>7. QED
  BY <1>3, <1>4, <1>5, <1>6 DEF AlgoInv

\* A branch that is launched keeps what it has drafted.
LEMMA LaunchedIs ==
  ASSUME AlgoInv, NEW p \in Nat, NEW i \in Branch
  PROVE  LET b == branch[i]
             r == Launched(p)[i]
         IN /\ i \in Width(p) => r = [at |-> FirstCall(p), iter |-> b.iter, draft |-> b.draft,
                                      seen |-> b.seen, score |-> b.score]
            /\ i \notin Width(p) => r = b
<1> DEFINE b == branch[i]
           r == Launched(p)[i]
<1>1. b \in Item
  BY DEF AlgoInv, AlgoType
<1>2. r = IF i \in Width(p) THEN [b EXCEPT !.at = FirstCall(p)] ELSE b
  BY DEF Launched
<1> HIDE DEF b, r
<1>3. i \in Width(p) => r = [at |-> FirstCall(p), iter |-> b.iter, draft |-> b.draft,
                             seen |-> b.seen, score |-> b.score]
  BY <1>1, <1>2 DEF Item
<1>4. QED
  BY <1>2, <1>3 DEF b, r

LEMMA BeginKeeps ==
  ASSUME AlgoInv, Begin
  PROVE  AlgoInv'
<1>1. /\ Running /\ phase = 0 /\ phase' = 1 /\ branch' = Launched(1)
      /\ UNCHANGED <<algo, judged, permits, kept, over, late>>
  BY DEF Begin
<1>2. /\ \A i \in Branch : Unstarted(branch[i])
      /\ Live = {} /\ Raised = {} /\ InCall = {} /\ late = {}
  BY <1>1, NothingStarted
<1>3. 1 \in 1 .. Len(Phases) /\ algo \in Algos /\ judged \in BOOLEAN
  BY PhaseNames DEF AlgoInv, AlgoType
<1>4. ASSUME NEW i \in Branch PROVE branch'[i] \in Item /\ FitsIn(i, branch'[i], 1)
  <2> DEFINE b == branch[i]
             r == branch'[i]
  <2>1. b \in Item /\ b.at = "idle" /\ b.iter = 0 /\ b.draft = 0
    BY <1>2 DEF AlgoInv, AlgoType, Unstarted
  <2>2. /\ i \in Width(1) => r = [at |-> FirstCall(1), iter |-> b.iter, draft |-> b.draft,
                                  seen |-> b.seen, score |-> b.score]
        /\ i \notin Width(1) => r = b
    BY <1>1, LaunchedIs
  <2> HIDE DEF b, r
  <2>3. CASE algo = "auto"
    <3>1. Phases[1] = "attempt"
      BY <1>3, <2>3, PhaseNames
    <3>2. i \in Width(1) /\ FirstCall(1) = "plan"
      BY <2>3, <3>1 DEF Width, FirstCall
    <3>3. r \in Item /\ AttemptOK(r)
      BY <2>1, <2>2, <3>2 DEF Item, States, Calls, AttemptOK
    <3>4. QED
      BY <2>3, <3>3 DEF FitsIn, r
  <2>4. CASE algo = "refine"
    <3>1. Phases[1] = "refine"
      BY <1>3, <2>4, PhaseNames
    <3>2. (i \in Width(1) <=> i = 0) /\ FirstCall(1) = "reason"
      BY <2>4, <3>1 DEF Width, FirstCall
    <3>3. MaxIter \in Nat /\ MaxIter > 0
      BY <2>4, AlgoNumbers DEF AlgoInv, AlgoType
    <3>4. r \in Item /\ IF i = 0 THEN RefineOK(r) ELSE Unstarted(r)
      BY <2>1, <2>2, <3>2, <3>3 DEF Item, States, Calls, RefineOK, Unstarted
    <3>5. QED
      BY <2>4, <3>4 DEF FitsIn, r
  <2>5. CASE algo \notin {"auto", "refine"}
    <3>1. Phases[1] = "generate"
      BY <1>3, <2>5, PhaseNames DEF Algos
    <3>2. i \in Width(1) /\ FirstCall(1) = IF algo = "sweep" THEN "queued" ELSE "call"
      BY <2>5, <3>1 DEF Width, FirstCall
    <3>3. r \in Item /\ CallOK(i, r, "generate")
      BY <2>1, <2>2, <3>2 DEF Item, States, Calls, CallOK
    <3>4. QED
      BY <2>5, <3>1, <3>3 DEF FitsIn, r
  <2>6. QED
    BY <2>3, <2>4, <2>5 DEF r
<1>5. algo = "sweep" => InCall' = {}
  <2>1. SUFFICES ASSUME algo = "sweep" PROVE InCall' = {}
    OBVIOUS
  <2>2. Phases[1] = "generate"
    BY <1>3, <2>1, PhaseNames
  <2>3. \A i \in Branch : i \in Width(1) /\ FirstCall(1) = "queued"
    BY <2>1, <2>2 DEF Width, FirstCall
  <2>4. ASSUME NEW i \in Branch PROVE branch'[i].at = "queued"
    <3>1. i \in Width(1) /\ FirstCall(1) = "queued" /\ branch'[i] = Launched(1)[i] /\ 1 \in Nat
      BY <1>1, <2>3
    <3>2. Launched(1)[i] = [at |-> FirstCall(1), iter |-> branch[i].iter, draft |-> branch[i].draft,
                            seen |-> branch[i].seen, score |-> branch[i].score]
      BY <3>1, LaunchedIs
    <3>3. QED
      BY <3>1, <3>2
  <2>5. QED
    BY <2>4 DEF InCall, Calls
<1>6. QED
  BY <1>1, <1>2, <1>3, <1>4, <1>5, PhaseStarts

LEMMA NextPhaseKeeps ==
  ASSUME AlgoInv, NextPhase
  PROVE  AlgoInv'
<1> DEFINE n == phase + 1
<1>1. /\ Running /\ phase > 0 /\ phase < Len(Phases) /\ Gathered /\ phase' = n /\ branch' = Launched(n)
      /\ UNCHANGED <<algo, judged, permits, kept, over, late>>
  BY DEF NextPhase
<1>2. algo \in Algos /\ judged \in BOOLEAN /\ phase \in Nat /\ Len(Phases) \in Nat
  BY PhaseNames DEF AlgoInv, AlgoType
<1>3. phase \in 1 .. Len(Phases) /\ n \in 1 .. Len(Phases) /\ n \in Nat /\ n # 0
  BY <1>1, <1>2
<1>4. Live = {} /\ Raised = {} /\ InCall = {} /\ late = {}
  BY <1>1, <1>3, AllReturned
<1>5. algo \in {"beam", "sweep", "debate"}
  BY <1>1, <1>2, <1>3, PhaseNames DEF Algos
<1>6. /\ Phases[phase] \in {"generate", "judge"}
      /\ Phases[n] \in {"judge", "synthesize"} /\ (Phases[n] = "synthesize" => algo = "debate")
  BY <1>1, <1>2, <1>3, <1>5, PhaseNames
<1> HIDE DEF n
<1>7. \A i \in Branch : branch[i].at = "ok"
  BY <1>1, <1>6 DEF Gathered, Width
<1>8. FirstCall(n) = IF algo = "sweep" THEN "queued" ELSE IF Phases[n] = "judge" THEN "critic" ELSE "call"
  BY <1>5, <1>6 DEF FirstCall
<1>9. ASSUME NEW i \in Branch PROVE branch'[i] \in Item /\ FitsIn(i, branch'[i], n)
  <2> DEFINE b == branch[i]
             r == branch'[i]
  <2>1. b \in Item /\ FitsIn(i, b, phase) /\ b.at = "ok"
    BY <1>7 DEF AlgoInv, AlgoType, BranchesFit
  <2>2. CallOK(i, b, Phases[phase])
    BY <1>3, <1>5, <2>1 DEF FitsIn
  <2>3. /\ i \in Width(n) => r = [at |-> FirstCall(n), iter |-> b.iter, draft |-> b.draft,
                                  seen |-> b.seen, score |-> b.score]
        /\ i \notin Width(n) => r = b
    BY <1>1, <1>3, LaunchedIs
  <2>4. i \notin Width(n) <=> Phases[n] = "synthesize" /\ i # 0
    BY <1>6 DEF Width
  <2> HIDE DEF b, r
  <2>5. r \in Item /\ CallOK(i, r, Phases[n])
    <3>1. CASE i \in Width(n)
      BY <1>5, <1>6, <1>8, <2>1, <2>2, <2>3, <2>4, <3>1 DEF Item, States, Calls, CallOK
    <3>2. CASE i \notin Width(n)
      BY <1>6, <2>1, <2>2, <2>3, <2>4, <3>2 DEF CallOK
    <3>3. QED
      BY <3>1, <3>2
  <2>6. QED
    BY <1>3, <1>5, <2>5 DEF FitsIn, r
<1>10. algo = "sweep" => InCall' = {}
  <2>1. SUFFICES ASSUME algo = "sweep" PROVE InCall' = {}
    OBVIOUS
  <2>2. \A i \in Branch : i \in Width(n) /\ FirstCall(n) = "queued"
    BY <1>6, <1>8, <2>1 DEF Width
  <2>3. ASSUME NEW i \in Branch PROVE branch'[i].at = "queued"
    <3>1. i \in Width(n) /\ FirstCall(n) = "queued" /\ branch'[i] = Launched(n)[i]
      BY <1>1, <2>2
    <3>2. Launched(n)[i] = [at |-> FirstCall(n), iter |-> branch[i].iter, draft |-> branch[i].draft,
                            seen |-> branch[i].seen, score |-> branch[i].score]
      BY <1>3, <3>1, LaunchedIs
    <3>3. QED
      BY <3>1, <3>2
  <2>4. QED
    BY <2>3 DEF InCall, Calls
<1>11. QED
  BY <1>1, <1>3, <1>4, <1>9, <1>10, PhaseStarts

\* A run that ends before its first phase.
LEMMA UnbegunKeeps ==
  ASSUME AlgoInv, EmptyGrid \/ BuildFails
  PROVE  AlgoInv'
<1>1. /\ Running /\ phase = 0 /\ over' \in {"algo_end", "algo_error"}
      /\ UNCHANGED <<algo, judged, phase, branch, permits, kept, late>>
  BY DEF EmptyGrid, BuildFails
<1>2. Live = {} /\ Raised = {} /\ late = {} /\ kept = <<>>
  BY <1>1, NothingStarted DEF AlgoInv, AlgoType
<1>3. Phases' = Phases /\ Live' = Live /\ Raised' = Raised /\ InCall' = InCall
  BY <1>1 DEF Phases, Live, Raised, InCall
<1>4. AlgoType'
  BY <1>1, <1>3 DEF AlgoInv, AlgoType, Running
<1>5. BranchesFit'
  BY <1>1, <1>3 DEF AlgoInv, BranchesFit, FitsIn, AttemptOK, RefineOK, CallOK, Unstarted
<1>6. Ended' /\ StraysOnlyOfFailure'
  BY <1>1, <1>2, <1>3 DEF Ended, StraysOnlyOfFailure
<1>7. BestKept'
  <2>1. kept' = <<>> /\ DOMAIN kept' = {}
    BY <1>1, <1>2
  <2>2. QED
    BY <2>1 DEF BestKept
<1>8. PermitsCounted'
  BY <1>1, <1>3 DEF AlgoInv, PermitsCounted
<1>9. QED
  BY <1>4, <1>5, <1>6, <1>7, <1>8 DEF AlgoInv

LEMMA FailKeeps ==
  ASSUME AlgoInv, Fail
  PROVE  AlgoInv'
<1>1. /\ Raised # {} /\ over' = "algo_error"
      /\ UNCHANGED <<algo, judged, phase, branch, permits, kept, late>>
  BY DEF Fail
<1>2. Phases' = Phases /\ Live' = Live /\ Raised' = Raised /\ InCall' = InCall
  BY <1>1 DEF Phases, Live, Raised, InCall
<1>3. AlgoType'
  BY <1>1, <1>2 DEF AlgoInv, AlgoType, Running
<1>4. BranchesFit'
  BY <1>1, <1>2 DEF AlgoInv, BranchesFit, FitsIn, AttemptOK, RefineOK, CallOK, Unstarted
<1>5. Ended' /\ BestKept' /\ StraysOnlyOfFailure' /\ PermitsCounted'
  BY <1>1, <1>2 DEF AlgoInv, Ended, BestKept, StraysOnlyOfFailure, PermitsCounted
<1>6. QED
  BY <1>3, <1>4, <1>5 DEF AlgoInv

LEMMA CancelKeeps ==
  ASSUME AlgoInv, Cancel
  PROVE  AlgoInv'
<1>1. /\ over' = "cancelled" /\ branch' = Withdrawn
      /\ permits' = (IF Raised = {} THEN Concurrency ELSE permits)
      /\ UNCHANGED <<algo, judged, phase, kept, late>>
  BY DEF Cancel
<1>2. Phases' = Phases
  BY <1>1 DEF Phases
<1>3. branch \in [Branch -> Item] /\ BranchesFit /\ AlgoType
  BY DEF AlgoInv, AlgoType
<1>4. ASSUME NEW i \in Branch
      PROVE  /\ branch'[i] \in Item /\ FitsIn(i, branch'[i], phase)
             /\ branch'[i].at = IF Raised = {} /\ i \in Live THEN "cancelled" ELSE branch[i].at
  <2>1. CASE Raised = {} /\ i \in Live
    <3>1. branch'[i] = [branch[i] EXCEPT !.at = "cancelled"]
      BY <1>1, <2>1 DEF Withdrawn
    <3>2. branch[i].at \in Calls \cup {"queued"} /\ branch[i] \in Item
      BY <1>3, <2>1 DEF Live
    <3>3. [branch[i] EXCEPT !.at = "cancelled"].at = "cancelled"
      BY <3>2 DEF Item
    <3>4. FitsIn(i, branch[i], phase)
      BY <1>3 DEF BranchesFit
    <3>5. QED
      BY <1>3, <2>1, <3>1, <3>2, <3>3, <3>4, StopFits
  <2>2. CASE ~(Raised = {} /\ i \in Live)
    BY <1>1, <1>3, <2>2 DEF Withdrawn, BranchesFit
  <2>3. QED
    BY <2>1, <2>2
<1>5. branch' \in [Branch -> Item]
  <2>1. branch' = [i \in Branch |-> branch'[i]]
    BY <1>1 DEF Withdrawn
  <2>2. QED
    BY <1>4, <2>1
<1>6. AlgoType'
  BY <1>1, <1>2, <1>3, <1>5, AlgoNumbers DEF AlgoType, Running
<1>7. BranchesFit'
  BY <1>1, <1>2, <1>4 DEF BranchesFit, FitsIn, AttemptOK, RefineOK, CallOK, Unstarted
<1>8. Ended' /\ BestKept'
  BY <1>1 DEF Ended, BestKept
<1>9. /\ Raised' = Raised
      /\ Raised = {} => Live' = {} /\ InCall' = {}
      /\ Raised # {} => Live' = Live /\ InCall' = InCall
  <2>1. Raised' = Raised
    BY <1>4 DEF Raised, Live, Calls
  <2>2. Raised = {} => Live' = {} /\ InCall' = {}
    BY <1>4 DEF Live, InCall, Calls
  <2>3. Raised # {} => Live' = Live /\ InCall' = InCall
    BY <1>4 DEF Live, InCall
  <2>4. QED
    BY <2>1, <2>2, <2>3
<1>10. StraysOnlyOfFailure'
  BY <1>1, <1>9 DEF AlgoInv, StraysOnlyOfFailure
<1>11. PermitsCounted'
  BY <1>1, <1>9, AlgoNumbers, FS_EmptySet DEF AlgoInv, PermitsCounted
<1>12. QED
  BY <1>6, <1>7, <1>8, <1>10, <1>11 DEF AlgoInv

\* What a run returns: branches, and of a judged run the best, in order.
LEMMA ChosenBest ==
  ASSUME AlgoInv
  PROVE  /\ Chosen \in Seq(Branch)
         /\ judged /\ algo \in {"auto", "beam", "sweep"} =>
              \A k \in DOMAIN Chosen : \A i \in Branch \ {Chosen[j] : j \in 1 .. k} :
                \/ branch[Chosen[k]].score > branch[i].score
                \/ branch[Chosen[k]].score = branch[i].score /\ Chosen[k] < i
<1>1. \A i \in Branch : branch[i].score \in Nat
  BY DEF AlgoInv, AlgoType, Item
<1>2. /\ Ranked \in Seq(Branch) /\ Len(Ranked) = N
      /\ \A k \in 1 .. N : \A i \in Branch \ {Ranked[j] : j \in 1 .. k} :
           \/ branch[Ranked[k]].score > branch[i].score
           \/ branch[Ranked[k]].score = branch[i].score /\ Ranked[k] < i
  BY <1>1, RankedBranches
<1>3. Unranked \in Seq(Branch) /\ Len(Unranked) = N
  <2>1. \A k \in 1 .. N : k - 1 \in Branch
    BY AlgoNumbers DEF Branch
  <2>2. Unranked \in [1 .. N -> Branch]
    BY <2>1 DEF Unranked
  <2>3. QED
    BY <2>2, AlgoNumbers
<1>4. ASSUME NEW m \in 1 .. N
      PROVE  /\ SubSeq(Ranked, 1, m) \in Seq(Branch) /\ SubSeq(Unranked, 1, m) \in Seq(Branch)
             /\ Len(SubSeq(Ranked, 1, m)) = m /\ \A k \in 1 .. m : SubSeq(Ranked, 1, m)[k] = Ranked[k]
  BY <1>2, <1>3, AlgoNumbers
<1>5. 1 \in 1 .. N /\ TopK \in 1 .. N /\ 0 \in Branch
  BY AlgoNumbers
<1>6. Chosen \in Seq(Branch)
  <2>1. Chosen \in {SubSeq(Ranked, 1, 1), SubSeq(Ranked, 1, TopK), SubSeq(Unranked, 1, TopK), <<>>, <<0>>}
    BY DEF Chosen
  <2>2. SubSeq(Ranked, 1, 1) \in Seq(Branch)
    BY <1>4, <1>5
  <2>3. SubSeq(Ranked, 1, TopK) \in Seq(Branch) /\ SubSeq(Unranked, 1, TopK) \in Seq(Branch)
    BY <1>4, <1>5
  <2>4. <<>> \in Seq(Branch) /\ <<0>> \in Seq(Branch)
    BY <1>5
  <2>5. QED
    BY <2>1, <2>2, <2>3, <2>4
<1>7. ASSUME judged, algo \in {"auto", "beam", "sweep"},
             NEW k \in DOMAIN Chosen, NEW i \in Branch \ {Chosen[j] : j \in 1 .. k}
      PROVE  \/ branch[Chosen[k]].score > branch[i].score
             \/ branch[Chosen[k]].score = branch[i].score /\ Chosen[k] < i
  <2>1. PICK m \in 1 .. N : Chosen = SubSeq(Ranked, 1, m)
    BY <1>5, <1>7 DEF Chosen
  <2>2. Chosen \in Seq(Branch) /\ Len(Chosen) = m /\ \A j \in 1 .. m : Chosen[j] = Ranked[j]
    BY <1>4, <2>1
  <2>3. k \in 1 .. m /\ m \in 1 .. N
    BY <2>2
  <2> HIDE DEF Chosen
  <2>4. \A j \in 1 .. k : Chosen[j] = Ranked[j]
    BY <2>2, <2>3, AlgoNumbers
  <2>5. i \in Branch \ {Ranked[j] : j \in 1 .. k}
    BY <2>4
  <2>6. k \in 1 .. N /\ Chosen[k] = Ranked[k]
    BY <2>2, <2>3, AlgoNumbers
  <2>7. QED
    BY <1>2, <2>5, <2>6
<1>8. QED
  BY <1>6, <1>7

LEMMA FinishKeeps ==
  ASSUME AlgoInv, Finish
  PROVE  AlgoInv'
<1>1. /\ Running /\ phase = Len(Phases) /\ Gathered /\ over' = "algo_end" /\ kept' = Chosen
      /\ UNCHANGED <<algo, judged, phase, branch, permits, late>>
  BY DEF Finish
<1>2. phase \in 1 .. Len(Phases)
  BY <1>1, PhaseNames DEF AlgoInv, AlgoType
<1>3. Live = {} /\ Raised = {} /\ late = {}
  BY <1>1, <1>2, AllReturned
<1>4. Phases' = Phases /\ Live' = Live /\ Raised' = Raised /\ InCall' = InCall
  BY <1>1 DEF Phases, Live, Raised, InCall
<1>5. Gathered'
  BY <1>1, <1>4 DEF Gathered, Width
<1>6. AlgoType'
  BY <1>1, <1>4, ChosenBest DEF AlgoInv, AlgoType, Running
<1>7. BranchesFit'
  BY <1>1, <1>4 DEF AlgoInv, BranchesFit, FitsIn, AttemptOK, RefineOK, CallOK, Unstarted
<1>8. Ended' /\ StraysOnlyOfFailure'
  BY <1>1, <1>3, <1>4, <1>5 DEF Ended, StraysOnlyOfFailure
<1>9. BestKept'
  BY <1>1, ChosenBest DEF BestKept
<1>10. PermitsCounted'
  BY <1>1, <1>4 DEF AlgoInv, PermitsCounted
<1>11. QED
  BY <1>6, <1>7, <1>8, <1>9, <1>10 DEF AlgoInv

LEMMA AlgoBegins == Init => AlgoInv
<1> SUFFICES ASSUME Init PROVE AlgoInv
  OBVIOUS
<1>1. \A i \in Branch : branch[i] = Fresh
  BY DEF Init
<1>2. Fresh \in Item /\ Unstarted(Fresh)
  BY AlgoNumbers DEF Fresh, Item, States, Unstarted
<1>3. branch \in [Branch -> Item] /\ BranchesFit
  BY <1>1, <1>2 DEF Init, BranchesFit, FitsIn
<1>4. Live = {} /\ Raised = {} /\ InCall = {}
  BY <1>1, <1>2 DEF Live, Raised, InCall, Calls, Unstarted
<1>5. AlgoType
  BY <1>3, PhaseNames, AlgoNumbers DEF Init, AlgoType
<1>6. Ended /\ StraysOnlyOfFailure /\ BestKept
  BY DEF Init, Ended, StraysOnlyOfFailure, BestKept, Running
<1>7. PermitsCounted
  BY <1>4, AlgoNumbers, FS_EmptySet DEF Init, PermitsCounted
<1>8. QED
  BY <1>3, <1>5, <1>6, <1>7 DEF AlgoInv

LEMMA AlgoInductive == AlgoInv /\ [Next]_algovars => AlgoInv'
<1> SUFFICES ASSUME AlgoInv, [Next]_algovars PROVE AlgoInv'
  OBVIOUS
<1>1. CASE Coordinate
  BY <1>1, BeginKeeps, UnbegunKeeps, NextPhaseKeeps, FinishKeeps, FailKeeps DEF Coordinate
<1>2. CASE Cancel
  BY <1>2, CancelKeeps
<1>3. ASSUME NEW i \in Branch, Advance(i) PROVE AlgoInv'
  BY <1>3, AdmitKeeps, ReturnKeeps, RaiseKeeps DEF Advance
<1>4. CASE UNCHANGED algovars
  <2>1. Phases' = Phases /\ Live' = Live /\ Raised' = Raised /\ InCall' = InCall
    BY <1>4 DEF algovars, Phases, Live, Raised, InCall
  <2>2. AlgoType'
    BY <1>4, <2>1 DEF algovars, AlgoInv, AlgoType, Running
  <2>3. BranchesFit'
    BY <1>4, <2>1 DEF algovars, AlgoInv, BranchesFit, FitsIn, AttemptOK, RefineOK, CallOK, Unstarted
  <2>4. Ended'
    BY <1>4, <2>1 DEF algovars, AlgoInv, Ended, Gathered, Width
  <2>5. BestKept'
    BY <1>4 DEF algovars, AlgoInv, BestKept
  <2>6. StraysOnlyOfFailure' /\ PermitsCounted'
    BY <1>4, <2>1 DEF algovars, AlgoInv, StraysOnlyOfFailure, PermitsCounted, Running
  <2>7. QED
    BY <2>2, <2>3, <2>4, <2>5, <2>6 DEF AlgoInv
<1>5. QED
  BY <1>1, <1>2, <1>3, <1>4 DEF Next

\* The invariant gives what the runs check.
LEMMA AlgoInvSound == AlgoInv => AlgorithmsSound
<1> SUFFICES ASSUME AlgoInv PROVE AlgorithmsSound
  OBVIOUS
<1>1. \A i \in Branch : branch[i] \in Item /\ FitsIn(i, branch[i], phase)
  BY DEF AlgoInv, AlgoType, BranchesFit
<1>2. SweepBounded /\ permits \in 0 .. Concurrency
  <2>1. Cardinality(InCall) \in Nat /\ Concurrency \in Nat /\ permits \in Nat
    BY CallsCounted, AlgoNumbers DEF AlgoInv, AlgoType
  <2>2. SweepBounded
    BY DEF AlgoInv, PermitsCounted, SweepBounded, InCall
  <2>3. QED
    BY <2>1, <2>2 DEF AlgoInv, PermitsCounted
<1>3. TypeOK
  <2>1. \A i \in Branch : /\ branch[i].at \in Calls \cup {"idle", "queued", "ok", "raised", "cancelled"}
                          /\ branch[i].iter \in 0 .. MaxIter /\ branch[i].draft \in 0 .. MaxIter + 1
    BY <1>1 DEF Item, States
  <2>2. \A k \in DOMAIN kept : kept[k] \in Branch
    BY DEF AlgoInv, AlgoType
  <2>3. QED
    BY <1>2, <2>1, <2>2 DEF TypeOK, AlgoInv, AlgoType
<1>4. VerdictIsOfLastDraft
  <2>1. SUFFICES ASSUME over = "algo_end", phase > 0
        PROVE  /\ Raised = {}
               /\ (judged /\ algo # "debate") =>
                    \A i \in Width(phase) : branch[i].seen = branch[i].draft /\ branch[i].draft > 0
    BY DEF VerdictIsOfLastDraft
  <2>2. Raised = {} /\ phase = Len(Phases) /\ Gathered
    BY <2>1 DEF AlgoInv, Ended
  <2>3. ASSUME judged, algo # "debate", NEW i \in Width(phase)
        PROVE  branch[i].seen = branch[i].draft /\ branch[i].draft > 0
    <3>1. i \in Branch /\ branch[i].at = "ok" /\ phase # 0 /\ phase \in 1 .. Len(Phases)
      BY <2>1, <2>2, <2>3, PhaseNames, AlgoNumbers DEF Gathered, Width, AlgoInv, AlgoType
    <3>2. FitsIn(i, branch[i], phase)
      BY <1>1, <3>1
    <3>3. CASE algo = "auto"
      BY <3>1, <3>2, <3>3 DEF FitsIn, AttemptOK
    <3>4. CASE algo = "refine"
      BY <3>1, <3>2, <3>4 DEF FitsIn, RefineOK, Unstarted
    <3>5. CASE algo \in {"beam", "sweep"}
      <4>1. Len(Phases) = 2 /\ Phases[phase] = "judge"
        BY <2>2, <2>3, <3>1, <3>5, PhaseNames DEF AlgoInv, AlgoType
      <4>2. CallOK(i, branch[i], "judge")
        BY <3>1, <3>2, <3>5, <4>1 DEF FitsIn
      <4>3. QED
        BY <3>1, <4>2 DEF CallOK
    <3>6. QED
      BY <2>3, <3>3, <3>4, <3>5 DEF AlgoInv, AlgoType, Algos
  <2>4. QED
    BY <2>2, <2>3
<1>5. QED
  BY <1>2, <1>3, <1>4 DEF AlgoInv, AlgorithmsSound

\* An algorithm that ends has gathered every task, returns the best judged drafts
\* and leaves calls behind only after a failure, which in a Sweep stay within its
\* concurrency (auto_research.py, beam.py, sweep.py, debate.py, self_refine.py).
THEOREM AlgorithmsAlwaysSound == Spec => []AlgorithmsSound
<1>1. Init => AlgoInv
  BY AlgoBegins
<1>2. AlgoInv /\ [Next]_algovars => AlgoInv'
  BY AlgoInductive
<1>3. AlgoInv => AlgorithmsSound
  BY AlgoInvSound
<1>4. QED
  BY <1>1, <1>2, <1>3, PTL DEF Spec

-----------------------------------------------------------------------------
(* A generation of EvoGradient                                             *)

Lineage == 1 .. Lineages + 1
Indiv   == [fit : Nat, id : Lineage, parent : Lineage]
Task    == [at : {"off", "build", "ok"}, tries : Nat, child : Indiv]

EvoType ==
  /\ root \in Nat /\ population \in {<<>>} \cup [Slot -> Indiv]
  /\ nextId \in Lineage /\ origins \subseteq 1 .. nextId - 1
  /\ generation \in Nat /\ announced \in Nat
  /\ stage \in {"idle", "seed", "fresh", "evaluate", "refill", "write"}
  /\ parents \in [Slot -> Indiv] /\ task \in [Slot -> Task]

\* The individuals of the population are told apart by lineages on record.
Registered ==
  population # <<>> =>
    /\ \A i \in Slot : population[i].id \in origins
    /\ \A i, j \in Slot : i # j => population[i].id # population[j].id
    /\ stage = "write" =>
         \A i \in Half + 1 .. Size : \E j \in 1 .. Half : population[i].parent = population[j].id

\* And so are the mutants of the current gather, from them and from each other.
Newborn ==
  /\ ~Building => \A i \in Slot : task[i].at = "off"
  /\ \A i \in Slot : task[i].at = "ok" =>
       /\ task[i].child.id \in origins /\ task[i].child.parent = parents[i].id
       /\ population # <<>> => \A j \in Slot : population[j].id # task[i].child.id
  /\ \A i, j \in Slot : task[i].at = "ok" /\ task[j].at = "ok" /\ i # j =>
       task[i].child.id # task[j].child.id

\* Survivors lead the parents, the best first, and the others are taken from them.
Selected ==
  stage = "refill" =>
    /\ \A i \in 1 .. Half : \E m \in Slot : parents[i] = population[m]
    /\ \A i, j \in 1 .. Half : i # j => parents[i].id # parents[j].id
    /\ \A i \in Half + 1 .. Size : \E j \in 1 .. Half : parents[i] = parents[j]
    /\ \A m \in Slot : parents[1].fit >= population[m].fit

\* The population and the root at each stage of a step.
Staged ==
  /\ stage \in {"seed", "fresh"} => population = <<>>
  /\ stage \in {"evaluate", "refill", "write"} => population # <<>>
  /\ generation > 0 => population # <<>>
  /\ generation > 0 \/ stage = "write" => \E m \in Slot : population[m].fit >= root
  /\ generation \in {announced, announced + 1}
  /\ stage \in {"refill", "write"} => generation = announced

EvoInv == EvoType /\ Registered /\ Newborn /\ Selected /\ Staged

\* The parameters are numbers; half of the population is neither empty nor all of it.
LEMMA EvoNumbers ==
  /\ Size \in Nat /\ Half \in Nat /\ 1 <= Half /\ Half < Size
  /\ Lineages \in Nat \ {0} /\ MutRetries \in Nat /\ Fitness \subseteq Nat
  /\ 1 \in Slot /\ 1 .. Half \subseteq Slot /\ Half + 1 .. Size \subseteq Slot
  /\ \A i \in Slot : i \in Nat /\ (i <= Half => i \in 1 .. Half) /\ (i > Half => i \in Half + 1 .. Size)
<1>1. Size \in Nat /\ Size >= 2 /\ Lineages \in Nat \ {0} /\ MutRetries \in Nat /\ Fitness \subseteq Nat
  BY EvolutionAssumption
<1>2. Size \div 2 \in Nat /\ Size \div 2 < Size
  BY <1>1
<1>3. Half \in Nat /\ 1 <= Half /\ Half < Size
  BY <1>1, <1>2 DEF Half
<1>4. QED
  BY <1>1, <1>3 DEF Slot

\* The survivors are members of the population, all different and the best first.
LEMMA SurvivorsBest ==
  ASSUME population \in [Slot -> Indiv]
  PROVE  /\ \A k \in 1 .. Half : \E m \in Slot : Survivors[k] = population[m]
         /\ \A m \in Slot : Survivors[1].fit >= population[m].fit
         /\ (\A i, j \in Slot : i # j => population[i].id # population[j].id) =>
              \A k, l \in 1 .. Half : k # l => Survivors[k].id # Survivors[l].id
<1> DEFINE R == {e \in Slot \X Slot : Better(e[1], e[2])}
           ahead == [i \in Slot |-> {j \in Slot : Better(j, i)}]
           place == [i \in Slot |-> Rank(i)]
           pick(k) == CHOOSE i \in Slot : Rank(i) = k
<1>0. \A i \in Slot : population[i].fit \in Nat
  BY DEF Indiv
<1>1. Size \in Nat /\ Slot \subseteq Int /\ IsFiniteSet(Slot) /\ Cardinality(Slot) = Size
  BY EvoNumbers, FS_Interval DEF Slot
<1>2. \A i, j \in Slot : <<i, j>> \in R <=> Better(i, j)
  OBVIOUS
<1>3. /\ place \in [Slot -> Nat] /\ \A i \in Slot : place[i] = Rank(i)
      /\ \A i \in Slot : place[i] = Cardinality(ahead[i]) + 1
      /\ \A i \in Slot : \A j : j \in ahead[i] <=> j \in Slot /\ <<j, i>> \in R
  <2>1. \A i \in Slot : ahead[i] \subseteq Slot
    OBVIOUS
  <2>2. \A i \in Slot : Cardinality(ahead[i]) \in Nat
    <3> HIDE DEF ahead
    <3> QED  BY <1>1, <2>1, FS_Subset, FS_CardinalityType
  <2>3. \A i \in Slot : Rank(i) = Cardinality(ahead[i]) + 1
    BY DEF Rank
  <2>4. place \in [Slot -> Nat] /\ \A i \in Slot : place[i] = Rank(i)
    <3> HIDE DEF ahead
    <3> QED  BY <2>2, <2>3
  <2>5. \A i \in Slot : \A j : j \in ahead[i] <=> j \in Slot /\ <<j, i>> \in R
    OBVIOUS
  <2>6. QED
    <3> HIDE DEF ahead, place, R
    <3> QED  BY <2>3, <2>4, <2>5
<1>4. \A i \in Slot : <<i, i>> \notin R
  BY <1>0, <1>1, <1>2 DEF Better
<1>5. \A i, j \in Slot : i # j => <<i, j>> \in R \/ <<j, i>> \in R
  BY <1>0, <1>1, <1>2 DEF Better
<1>6. \A i, j, k \in Slot : <<i, j>> \in R /\ <<j, k>> \in R => <<i, k>> \in R
  <2>1. ASSUME NEW i \in Slot, NEW j \in Slot, NEW k \in Slot, Better(i, j), Better(j, k)
        PROVE  Better(i, k)
    <3>1. /\ population[i].fit \in Nat /\ population[j].fit \in Nat /\ population[k].fit \in Nat
          /\ i \in Int /\ j \in Int /\ k \in Int
      BY <1>0, <1>1
    <3>2. QED
      BY ONLY <2>1, <3>1 DEF Better
  <2>2. QED
    <3> HIDE DEF R
    <3> QED  BY <1>2, <2>1
<1> HIDE DEF R, place, ahead
<1>7. /\ \A i, j \in Slot : <<i, j>> \in R => place[i] < place[j]
      /\ \A i \in Slot : place[i] \in 1 .. Cardinality(Slot)
      /\ \A k \in 1 .. Cardinality(Slot) : \E i \in Slot : place[i] = k
  <2>1. Ordered(Slot, R, ahead, place)
    BY <1>1, <1>3, <1>4, <1>5, <1>6 DEF Ordered
  <2>2. Placed(Slot, R, place)
    BY <2>1, PlacesTaken, Zenon
  <2>3. QED
    BY <2>2 DEF Placed
<1>8. ASSUME NEW k \in 1 .. Half
      PROVE  pick(k) \in Slot /\ place[pick(k)] = k /\ Survivors[k] = population[pick(k)]
  <2>1. k \in 1 .. Cardinality(Slot)
    BY <1>1, EvoNumbers
  <2>2. \E i \in Slot : Rank(i) = k
    BY <1>3, <1>7, <2>1
  <2>3. pick(k) \in Slot /\ Rank(pick(k)) = k
    BY <2>2, Zenon
  <2>4. Survivors[k] = population[pick(k)]
    BY DEF Survivors
  <2>5. QED
    BY <1>3, <2>3, <2>4
<1> HIDE DEF pick
<1>9. \A m \in Slot : Survivors[1].fit >= population[m].fit
  <2>1. 1 \in 1 .. Half
    BY EvoNumbers
  <2>2. pick(1) \in Slot /\ place[pick(1)] = 1 /\ Survivors[1] = population[pick(1)]
    BY <1>8, <2>1
  <2>3. SUFFICES ASSUME NEW m \in Slot, m # pick(1) PROVE population[pick(1)].fit >= population[m].fit
    BY <1>0, <2>2
  <2>4. place[m] >= 1 /\ place[m] \in Nat
    BY <1>1, <1>7
  <2>5. ~(place[m] < place[pick(1)])
    BY <2>2, <2>4
  <2>6. Better(pick(1), m)
    BY <1>2, <1>5, <1>7, <2>2, <2>3, <2>5
  <2>7. QED
    BY <1>0, <2>2, <2>6 DEF Better
<1>10. ASSUME \A i, j \in Slot : i # j => population[i].id # population[j].id,
              NEW k \in 1 .. Half, NEW l \in 1 .. Half, k # l
       PROVE  Survivors[k].id # Survivors[l].id
  <2>1. pick(k) # pick(l)
    BY <1>8, <1>10
  <2>2. QED
    BY <1>8, <1>10, <2>1
<1>11. QED
  BY <1>8, <1>9, <1>10

\* What starts a task, and what ends it.
LEMMA TaskRecords ==
  /\ NoItem \in Indiv /\ NoTask \in Task /\ NoTask.at = "off"
  /\ Started \in Task /\ Started.at = "build"
<1>1. NoItem \in Indiv
  BY EvoNumbers DEF NoItem, NoParent, Indiv, Lineage
<1>2. NoTask \in Task /\ NoTask.at = "off"
  BY <1>1 DEF NoTask, Task
<1>3. Started = [at |-> "build", tries |-> MutRetries, child |-> NoItem]
  <2>1. NoTask = [at |-> "off", tries |-> 0, child |-> NoItem]
    BY DEF NoTask
  <2>2. Started = [NoTask EXCEPT !.at = "build", !.tries = MutRetries]
    BY DEF Started
  <2>3. QED
    BY <2>1, <2>2
<1>4. QED
  BY <1>1, <1>2, <1>3, EvoNumbers DEF Task

\* A mutant is built, or a clone stands in for it: it is the only one of its lineage.
LEMMA BirthKeeps ==
  ASSUME EvoInv, NEW i \in Slot, NEW fit \in Nat, Building, nextId <= Lineages,
         task' = [task EXCEPT ![i].at = "ok", ![i].child = Child(parents[i], fit)],
         origins' = origins \cup {nextId}, nextId' = nextId + 1,
         UNCHANGED <<root, population, generation, stage, parents, announced>>
  PROVE  EvoInv'
<1> DEFINE c == Child(parents[i], fit)
<1>1. /\ EvoType /\ task \in [Slot -> Task] /\ parents \in [Slot -> Indiv] /\ nextId \in Nat /\ nextId >= 1
      /\ Lineages \in Nat /\ origins \subseteq 1 .. nextId - 1
  BY EvoNumbers DEF EvoInv, EvoType, Lineage
<1>2. c \in Indiv /\ c.id = nextId /\ c.parent = parents[i].id
  BY <1>1 DEF Child, Indiv, Lineage
<1> HIDE DEF c
<1>3. /\ task' \in [Slot -> Task]
      /\ task'[i].at = "ok" /\ task'[i].child = c
      /\ \A j \in Slot : j # i => task'[j] = task[j]
  <2>1. task' = [task EXCEPT ![i] = [task[i] EXCEPT !.at = "ok", !.child = c]]
    BY DEF c
  <2>2. task[i] \in Task
    BY <1>1
  <2>3. /\ [task[i] EXCEPT !.at = "ok", !.child = c] = [at |-> "ok", tries |-> task[i].tries, child |-> c]
        /\ task[i].tries \in Nat
    <3>1. /\ task[i] = [at |-> task[i].at, tries |-> task[i].tries, child |-> task[i].child]
          /\ task[i].tries \in Nat
      BY <2>2 DEF Task
    <3> DEFINE t == task[i]
    <3>2. t = [at |-> t.at, tries |-> t.tries, child |-> t.child]
      BY <3>1
    <3> HIDE DEF t
    <3> DEFINE r == [t EXCEPT !.at = "ok", !.child = c]
    <3>3. r = [t EXCEPT !.at = "ok", !.child = c]
      OBVIOUS
    <3> HIDE DEF r
    <3>4. r = [at |-> "ok", tries |-> t.tries, child |-> c]
      BY <3>2, <3>3
    <3>5. QED
      BY <3>1, <3>4 DEF r, t
  <2>4. [task[i] EXCEPT !.at = "ok", !.child = c] \in Task
    BY <1>2, <2>3 DEF Task
  <2>5. QED
    BY <1>1, <2>1, <2>3, <2>4
<1>4. origins' \subseteq 1 .. nextId' - 1 /\ nextId' \in Lineage /\ nextId \notin origins
  BY <1>1 DEF Lineage
<1>5. EvoType'
  BY <1>1, <1>3, <1>4 DEF EvoType, Slot, Indiv, Task
<1>6. Registered'
  BY DEF EvoInv, Registered
<1>7. Newborn'
  <2>1. \A j \in Slot : task[j].at = "ok" => task[j].child.id \in origins
    BY DEF EvoInv, Newborn
  <2>2. population # <<>> => \A j \in Slot : population[j].id # nextId
    BY <1>4 DEF EvoInv, Registered
  <2>3. \A j \in Slot : task'[j].at = "ok" =>
          /\ task'[j].child.id \in origins' /\ task'[j].child.parent = parents'[j].id
          /\ population' # <<>> => \A m \in Slot : population'[m].id # task'[j].child.id
    BY <1>2, <1>3, <2>2 DEF EvoInv, Newborn
  <2>4. \A j, k \in Slot : task'[j].at = "ok" /\ task'[k].at = "ok" /\ j # k =>
          task'[j].child.id # task'[k].child.id
    BY <1>2, <1>3, <1>4, <2>1 DEF EvoInv, Newborn
  <2>5. Building'
    BY DEF Building
  <2>6. QED
    BY <2>3, <2>4, <2>5 DEF Newborn
<1>8. Selected' /\ Staged'
  BY DEF EvoInv, Selected, Staged
<1>9. QED
  BY <1>5, <1>6, <1>7, <1>8 DEF EvoInv

LEMMA BuildRefusedKeeps ==
  ASSUME EvoInv, NEW i \in Slot, BuildRefused(i)
  PROVE  EvoInv'
<1>1. /\ task[i].at = "build" /\ task[i].tries > 0 /\ task' = [task EXCEPT ![i].tries = @ - 1]
      /\ UNCHANGED <<root, population, origins, nextId, generation, stage, parents, strays, announced>>
  BY DEF BuildRefused
<1>2. task \in [Slot -> Task] /\ task[i] \in Task
  BY DEF EvoInv, EvoType
<1>3. /\ task' \in [Slot -> Task]
      /\ \A j \in Slot : task'[j].at = task[j].at /\ task'[j].child = task[j].child
  <2> DEFINE r == [task[i] EXCEPT !.tries = @ - 1]
  <2>1. r = [at |-> task[i].at, tries |-> task[i].tries - 1, child |-> task[i].child]
    BY <1>2 DEF Task
  <2>2. task[i].tries - 1 \in Nat /\ task[i].at \in {"off", "build", "ok"} /\ task[i].child \in Indiv
    BY <1>1, <1>2 DEF Task
  <2>3. task' = [task EXCEPT ![i] = r]
    BY <1>1
  <2> HIDE DEF r
  <2>4. r \in Task
    BY <2>1, <2>2 DEF Task
  <2>5. QED
    BY <1>2, <2>1, <2>3, <2>4
<1>4. EvoType'
  BY <1>1, <1>3 DEF EvoInv, EvoType
<1>5. Registered' /\ Selected' /\ Staged'
  BY <1>1 DEF EvoInv, Registered, Selected, Staged
<1>6. Newborn'
  BY <1>1, <1>3 DEF EvoInv, Newborn, Building
<1>7. QED
  BY <1>4, <1>5, <1>6 DEF EvoInv

LEMMA StrayBuildsKeeps ==
  ASSUME EvoInv, StrayBuilds
  PROVE  EvoInv'
<1>1. /\ nextId <= Lineages /\ origins' = origins \cup {nextId} /\ nextId' = nextId + 1
      /\ UNCHANGED <<root, population, generation, stage, parents, task, announced>>
  BY DEF StrayBuilds
<1>2. nextId \in Nat /\ nextId >= 1 /\ Lineages \in Nat /\ origins \subseteq 1 .. nextId - 1
  BY EvoNumbers DEF EvoInv, EvoType, Lineage
<1>3. origins' \subseteq 1 .. nextId' - 1 /\ nextId' \in Lineage
  BY <1>1, <1>2 DEF Lineage
<1>4. EvoType'
  BY <1>1, <1>3 DEF EvoInv, EvoType
<1>5. Registered' /\ Selected' /\ Staged' /\ Newborn'
  BY <1>1 DEF EvoInv, Registered, Selected, Staged, Newborn, Building
<1>6. QED
  BY <1>4, <1>5 DEF EvoInv

\* A population is not empty.
LEMMA Peopled ==
  /\ \A f \in [Slot -> Indiv] : f # <<>>
  /\ EvoType => (population # <<>> <=> population \in [Slot -> Indiv])
<1>1. ASSUME NEW f \in [Slot -> Indiv] PROVE f # <<>>
  <2>1. 1 \in DOMAIN f
    BY EvoNumbers
  <2>2. 1 \notin DOMAIN <<>>
    OBVIOUS
  <2>3. QED
    BY <2>1, <2>2
<1>2. QED
  BY <1>1 DEF EvoType

LEMMA GenerateKeeps ==
  ASSUME EvoInv, Generate
  PROVE  EvoInv'
<1>1. /\ stage = "idle" /\ stage' = (IF population = <<>> THEN "seed" ELSE "evaluate")
      /\ UNCHANGED <<root, population, origins, nextId, generation, parents, task, strays, announced>>
  BY DEF Generate
<1>2. EvoType'
  BY <1>1 DEF EvoInv, EvoType
<1>3. Registered' /\ Selected' /\ Staged'
  BY <1>1 DEF EvoInv, EvoType, Registered, Selected, Staged
<1>4. Newborn'
  BY <1>1 DEF EvoInv, Newborn, Building
<1>5. QED
  BY <1>2, <1>3, <1>4 DEF EvoInv

LEMMA SeededKeeps ==
  ASSUME EvoInv, Seeded
  PROVE  EvoInv'
<1>1. /\ stage = "seed" /\ stage' = "fresh"
      /\ parents' = [i \in Slot |-> RootItem] /\ task' = [i \in Slot |-> Started]
      /\ UNCHANGED <<root, population, origins, nextId, generation, strays, announced>>
  BY DEF Seeded
<1>2. RootItem \in Indiv
  BY EvoNumbers DEF EvoInv, EvoType, RootItem, NoParent, Indiv, Lineage
<1>3. EvoType'
  <2>1. parents' \in [Slot -> Indiv] /\ task' \in [Slot -> Task]
    BY <1>1, <1>2, TaskRecords
  <2>2. QED
    BY <1>1, <2>1 DEF EvoInv, EvoType
<1>4. population = <<>> /\ Registered' /\ Selected' /\ Staged'
  BY <1>1 DEF EvoInv, Registered, Selected, Staged
<1>5. Newborn'
  <2>1. \A i \in Slot : task'[i].at = "build"
    BY <1>1, TaskRecords
  <2>2. Building'
    BY <1>1 DEF Building
  <2>3. QED
    BY <2>1, <2>2 DEF Newborn
<1>6. QED
  BY <1>3, <1>4, <1>5 DEF EvoInv

\* The tasks of a gather are over.
LEMMA TasksEnd ==
  ASSUME TasksDone
  PROVE  /\ parents' \in [Slot -> Indiv] /\ task' \in [Slot -> Task]
         /\ \A i \in Slot : task'[i].at = "off"
         /\ Newborn'
<1>1. /\ parents' \in [Slot -> Indiv] /\ task' \in [Slot -> Task]
      /\ \A i \in Slot : task'[i].at = "off"
  BY TaskRecords DEF TasksDone
<1>2. Newborn'
  BY <1>1 DEF Newborn
<1>3. QED
  BY <1>1, <1>2

LEMMA FirstPopulationKeeps ==
  ASSUME EvoInv, FirstPopulation
  PROVE  EvoInv'
<1>1. /\ stage = "fresh" /\ (\A i \in Slot : task[i].at = "ok")
      /\ population' = [i \in Slot |-> task[i].child] /\ TasksDone /\ stage' = "evaluate"
      /\ UNCHANGED <<root, origins, nextId, generation, strays, announced>>
  BY DEF FirstPopulation
<1>2. population' \in [Slot -> Indiv] /\ \A i \in Slot : population'[i] = task[i].child
  BY <1>1 DEF EvoInv, EvoType, Task
<1>3. population' # <<>>
  BY <1>2, Peopled
<1>4. EvoType'
  BY <1>1, <1>2, TasksEnd DEF EvoInv, EvoType
<1>5. Registered'
  BY <1>1, <1>2 DEF EvoInv, Newborn, Registered
<1>6. Staged'
  BY <1>1, <1>3 DEF EvoInv, EvoType, Staged
<1>7. Newborn' /\ Selected'
  BY <1>1, TasksEnd DEF Selected
<1>8. QED
  BY <1>4, <1>5, <1>6, <1>7 DEF EvoInv

LEMMA EvaluatedKeeps ==
  ASSUME EvoInv, Evaluated
  PROVE  EvoInv'
<1> DEFINE turn(i) == ((i - Half - 1) % Half) + 1
<1>1. /\ stage = "evaluate" /\ stage' = "refill" /\ announced' = generation
      /\ parents' = [i \in Slot |-> IF i <= Half THEN Survivors[i] ELSE Survivors[turn(i)]]
      /\ task' = [i \in Slot |-> IF i > Half THEN Started ELSE NoTask]
      /\ UNCHANGED <<root, population, origins, nextId, generation, strays>>
  BY DEF Evaluated
<1>2. population # <<>> /\ population \in [Slot -> Indiv]
  BY <1>1, Peopled DEF EvoInv, Staged
<1>3. /\ \A k \in 1 .. Half : \E m \in Slot : Survivors[k] = population[m]
      /\ \A m \in Slot : Survivors[1].fit >= population[m].fit
      /\ \A k, l \in 1 .. Half : k # l => Survivors[k].id # Survivors[l].id
  BY <1>2, SurvivorsBest DEF EvoInv, Registered
<1>4. ASSUME NEW i \in Half + 1 .. Size PROVE turn(i) \in 1 .. Half
  <2>1. i - Half - 1 \in Nat /\ Half \in Nat /\ Half > 0
    BY EvoNumbers
  <2>2. \A x \in Nat, y \in Nat : y > 0 => x % y \in 0 .. y - 1
    OBVIOUS
  <2>3. (i - Half - 1) % Half \in 0 .. Half - 1
    BY <2>1, <2>2
  <2>4. QED
    BY <2>1, <2>3
<1> HIDE DEF turn
<1>5. /\ \A i \in 1 .. Half : parents'[i] = Survivors[i]
      /\ \A i \in Half + 1 .. Size : parents'[i] = Survivors[turn(i)]
  <2>1. \A i \in 1 .. Half : i \in Slot /\ i <= Half
    BY EvoNumbers
  <2>2. \A i \in Half + 1 .. Size : i \in Slot /\ ~(i <= Half)
    BY EvoNumbers
  <2>3. QED
    BY <1>1, <2>1, <2>2
<1>6. parents' \in [Slot -> Indiv]
  <2>1. \A k \in 1 .. Half : Survivors[k] \in Indiv
    BY <1>2, <1>3
  <2>2. ASSUME NEW i \in Slot PROVE parents'[i] \in Indiv
    BY <1>4, <1>5, <2>1, EvoNumbers
  <2>3. parents' = [i \in Slot |-> parents'[i]]
    BY <1>1
  <2>4. QED
    BY <2>2, <2>3
<1>7. /\ task' \in [Slot -> Task] /\ \A i \in Slot : task'[i].at \in {"build", "off"}
  BY <1>1, TaskRecords
<1>8. EvoType'
  BY <1>1, <1>6, <1>7 DEF EvoInv, EvoType
<1>9. Registered'
  BY <1>1 DEF EvoInv, Registered
<1>10. Newborn'
  BY <1>1, <1>7 DEF Newborn, Building
<1>11. Selected'
  <2>1. \A i \in Half + 1 .. Size : \E j \in 1 .. Half : parents'[i] = parents'[j]
    BY <1>4, <1>5
  <2>2. parents'[1].fit = Survivors[1].fit
    BY <1>5, EvoNumbers
  <2>3. QED
    BY <1>1, <1>3, <1>5, <2>1, <2>2 DEF Selected
<1>12. Staged'
  BY <1>1, <1>2 DEF EvoInv, EvoType, Staged
<1>13. QED
  BY <1>8, <1>9, <1>10, <1>11, <1>12 DEF EvoInv

\* The refilled population, its lineages and its best.
LEMMA RefilledIs ==
  ASSUME EvoInv, Refilled
  PROVE  /\ population' \in [Slot -> Indiv] /\ population \in [Slot -> Indiv]
         /\ \A i \in 1 .. Half : population'[i] = parents[i]
         /\ \A i \in Half + 1 .. Size : population'[i] = task[i].child /\ task[i].at = "ok"
         /\ origins' = {population'[i].id : i \in Slot} /\ origins' \subseteq origins
         /\ root' = parents[1].fit /\ population'[1].fit = root'
<1>1. /\ stage = "refill" /\ \A i \in Half + 1 .. Size : task[i].at = "ok"
      /\ population' = [i \in Slot |-> IF i <= Half THEN parents[i] ELSE task[i].child]
      /\ origins' = Provenance(population') /\ root' = FittestOf(population')
  BY DEF Refilled
<1>2. population \in [Slot -> Indiv]
  BY <1>1, Peopled DEF EvoInv, Staged
<1>3. \A i \in 1 .. Half : population'[i] = parents[i]
  <2>1. \A i \in 1 .. Half : i \in Slot /\ i <= Half
    BY EvoNumbers
  <2>2. QED
    BY <1>1, <2>1
<1>4. \A i \in Half + 1 .. Size : population'[i] = task[i].child /\ task[i].at = "ok"
  <2>1. \A i \in Half + 1 .. Size : i \in Slot /\ ~(i <= Half)
    BY EvoNumbers
  <2>2. QED
    BY <1>1, <2>1
<1>5. population' \in [Slot -> Indiv]
  <2>1. \A i \in Slot : parents[i] \in Indiv /\ task[i].child \in Indiv
    BY DEF EvoInv, EvoType, Task
  <2>2. QED
    BY <1>1, <2>1
<1>6. origins' = {population'[i].id : i \in Slot}
  BY <1>1 DEF Provenance
<1>7. ASSUME NEW i \in Slot PROVE population'[i].id \in origins
  <2>1. CASE i \in 1 .. Half
    BY <1>1, <1>2, <1>3, <2>1, Peopled DEF EvoInv, Selected, Registered
  <2>2. CASE i \in Half + 1 .. Size
    BY <1>4, <2>2 DEF EvoInv, Newborn
  <2>3. QED
    BY <2>1, <2>2, EvoNumbers
<1>8. root' = parents[1].fit /\ population'[1].fit = root'
  BY <1>1, <1>3, EvoNumbers DEF FittestOf
<1>9. QED
  BY <1>2, <1>3, <1>4, <1>5, <1>6, <1>7, <1>8

LEMMA RefilledKeeps ==
  ASSUME EvoInv, Refilled
  PROVE  EvoInv'
<1>1. /\ stage = "refill" /\ stage' = "write" /\ TasksDone
      /\ UNCHANGED <<nextId, generation, strays, announced>>
  BY DEF Refilled
<1>2. /\ population' \in [Slot -> Indiv] /\ population \in [Slot -> Indiv]
      /\ \A i \in 1 .. Half : population'[i] = parents[i]
      /\ \A i \in Half + 1 .. Size : population'[i] = task[i].child /\ task[i].at = "ok"
      /\ origins' = {population'[i].id : i \in Slot} /\ origins' \subseteq origins
      /\ root' = parents[1].fit /\ population'[1].fit = root'
  BY RefilledIs
<1>3. population' # <<>> /\ population # <<>>
  BY <1>2, Peopled
<1>4. Selected
  BY DEF EvoInv
<1>5. EvoType'
  <2>1. root' \in Nat
    BY <1>2, EvoNumbers DEF Indiv
  <2>2. QED
    BY <1>1, <1>2, <2>1, TasksEnd DEF EvoInv, EvoType
<1>6. Registered'
  <2>1. \A i \in Slot : population'[i].id \in origins'
    BY <1>2
  <2>2. ASSUME NEW i \in Slot, NEW j \in Slot, i # j PROVE population'[i].id # population'[j].id
    <3>1. ASSUME NEW k \in 1 .. Half, NEW l \in Half + 1 .. Size PROVE population'[k].id # population'[l].id
      <4>1. PICK m \in Slot : parents[k] = population[m]
        BY <1>1, <1>4 DEF Selected
      <4>2. l \in Slot
        BY EvoNumbers
      <4>3. population[m].id # task[l].child.id
        BY <1>2, <1>3, <4>2 DEF EvoInv, Newborn
      <4>4. QED
        BY <1>2, <4>1, <4>3
    <3>2. CASE i \in 1 .. Half /\ j \in 1 .. Half
      BY <1>1, <1>2, <1>4, <2>2, <3>2 DEF Selected
    <3>3. CASE i \in Half + 1 .. Size /\ j \in Half + 1 .. Size
      BY <1>2, <2>2, <3>3 DEF EvoInv, Newborn
    <3>4. QED
      BY <3>1, <3>2, <3>3, EvoNumbers
  <2>3. ASSUME NEW i \in Half + 1 .. Size
        PROVE  \E j \in 1 .. Half : population'[i].parent = population'[j].id
    <3>1. PICK j \in 1 .. Half : parents[i] = parents[j]
      BY <1>1, <1>4 DEF Selected
    <3>2. i \in Slot
      BY EvoNumbers
    <3>3. task[i].child.parent = parents[i].id
      BY <1>2, <3>2 DEF EvoInv, Newborn
    <3>4. QED
      BY <1>2, <3>1, <3>3
  <2>4. QED
    BY <2>1, <2>2, <2>3 DEF Registered
<1>7. Newborn' /\ Selected'
  BY <1>1, TasksEnd DEF Selected
<1>8. Staged'
  <2>1. 1 \in Slot /\ root' \in Nat /\ population'[1].fit >= root'
    BY <1>2, EvoNumbers DEF Indiv
  <2>2. QED
    BY <1>1, <1>3, <2>1 DEF EvoInv, Staged
<1>9. QED
  BY <1>5, <1>6, <1>7, <1>8 DEF EvoInv

LEMMA RebuiltKeeps ==
  ASSUME EvoInv, NEW built \in BOOLEAN, Rebuilt(built)
  PROVE  EvoInv'
<1>1. /\ stage = "write" /\ stage' = "idle"
      /\ generation' \in {generation, generation + 1}
      /\ UNCHANGED <<root, population, origins, nextId, parents, task, strays, announced>>
  BY DEF Rebuilt
<1>2. EvoType'
  BY <1>1 DEF EvoInv, EvoType
<1>3. Registered' /\ Selected'
  BY <1>1 DEF EvoInv, Registered, Selected
<1>4. Newborn'
  BY <1>1 DEF EvoInv, Newborn, Building
<1>5. Staged'
  BY <1>1 DEF EvoInv, EvoType, Staged
<1>6. QED
  BY <1>2, <1>3, <1>4, <1>5 DEF EvoInv

LEMMA GenerationFailsKeeps ==
  ASSUME EvoInv, NEW cancelled \in BOOLEAN, GenerationFails(cancelled)
  PROVE  EvoInv'
<1>1. /\ stage \in {"seed", "fresh", "evaluate", "refill"} /\ stage' = "idle" /\ TasksDone
      /\ UNCHANGED <<root, population, origins, nextId, generation, announced>>
  BY DEF GenerationFails, Unfilled
<1>2. EvoType'
  BY <1>1, TasksEnd DEF EvoInv, EvoType
<1>3. Registered' /\ Selected' /\ Newborn'
  BY <1>1, TasksEnd DEF EvoInv, Registered, Selected
<1>4. Staged'
  BY <1>1 DEF EvoInv, EvoType, Staged
<1>5. QED
  BY <1>2, <1>3, <1>4 DEF EvoInv

LEMMA EvoBegins == EvoInit => EvoInv
<1> SUFFICES ASSUME EvoInit PROVE EvoInv
  OBVIOUS
<1>1. EvoType
  BY EvoNumbers, TaskRecords DEF EvoInit, EvoType, Lineage
<1>2. \A i \in Slot : task[i].at = "off"
  BY TaskRecords DEF EvoInit
<1>3. Registered /\ Newborn /\ Selected /\ Staged
  BY <1>2 DEF EvoInit, Registered, Newborn, Selected, Staged
<1>4. QED
  BY <1>1, <1>3 DEF EvoInv

LEMMA EvoInductive == EvoInv /\ [EvoNext]_evovars => EvoInv'
<1> SUFFICES ASSUME EvoInv, [EvoNext]_evovars PROVE EvoInv'
  OBVIOUS
<1>1. ASSUME NEW i \in Slot, BuildRefused(i) PROVE EvoInv'
  BY <1>1, BuildRefusedKeeps
<1>2. ASSUME NEW i \in Slot, FallBack(i) PROVE EvoInv'
  <2>1. parents[i].fit \in Nat
    BY DEF EvoInv, EvoType, Indiv
  <2>2. QED
    BY <1>2, <2>1, BirthKeeps DEF FallBack
<1>3. ASSUME NEW i \in Slot, NEW f \in Fitness, Built(i, f) PROVE EvoInv'
  <2>1. f \in Nat
    BY EvoNumbers
  <2>2. QED
    BY <1>3, <2>1, BirthKeeps DEF Built
<1>4. CASE UNCHANGED evovars
  <2>1. EvoType'
    BY <1>4 DEF evovars, EvoInv, EvoType
  <2>2. Registered' /\ Selected' /\ Staged' /\ Newborn'
    BY <1>4 DEF evovars, EvoInv, Registered, Selected, Staged, Newborn, Building
  <2>3. QED
    BY <2>1, <2>2 DEF EvoInv
<1>5. QED
  BY <1>1, <1>2, <1>3, <1>4, StrayBuildsKeeps, GenerateKeeps, SeededKeeps, FirstPopulationKeeps,
     EvaluatedKeeps, RefilledKeeps, RebuiltKeeps, GenerationFailsKeeps DEF EvoNext

\* The population that the invariant describes is whole.
LEMMA WholePopulation == EvoInv => PopulationWhole
<1> SUFFICES ASSUME EvoInv, population # <<>>
             PROVE  /\ Len(population) = Size
                    /\ Cardinality({population[i].id : i \in Slot}) = Size
                    /\ \A i \in Slot : population[i].id \in origins
                    /\ stage = "write" =>
                         \A i \in Half + 1 .. Size :
                           population[i].parent \in {population[j].id : j \in 1 .. Half}
  BY DEF PopulationWhole
<1>1. population \in [Slot -> Indiv] /\ Size \in Nat
  BY Peopled, EvoNumbers DEF EvoInv
<1>2. Len(population) = Size
  BY <1>1 DEF Slot
<1>3. Cardinality({population[i].id : i \in Slot}) = Size
  <2> DEFINE ids == {population[i].id : i \in Slot}
             name == [i \in Slot |-> population[i].id]
  <2>1. IsFiniteSet(Slot) /\ Cardinality(Slot) = Size
    BY <1>1, FS_Interval DEF Slot
  <2>2. name \in [Slot -> ids] /\ \A i \in Slot : name[i] = population[i].id
    OBVIOUS
  <2>3. \A y \in ids : \E i \in Slot : name[i] = y
    BY <2>2
  <2>4. \A i, j \in Slot : i # j => name[i] # name[j]
    BY <2>2 DEF EvoInv, Registered
  <2> HIDE DEF ids, name
  <2>5. name \in Bijection(Slot, ids)
    <3>1. IsInjective(name)
      BY <2>2, <2>4 DEF IsInjective
    <3>2. QED
      BY <2>2, <2>3, <3>1 DEF Bijection, Injection, Surjection
  <2>6. Cardinality(ids) = Cardinality(Slot)
    BY <2>1, <2>5, FS_Surjection DEF Bijection
  <2>7. QED
    BY <2>1, <2>6 DEF ids
<1>4. QED
  BY <1>2, <1>3 DEF EvoInv, Registered

\* No step makes the root worse once a generation was written back.
LEMMA RootStep == EvoInv /\ [EvoNext]_evovars => (generation > 0 => root' >= root)
<1> SUFFICES ASSUME EvoInv, [EvoNext]_evovars, generation > 0 PROVE root' >= root
  OBVIOUS
<1>1. root \in Nat
  BY DEF EvoInv, EvoType
<1>2. CASE Refilled
  <2>1. root' = parents[1].fit /\ population \in [Slot -> Indiv] /\ stage = "refill"
    BY <1>2, RefilledIs DEF Refilled
  <2>2. PICK m \in Slot : population[m].fit >= root
    BY DEF EvoInv, Staged
  <2>3. parents[1].fit >= population[m].fit
    BY <2>1 DEF EvoInv, Selected
  <2>4. parents[1].fit \in Nat /\ population[m].fit \in Nat
    BY <2>1, EvoNumbers DEF EvoInv, EvoType, Indiv
  <2>5. QED
    BY <1>1, <2>1, <2>2, <2>3, <2>4
<1>3. CASE ~Refilled
  <2>1. root' = root
    BY <1>3 DEF EvoNext, evovars, BuildRefused, FallBack, Built, StrayBuilds, Generate, Seeded,
                FirstPopulation, Evaluated, Rebuilt, GenerationFails
  <2>2. QED
    BY <1>1, <2>1
<1>4. QED
  BY <1>2, <1>3

\* Only a generation that was not announced yet is announced anew.
LEMMA AnnounceStep == EvoInv /\ [EvoNext]_evovars => (announced' # announced => announced' = announced + 1)
<1> SUFFICES ASSUME EvoInv, [EvoNext]_evovars, announced' # announced PROVE announced' = announced + 1
  OBVIOUS
<1>1. Evaluated
  BY DEF EvoNext, evovars, BuildRefused, FallBack, Built, StrayBuilds, Generate, Seeded,
         FirstPopulation, Refilled, Rebuilt, GenerationFails
<1>2. QED
  BY <1>1 DEF Evaluated, EvoInv, Staged

\* EvoGradient replaces a whole population by a whole one, never writes a worse
\* individual onto the root after the first generation, and announces every
\* generation in its turn, whatever fails in between (evo.py).
THEOREM EvolutionAlwaysSound == EvoSpec => EvolutionSound
<1>1. EvoInit => EvoInv
  BY EvoBegins
<1>2. EvoInv /\ [EvoNext]_evovars => EvoInv'
  BY EvoInductive
<1>3. EvoInv /\ EvoInv' /\ [EvoNext]_evovars => [PopulationWhole']_evovars
  <2>1. EvoInv => PopulationWhole
    BY WholePopulation
  <2>2. QED
    BY <2>1, PTL
<1>4. EvoInv /\ [EvoNext]_evovars => [generation > 0 => root' >= root]_evovars
  BY RootStep
<1>5. EvoInv /\ [EvoNext]_evovars => [announced' # announced => announced' = announced + 1]_evovars
  BY AnnounceStep
<1>6. QED
  BY <1>1, <1>2, <1>3, <1>4, <1>5, PTL DEF EvoSpec, EvolutionSound, RootNeverDeclines, GenerationsInOrder

=============================================================================
