------------------------------- MODULE Talker -------------------------------
(***************************************************************************)
(* TalkerReasoner (src/operad/algorithms/talker_reasoner.py): a            *)
(* conversation walks a tree of scenario nodes, one turn at a time.  A     *)
(* turn reads the current node, awaits the navigator and the talker, and   *)
(* then moves the conversation.  Nothing keeps two callers from having     *)
(* turns under way at once, nor a reset from coming in between.            *)
(***************************************************************************)
EXTENDS Naturals, Sequences, FiniteSets, SequencesExt

CONSTANTS Node, Root,
          Children,   \* the children of a node, in order
          Terminal,   \* the terminal nodes
          Caller,     \* tasks that use the conversation
          MaxTurns,   \* max_turns
          Script      \* messages of a scripted run (bound)

ASSUME TalkerAssumption ==
  /\ Root \in Node /\ Terminal \subseteq Node /\ IsFiniteSet(Caller)
  /\ Children \in [Node -> Seq(Node)]
  /\ MaxTurns \in Nat \ {0} /\ Script \in Nat

VARIABLES current,    \* _current_id
          history,    \* _history: the turns [from, to, last]
          finished,   \* _finished
          caller,     \* the turn each caller has under way
          start,      \* history variable: where the conversation began
          overlapped  \* history variable: turns overlapped, or one with a reset

talkvars == <<current, history, finished, caller, start, overlapped>>

\* left: the messages a scripted run has after this one.
NoTurn == [at |-> "idle", node |-> Root, to |-> Root, last |-> FALSE, left |-> 0]

InTurn == {c \in Caller : caller[c].at # "idle"}

Listed(n) == {Children[n][k] : k \in DOMAIN Children[n]}

\* _apply: the node and whether the conversation ends, for each decision:
\* finish, stay (also: an advance that is ambiguous, a branch to a node that
\* is not a child), advance to an only child or branch to a listed one.
Resolved(n) ==
  {<<n, TRUE>>, <<n, n \in Terminal>>} \cup {<<c, c \in Terminal>> : c \in Listed(n)}

-----------------------------------------------------------------------------

\* step refuses, and run stops, when the conversation is finished or at max_turns.
Open(h, fin) == ~fin /\ Len(h) < MaxTurns

\* The turn starts where the conversation is.
Turn(node, left) == [NoTurn EXCEPT !.at = "navigate", !.node = node, !.left = left]

\* step or run is called; the rest of the script is left for later turns.
StartTurn(c, left) ==
  /\ caller[c].at = "idle" /\ Open(history, finished)
  /\ caller' = [caller EXCEPT ![c] = Turn(current, left)]
  /\ overlapped' = (overlapped \/ InTurn # {})
  /\ UNCHANGED <<current, history, finished, start>>

Navigated(c) ==
  /\ caller[c].at = "navigate"
  /\ \E d \in Resolved(caller[c].node) :
       caller' = [caller EXCEPT ![c].at = "speak", ![c].to = d[1], ![c].last = d[2]]
  /\ UNCHANGED <<current, history, finished, start, overlapped>>

\* The talker has answered: the turn enters the history, and a scripted run
\* goes on from where the conversation is now.
Spoken(c) ==
  /\ caller[c].at = "speak"
  /\ LET t == caller[c]
     IN /\ history' = Append(history, [from |-> t.node, to |-> t.to, last |-> t.last])
        /\ current' = t.to
        /\ finished' = (finished \/ t.last)
        /\ caller' = [caller EXCEPT ![c] =
             IF t.left > 0 /\ Open(history', finished') THEN Turn(t.to, t.left - 1)
                                                        ELSE NoTurn]
  /\ UNCHANGED <<start, overlapped>>

\* Mutant: the conversation moves before the talker is asked.
TurnFailsMoved(c) ==
  /\ caller[c].at # "idle"
  /\ current' = IF caller[c].at = "speak" THEN caller[c].to ELSE current
  /\ caller' = [caller EXCEPT ![c] = NoTurn]
  /\ UNCHANGED <<history, finished, start, overlapped>>

\* A call raises, or the caller is cancelled: the turn leaves no trace.
TurnFails(c) ==
  /\ caller[c].at # "idle"
  /\ caller' = [caller EXCEPT ![c] = NoTurn]
  /\ UNCHANGED <<current, history, finished, start, overlapped>>

Reset(n) ==
  /\ current' = n /\ history' = <<>> /\ finished' = FALSE /\ start' = n
  /\ overlapped' = (InTurn # {})
  /\ UNCHANGED caller

TalkInit ==
  /\ current \in Node /\ start = current
  /\ history = <<>> /\ finished = FALSE
  /\ caller = [c \in Caller |-> NoTurn]
  /\ overlapped = FALSE

TalkNext ==
  \/ \E c \in Caller : \/ \E k \in 0 .. Script : StartTurn(c, k)
                       \/ Navigated(c) \/ Spoken(c) \/ TurnFails(c)
  \/ \E n \in Node : Reset(n)

TalkSpec == TalkInit /\ [][TalkNext]_talkvars

-----------------------------------------------------------------------------
(* Properties                                                              *)

\* However turns and resets overlap: the conversation is where its last turn
\* went, it is finished exactly if some turn of the history was the last one,
\* a turn stays or goes to a child, and the turns exceed max_turns by no more
\* than the callers that were let in together.
ConversationConsistent ==
  /\ current = IF history = <<>> THEN start ELSE Last(history).to
  /\ Len(history) < MaxTurns + Cardinality(Caller)
  /\ finished <=> \E k \in DOMAIN history : history[k].last
  /\ \A k \in DOMAIN history :
       history[k].to \in {history[k].from} \cup Listed(history[k].from)

\* As long as turns did not overlap, the history is a walk from the start that
\* no turn follows once it has ended, of at most max_turns turns.
SequentialTurnsWalk ==
  ~overlapped =>
    /\ Len(history) <= MaxTurns
    /\ \A k \in DOMAIN history :
         /\ history[k].from = IF k = 1 THEN start ELSE history[k - 1].to
         /\ history[k].last => k = Len(history)

\* A conversation stays on the tree, whoever takes turns in it.
ConversationSound ==
  /\ ConversationConsistent
  /\ SequentialTurnsWalk

=============================================================================
