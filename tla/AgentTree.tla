------------------------------ MODULE AgentTree ------------------------------
(* A tree of agents as something that is read and changed (core/agent.py): its  *)
(* state, its clones, the edits of utils/ops.py with their undo, the write-back *)
(* of EvoGradient, and the Parameters (optim/parameter.py) that an optimizer    *)
(* holds of it.  Agents and Configurations are objects: an agent may hang under *)
(* two names, and agents that are given one Configuration share it.             *)
EXTENDS Naturals, FiniteSets, SequencesExt

CONSTANTS
  Families,  \* of [root, kids, cfg]: what the agents are at first
  Edit,      \* of [kind, path, arg]: the edits, by their names
  Compounds, \* sequences of names of edits
  FlagCalls, \* of [fields, value, at]: calls of mark_trainable and freeze_parameters
  Written,   \* what an optimizer may write
  Depth,     \* bound: how deep trees are
  Configs,   \* bound: Configurations there may be at once
  Moves      \* bound: operations made

Objects == 1 .. Configs
NoConfig == 0      \* no config, of a composite

VARIABLES
  tree,    \* [walk, role, rules, cfg: agent -> Configuration, temp: of a Configuration]
  before,  \* what an edit noted when it was applied: <<>>, or <<value>>
  applied, \* _applied_count of a compound
  flags,   \* _requires_grad_overrides: agent -> field -> BOOLEAN
  handles, \* the Parameters of the optimizer, by path and field: [value, grad]
  tweaked, \* history variable: an edit was made since the handles were read
  moves

treevars == <<tree, before, applied, flags, handles, tweaked, moves>>

Agents(t) == DOMAIN t.role

\* The agents of a family in the order of a walk, each as often as it hangs somewhere,
\* with the path to it and the agents on the way.
WalkOf(f) ==
  LET from[d \in 0 .. Depth] ==
        [a \in DOMAIN f.kids |->
           <<[path |-> <<>>, agent |-> a, chain |-> <<a>>]>> \o
           IF d = 0 THEN <<>>
           ELSE FlattenSeq([i \in DOMAIN f.kids[a] |->
                  LET k == f.kids[a][i]
                  IN [j \in DOMAIN from[d - 1][k.agent] |->
                        [from[d - 1][k.agent][j] EXCEPT !.path = <<k.name>> \o @,
                                                        !.chain = <<a>> \o @]]])]
  IN from[Depth][f.root]

\* A path leads to one agent, on one way, for the names of what an agent has differ;
\* every agent hangs somewhere; and there are Configurations enough for each to
\* have one of its own, and one to spare.
WellHung(walk, A) ==
  /\ walk \in Seq(ToSet(walk)) /\ Len(walk) < Configs
  /\ \A w \in ToSet(walk) : /\ w = [path |-> w.path, agent |-> w.agent, chain |-> w.chain]
                             /\ w.chain \in Seq(A) /\ w.chain # <<>> /\ w.agent = Last(w.chain)
                             /\ \A v \in ToSet(walk) : v.path = w.path => v = w
  /\ A = {w.agent : w \in ToSet(walk)}

\* What is taken for a temperature marks that there is a config, so it is none of
\* what marks that there is none.
ASSUME AgentTreeAssumption ==
  /\ Configs \in Nat /\ Written \subseteq Nat \ {NoConfig}
  /\ \A f \in Families : /\ WellHung(WalkOf(f), DOMAIN f.kids)
                         /\ f.cfg \in [DOMAIN f.kids -> Objects \cup {NoConfig}]
  /\ \A n \in DOMAIN Edit : /\ Edit[n].kind \in {"append", "drop", "role", "temp"} /\ Edit[n].arg \in Nat
                            /\ Edit[n].kind = "temp" => Edit[n].arg # NoConfig
  /\ \A c \in Compounds : c \in Seq(DOMAIN Edit) /\ IsInjective(c)

\* _resolve: the agents at a path, none or one.
Resolve(t, path) == {t.walk[i].agent : i \in {j \in DOMAIN t.walk : t.walk[j].path = path}}
The(S) == CHOOSE x \in S : TRUE

Temperature(t, a) == IF t.cfg[a] = NoConfig THEN NoConfig ELSE t.temp[t.cfg[a]]
Fields(t, a) == [role |-> t.role[a], rules |-> t.rules[a], temp |-> Temperature(t, a)]

\* Agent.state: what is declared under each path.
State(t) == [p \in {w.path : w \in ToSet(t.walk)} |-> Fields(t, The(Resolve(t, p)))]

\* A Configuration of its own for an agent.
Unused(t) == CHOOSE o \in Objects : \A a \in Agents(t) : t.cfg[a] # o
Configure(t, a, temperature) ==
  [t EXCEPT !.cfg[a] = Unused(t), !.temp[Unused(t)] = temperature]

-----------------------------------------------------------------------------
(* clone and load_state *)

\* Each agent of its own Configuration.
Numbered(A) == CHOOSE n \in [A -> 1 .. Cardinality(A)] : IsInjective(n)
Separate(A, temp) ==
  LET n == Numbered(A)
  IN [cfg  |-> [a \in A |-> IF temp[a] = NoConfig THEN NoConfig ELSE n[a]],
      temp |-> [o \in Objects |-> IF \E a \in A : n[a] = o
                                  THEN temp[CHOOSE a \in A : n[a] = o] ELSE NoConfig]]

\* The clone of an agent is known by the agents above it: one that hangs twice
\* under one parent is cloned once, under two parents twice.
CloneOf(t) ==
  LET C   == {w.chain : w \in ToSet(t.walk)}
      own == Separate(C, [c \in C |-> Temperature(t, Last(c))])
  IN [walk |-> [i \in DOMAIN t.walk |-> [t.walk[i] EXCEPT !.agent = t.walk[i].chain]],
      role |-> [c \in C |-> t.role[Last(c)]], rules |-> [c \in C |-> t.rules[Last(c)]],
      cfg  |-> own.cfg, temp |-> own.temp]

\* An agent under two names is loaded once for each, and keeps what came last.
LastPath(t, a) ==
  LET at == {i \in DOMAIN t.walk : t.walk[i].agent = a}
  IN t.walk[CHOOSE i \in at : \A j \in at : j <= i].path
LoadState(t, state) ==
  LET got == [a \in Agents(t) |-> state[LastPath(t, a)]]
      own == Separate(Agents(t), [a \in Agents(t) |-> got[a].temp])
  IN [t EXCEPT !.role = [a \in Agents(t) |-> got[a].role],
               !.rules = [a \in Agents(t) |-> got[a].rules],
               !.cfg = own.cfg, !.temp = own.temp]

-----------------------------------------------------------------------------
(* utils/ops.py.  What is edited is [tree, before, done, ok]: done counts the edits *)
(* of a compound that were applied.                                                *)

Old(t, e, a) == CASE e.kind \in {"append", "drop"} -> t.rules[a]
                  [] e.kind = "role"               -> t.role[a]
                  [] OTHER                         -> Temperature(t, a)

Edited(t, e, a) ==
  CASE e.kind = "append" -> [t EXCEPT !.rules[a] = Append(@, e.arg)]
    [] e.kind = "drop"   -> [t EXCEPT !.rules[a] = Tail(@)]
    [] e.kind = "role"   -> [t EXCEPT !.role[a] = e.arg]
    [] OTHER             -> Configure(t, a, e.arg)

Restored(t, e, a, old) ==
  CASE e.kind \in {"append", "drop"} -> [t EXCEPT !.rules[a] = old]
    [] e.kind = "role"               -> [t EXCEPT !.role[a] = old]
    [] OTHER                         -> Configure(t, a, old)

\* What apply() of an edit refuses: a path that leads nowhere, an index that is
\* out of range, an agent without a config.
Refused(t, e) ==
  \/ Resolve(t, e.path) = {}
  \/ LET a == The(Resolve(t, e.path))
     IN \/ e.kind = "drop" /\ t.rules[a] = <<>>
        \/ e.kind = "temp" /\ t.cfg[a] = NoConfig

ApplyEdit(s, name) ==
  LET e == Edit[name]
      a == The(Resolve(s.tree, e.path))
  IN IF ~s.ok THEN s
     ELSE IF Refused(s.tree, e) THEN [s EXCEPT !.ok = FALSE]
     ELSE [tree |-> Edited(s.tree, e, a), before |-> [s.before EXCEPT ![name] = <<Old(s.tree, e, a)>>],
           done |-> s.done + 1, ok |-> TRUE]

UndoEdit(s, name) ==
  LET e == Edit[name]
  IN IF ~s.ok THEN s
     ELSE IF s.before[name] = <<>> THEN [s EXCEPT !.ok = FALSE]
     ELSE [s EXCEPT !.tree = Restored(@, e, The(Resolve(@, e.path)), Head(s.before[name])),
                    !.before[name] = <<>>]

\* The first n edits of c, the last one first.
RolledBack(s, c, n) ==
  LET undone[k \in 0 .. n] == IF k = 0 THEN [s EXCEPT !.ok = TRUE] ELSE UndoEdit(undone[k - 1], c[n - k + 1])
  IN undone[n]

AppliedAll(s, c) ==
  LET upto[k \in 0 .. Len(c)] == IF k = 0 THEN s ELSE ApplyEdit(upto[k - 1], c[k])
  IN upto[Len(c)]

ApplyCompound(t, noted, c) ==
  LET s    == AppliedAll([tree |-> t, before |-> noted, done |-> 0, ok |-> TRUE], c)
      back == RolledBack(s, c, s.done)
  IN IF s.ok THEN s ELSE [back EXCEPT !.done = IF back.ok THEN 0 ELSE s.done, !.ok = FALSE]

Undo(t, noted, c, n) == RolledBack([tree |-> t, before |-> noted, done |-> n, ok |-> TRUE], c, n)

-----------------------------------------------------------------------------
(* What is done with a tree *)

Move == moves < Moves /\ moves' = moves + 1

Apply(c) ==
  /\ Move
  /\ LET s == ApplyCompound(tree, before, c)
     IN /\ tree' = s.tree /\ before' = s.before
        /\ applied' = [applied EXCEPT ![c] = s.done]
  /\ tweaked' = TRUE
  /\ UNCHANGED <<flags, handles>>

UndoLast(c) ==
  /\ Move /\ applied[c] > 0
  /\ LET s == Undo(tree, before, c, applied[c])
     IN /\ tree' = s.tree /\ before' = s.before
        /\ applied' = IF s.ok THEN [applied EXCEPT ![c] = 0] ELSE applied
  /\ tweaked' = TRUE
  /\ UNCHANGED <<flags, handles>>

\* _iter_declared_parameters: the whole config, or what is in it.
Declared(a) ==
  {"role", "rules"} \cup
  IF tree.cfg[a] = NoConfig THEN {}
  ELSE IF "config" \in DOMAIN flags[a] /\ flags[a]["config"] = TRUE THEN {"config"} ELSE {"temp"}

\* What is read there: of a config, the object.
Read(t, a, f) == CASE f = "role"  -> t.role[a]
                   [] f = "rules" -> t.rules[a]
                   [] f = "temp"  -> Temperature(t, a)
                   [] f = "config" -> t.cfg[a]

AgentOf(h) == The(Resolve(tree, h.path))

\* optimizer(root.parameters()): what requires a gradient is noted now.
OpenHandles ==
  /\ Move /\ handles = <<>>
  /\ handles' =
       [h \in UNION {{[path |-> w.path, field |-> f] : f \in Declared(w.agent)} : w \in ToSet(tree.walk)} |->
          [value |-> Read(tree, AgentOf(h), h.field),
           grad  |-> IF h.field \in DOMAIN flags[AgentOf(h)] THEN flags[AgentOf(h)][h.field] ELSE TRUE]]
  /\ tweaked' = FALSE
  /\ UNCHANGED <<tree, before, applied, flags>>

\* Parameter.write, by an optimizer: a temperature is written into the Configuration.
Write(h, v) ==
  LET a == AgentOf(h)
      t == CASE h.field = "role"  -> [tree EXCEPT !.role[a] = v]
             [] h.field = "rules" -> [tree EXCEPT !.rules[a] = <<v>>]
             [] h.field = "temp"  -> [tree EXCEPT !.temp[tree.cfg[a]] = v]
             [] h.field = "config" -> Configure(tree, a, v)
  IN /\ Move /\ handles[h].grad = TRUE
     /\ tree' = t
     /\ handles' = [handles EXCEPT ![h].value = Read(t, a, h.field)]
     /\ UNCHANGED <<before, applied, flags, tweaked>>

\* Mutant: the handles keep what they have.
ReadNone(t) == handles

\* EvoGradient: a clone is edited and written back, and the handles are read.
ReadAll(t) == [h \in DOMAIN handles |-> [handles[h] EXCEPT !.value = Read(t, AgentOf(h), h.field)]]

Mutated(c) == ApplyCompound(CloneOf(tree), [n \in DOMAIN Edit |-> <<>>], c)

Evolve(c) ==
  /\ Move /\ handles # <<>> /\ Mutated(c).ok
  /\ tree' = LoadState(tree, State(Mutated(c).tree))
  /\ handles' = ReadAll(tree')
  /\ tweaked' = FALSE
  /\ UNCHANGED <<before, applied, flags>>

\* _set_requires_grad: a config that is not there is an error at the agent that is
\* called, once the fields before it are set, and nothing further down.
Flagged(a, fields, value) == [f \in DOMAIN flags[a] \cup fields |->
                                IF f \in fields THEN value ELSE flags[a][f]]
Applicable(a, fields) == IF tree.cfg[a] = NoConfig THEN fields \ {"temp", "config"} ELSE fields

SetFlags(call) ==
  /\ Move /\ handles = <<>>
  /\ LET top  == The(Resolve(tree, call.at))
         here == {w.agent : w \in {v \in ToSet(tree.walk) : IsPrefix(call.at, v.path)}}
         on   == IF Applicable(top, call.fields) = call.fields THEN here ELSE {top}
     IN flags' = [a \in Agents(tree) |-> IF a \in on THEN Flagged(a, Applicable(a, call.fields), call.value)
                                                     ELSE flags[a]]
  /\ UNCHANGED <<tree, before, applied, handles, tweaked>>

-----------------------------------------------------------------------------

TreeInit ==
  /\ \E f \in Families :
       /\ tree = [walk |-> WalkOf(f), cfg |-> f.cfg,
                  role |-> [a \in DOMAIN f.kids |-> 0], rules |-> [a \in DOMAIN f.kids |-> <<0>>],
                  temp |-> [o \in Objects |-> 1]]
       /\ flags = [a \in DOMAIN f.kids |-> <<>>]
  /\ before = [n \in DOMAIN Edit |-> <<>>]
  /\ applied = [c \in Compounds |-> 0]
  /\ handles = <<>> /\ tweaked = FALSE /\ moves = 0

TreeNext ==
  \/ \E c \in Compounds : Apply(c) \/ UndoLast(c) \/ Evolve(c)
  \/ OpenHandles
  \/ \E call \in FlagCalls : SetFlags(call)
  \/ \E h \in DOMAIN handles, v \in Written : Write(h, v)

TreeSpec == TreeInit /\ [][TreeNext]_treevars

-----------------------------------------------------------------------------
(* Properties *)

\* "If apply fails partway through, any children already applied are undone", and
\* undo() rolls a compound back: whatever paths its edits have in common, and
\* whatever was applied before, no field under any path is left changed.
CompoundsRollBack ==
  \A c \in Compounds :
    LET s == ApplyCompound(tree, before, c)
    IN State(IF s.ok THEN Undo(s.tree, s.before, c, s.done).tree ELSE s.tree) = State(tree)

\* No agent hangs under two parents.
OneParent == \A v, w \in ToSet(tree.walk) : v.agent = w.agent => v.chain = w.chain

\* The individual that EvoGradient found is what the root becomes, under every
\* path, unless an agent hangs under two parents: of its two clones the one that
\* is loaded last is kept.
FoundIsWritten ==
  OneParent => \A c \in Compounds :
    LET m == Mutated(c) IN m.ok => State(LoadState(tree, State(m.tree))) = State(m.tree)

\* Two handles to one place.
Same(h, k) ==
  /\ h.field = k.field
  /\ \/ AgentOf(h) = AgentOf(k)
     \/ h.field = "temp" /\ tree.cfg[AgentOf(h)] = tree.cfg[AgentOf(k)]

\* "A read-through cache of the live attribute": what the next rewrite starts from
\* is what is there, through writes, generations and changes of flags, if no other
\* handle writes to the same place and nobody edits the agents meanwhile.
HandlesLive ==
  \A h \in DOMAIN handles :
    ~tweaked /\ (\A k \in DOMAIN handles : Same(h, k) => k = h)
    => handles[h].value = Read(tree, AgentOf(h), h.field)

TreeSound == CompoundsRollBack /\ FoundIsWritten /\ HandlesLive
=============================================================================
