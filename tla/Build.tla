------------------------------- MODULE Build -------------------------------
(* abuild_agent (src/operad/core/build.py): the symbolic trace of a tree of   *)
(* agents, and what freeze_agent and thaw_agent (core/freeze.py) make of the  *)
(* graph it leaves.  One Tracer, with one stack, hears of the calls of all    *)
(* tasks of the trace.  No forward of core/flow.py awaits anything but calls  *)
(* and gathers, so a task runs until it gathers or ends, and the event loop   *)
(* takes them from its queue in order.                                        *)
EXTENDS Naturals, Sequences, FiniteSets, SequencesExt

CONSTANTS
  Trees,   \* of [root, kind, kids, calls, bad, typed]
  Depth    \* bound: how deep trees are

\* What an agent calls is among its kids, what gathers has kids, the root is handed
\* what it takes, and Depth steps below an agent there are but leaves.
WellGrown(t) ==
  LET A == DOMAIN t.kids
      low[n \in 0 .. Depth] == IF n = 0 THEN {a \in A : t.kids[a] = <<>>}
                               ELSE {a \in A : ToSet(t.kids[a]) \subseteq low[n - 1]}
  IN /\ t.root \in A \ t.bad /\ t.kids \in [A -> Seq(A)] /\ t.kind \in [A -> {"await", "gather"}]
     /\ DOMAIN t.calls = A
     /\ \A a \in A : t.calls[a] \in Seq(DOMAIN t.kids[a]) /\ (t.kids[a] = <<>> => t.kind[a] = "await")
     /\ low[Depth] = A

ASSUME BuildAssumption == Depth \in Nat /\ \A t \in Trees : WellGrown(t)

VARIABLES
  tree,    \* the tree that is built
  ready,   \* what the event loop is to run: tasks, and callbacks of those that ended
  tasks,   \* by number; 1 is the task of abuild_agent
  stack,   \* Tracer._stack: composites and the paths they were recorded under
  nodes,   \* the nodes recorded; each but the root's comes with an edge
  outcome  \* "tracing", "traced", "built" or "failed"

buildvars == <<tree, ready, tasks, stack, nodes, outcome>>

\* The index of the attribute is its name; 0 stands for the agent's own name.
AttrOf(parent, child) ==
  LET at == {i \in DOMAIN tree.kids[parent] : tree.kids[parent][i] = child}
  IN IF at = {} THEN 0 ELSE CHOOSE i \in at : \A j \in at : i <= j
Under(path, parent, child) == Append(path, <<AttrOf(parent, child), child>>)

IsLeaf(a)  == tree.kids[a] = <<>>
CallsOf(a) == [i \in DOMAIN tree.calls[a] |-> tree.kids[a][tree.calls[a][i]]]

---------------------------------------------------------------------------
(* The tracer                                                                 *)

\* The agent that is taken for the one that calls: the last that was entered.
Innermost == IF stack = <<>> THEN [agent |-> tree.root, path |-> <<>>] ELSE Last(stack)

\* A node says under which path the call was recorded; `site` is the path its
\* events will have, which go by the context of the task (_compute_path).
Recorded(c, site) ==
  Append(nodes, [path |-> Under(Innermost.path, Innermost.agent, c), agent |-> c, site |-> site])

\* A forward: what it has yet to call, and how many nodes there were before.
Frame(a, site, n) ==
  [agent |-> a, site |-> site, todo |-> CallsOf(a), before |-> n, spreads |-> tree.kind[a] = "gather"]

---------------------------------------------------------------------------
(* Tasks. The first frame of a task of a gather is its one call, which the    *)
(* gathering agent made; the others are forwards, each with its entry on the  *)
(* stack of the tracer.                                                       *)

Now       == Head(ready)
Me        == Now.task
Top       == Last(tasks[Me].frames)
TaskRuns   == ready # <<>> /\ Now.what = "run"
Entry(what, t, err) == [what |-> what, task |-> t, err |-> err]
WithTop(f) == [tasks EXCEPT ![Me].frames = Append(Front(@), f)]

\* Mutant: without `finally`, an error leaves what is on the stack.
OverRaising(err) ==
  /\ stack' = IF err THEN stack ELSE SubSeq(stack, 1, Len(stack) - (Len(tasks[Me].frames) - 1))
  /\ tasks' = [tasks EXCEPT ![Me].frames = <<>>]
  /\ IF Me = 1 THEN /\ outcome' = IF err THEN "failed" ELSE "traced"
                    /\ ready' = Tail(ready)
     ELSE /\ ready' = Append(Tail(ready), Entry("done", Me, err))
          /\ UNCHANGED outcome

\* The current task is over. What it leaves on the stack it takes from its end.
Over(err) ==
  /\ stack' = SubSeq(stack, 1, Len(stack) - (Len(tasks[Me].frames) - 1))
  /\ tasks' = [tasks EXCEPT ![Me].frames = <<>>]
  /\ IF Me = 1 THEN /\ outcome' = IF err THEN "failed" ELSE "traced"
                    /\ ready' = Tail(ready)
     ELSE /\ ready' = Append(Tail(ready), Entry("done", Me, err))
          /\ UNCHANGED outcome

\* A child is awaited. One that is handed what it does not take raises before it
\* is recorded; a leaf gives a value at once; a composite's forward is entered.
CallKid ==
  LET kid == Head(Top.todo)
      site == Under(Top.site, Top.agent, kid)
      rest == [Top EXCEPT !.todo = Tail(@)]
  IN /\ TaskRuns /\ ~Now.err /\ ~Top.spreads /\ Top.todo # <<>>
     /\ IF kid \in tree.bad THEN Over(TRUE) /\ UNCHANGED nodes
        ELSE /\ nodes' = Recorded(kid, site)
             /\ IF IsLeaf(kid) THEN tasks' = WithTop(rest) /\ UNCHANGED stack
                ELSE /\ stack' = Append(stack, [agent |-> kid, path |-> Last(nodes').path])
                     /\ tasks' = [tasks EXCEPT ![Me].frames =
                                    Front(@) \o <<rest, Frame(kid, site, Len(nodes'))>>]
             /\ UNCHANGED <<ready, outcome>>
     /\ UNCHANGED tree

\* A gather wraps each call in a task and suspends.
Spread ==
  LET n == Len(Top.todo)
      old == Len(tasks)
      Task(i) == [up |-> Me, left |-> 0, woken |-> FALSE,
                  frames |-> <<[Top EXCEPT !.todo = <<Top.todo[i]>>, !.spreads = FALSE]>>]
  IN /\ TaskRuns /\ ~Now.err /\ Top.spreads /\ Top.todo # <<>>
     /\ tasks' = [WithTop([Top EXCEPT !.todo = <<>>]) EXCEPT ![Me].left = n, ![Me].woken = FALSE]
                   \o [i \in 1 .. n |-> Task(i)]
     /\ ready' = Tail(ready) \o [i \in 1 .. n |-> Entry("run", old + i, FALSE)]
     /\ UNCHANGED <<tree, stack, nodes, outcome>>

\* A forward returns; one that has called nothing is refused.
ForwardReturns ==
  /\ TaskRuns /\ ~Now.err /\ Top.todo = <<>>
  /\ LET bypass == ~IsLeaf(Top.agent) /\ Len(nodes) = Top.before
     IN IF Len(tasks[Me].frames) = 1 \/ bypass THEN Over(bypass)
        ELSE /\ stack' = Front(stack)
             /\ tasks' = [tasks EXCEPT ![Me].frames = Front(@)]
             /\ UNCHANGED <<ready, outcome>>
  /\ UNCHANGED <<tree, nodes>>

\* A gather that raised wakes its agent to raise in turn.
RaiseOn ==
  /\ TaskRuns /\ Now.err
  /\ Over(TRUE)
  /\ UNCHANGED <<tree, nodes>>

\* The callback of a gather: the first error wakes the agent that gathers, and so
\* does the last value; what comes after an error is of no account.
CallBack ==
  LET up == tasks[Me].up
      u == [tasks[up] EXCEPT !.left = @ - 1]
      wakes == ~u.woken /\ (Now.err \/ u.left = 0)
  IN /\ ready # <<>> /\ Now.what = "done"
     /\ tasks' = [tasks EXCEPT ![up] = [u EXCEPT !.woken = @ \/ wakes]]
     /\ ready' = IF wakes THEN Append(Tail(ready), Entry("run", up, Now.err)) ELSE Tail(ready)
     /\ UNCHANGED <<tree, stack, nodes, outcome>>

\* Runners are made last, and one may fail to be made; then all agents are built.
Install ==
  /\ outcome = "traced"
  /\ outcome' \in {"built", "failed"}
  /\ UNCHANGED <<tree, ready, tasks, stack, nodes>>

BuildInit ==
  /\ tree \in Trees
  /\ stack = <<>> /\ outcome = "tracing"
  /\ nodes = <<[path |-> <<>>, agent |-> tree.root, site |-> <<>>]>>
  /\ tasks = <<[up |-> 1, left |-> 0, woken |-> FALSE, frames |-> <<Frame(tree.root, <<>>, 1)>>]>>
  /\ ready = <<Entry("run", 1, FALSE)>>

BuildNext == CallKid \/ Spread \/ ForwardReturns \/ RaiseOn \/ CallBack \/ Install

BuildSpec == BuildInit /\ [][BuildNext]_buildvars

---------------------------------------------------------------------------
(* freeze_agent and thaw_agent                                                *)

\* AgentState has an entry for every attribute that leads to an agent.
Paths ==
  LET upto[n \in 0 .. Depth] ==
        IF n = 0 THEN {<<<<0, tree.root>>>>}
        ELSE upto[n - 1] \cup
             UNION {{Append(p, <<i, tree.kids[Last(p)[2]][i]>>) :
                       i \in DOMAIN tree.kids[Last(p)[2]]} : p \in upto[n - 1]}
  IN {Tail(p) : p \in upto[Depth]}
AgentAt(p) == IF p = <<>> THEN tree.root ELSE Last(p)[2]

\* class_map names an agent once, by the first path a breadth-first walk finds.
FoundBefore(p, q) ==
  \/ Len(p) < Len(q)
  \/ Len(p) = Len(q) /\ \E k \in DOMAIN p : p[k][1] < q[k][1] /\ \A j \in 1 .. k - 1 : p[j] = q[j]
ClassMap == {p \in Paths : \A q \in Paths : AgentAt(q) = AgentAt(p) => q = p \/ FoundBefore(p, q)}

\* The types of an agent come from the last node of its path, or from its class.
NodesAt(p) == {k \in DOMAIN nodes : nodes[k].path = p}
Reconstructs(p) ==
  /\ p \in ClassMap
  /\ IF NodesAt(p) = {} THEN AgentAt(p) \in tree.typed
     ELSE nodes[CHOOSE k \in NodesAt(p) : \A j \in NodesAt(p) : j <= k].agent = AgentAt(p)

---------------------------------------------------------------------------
(* Properties                                                                 *)

\* The agents that a call of a leads to, itself included.
Within(a) ==
  LET upto[n \in 0 .. Depth] ==
        IF n = 0 THEN {a} ELSE upto[n - 1] \cup UNION {ToSet(CallsOf(c)) : c \in upto[n - 1]}
  IN upto[Depth]

\* No two gathers are ever under way beside each other.
Calm ==
  \A a \in Within(tree.root) : tree.kind[a] = "gather" =>
    \A i \in 1 .. Len(CallsOf(a)) - 1 : \A c \in Within(CallsOf(a)[i]) : tree.kind[c] # "gather"

\* A graph knows the agents by the paths of their events exactly if no gather runs
\* beside another call: the tracer keeps one stack for all tasks, so that of a call
\* which is made while a sibling's gather is suspended it takes the wrong parent.
GraphNamesAgents ==
  outcome = "built" => ((\A k \in DOMAIN nodes : nodes[k].path = nodes[k].site) <=> Calm)

\* A calm tree that shares no agent and whose agents are all called in the trace is
\* thawed from what it is frozen to, each agent with its own types.
CalmTreesThaw ==
  (outcome = "built" /\ Calm /\ Cardinality({AgentAt(p) : p \in Paths}) = Cardinality(Paths)
     /\ {AgentAt(p) : p \in Paths} = Within(tree.root))
  => \A p \in Paths : Reconstructs(p)

\* However the tasks of gathers interleave and fail, nothing stays on the tracer's
\* stack and no task waits for ever: the trace ends, and it ends well if no agent
\* refuses what it is handed and each composite calls something.
TraceEnds ==
  ready = <<>> =>
    /\ stack = <<>> /\ outcome # "tracing"
    /\ outcome = "failed" \/ \A a \in Within(tree.root) : a \notin tree.bad /\ (IsLeaf(a) \/ CallsOf(a) # <<>>)

BuildSound == GraphNamesAgents /\ CalmTreesThaw /\ TraceEnds

\* What freeze_agent accepts, thaw_agent takes back: freeze.py:13 says that the
\* limitations of the format raise at freeze time, not thaw.
FrozenThaws == outcome = "built" => \A p \in Paths : Reconstructs(p)
=============================================================================
