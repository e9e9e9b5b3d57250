------------------------------ MODULE Backprop ------------------------------
(***************************************************************************)
(* backward() of optim/backprop/backward.py over the tape of one sample    *)
(* after the other, as Trainer._run_batch calls it: pass 1 hands critiques *)
(* from the root down to the leaves, in the order of the entries and keyed *)
(* by path; pass 2 turns the critique of each leaf into a gradient for     *)
(* each of its parameters, all at once under a semaphore.                  *)
(*                                                                         *)
(* A critique is the sequence of the entries it was refined at, and a null *)
(* critique is <<>>.                                                       *)
(***************************************************************************)
EXTENDS Naturals, FiniteSets, Sequences

CONSTANTS TapePaths, \* tapes that may be recorded: each the paths of its entries, in order
          Up,        \* path -> the path of the composite it is called by; the root's is its own
          Split,     \* path -> "leaf", or the split rule of the composite: "all" or "router"
          Selector,  \* the paths that end in ".router"
          Trained,   \* path of a leaf -> the parameters of its agent that the caller trains
          Concurrency,
          Backwards, \* bound: calls of backward()
          NoTrace    \* no gradient

Handles == UNION {Trained[q] : q \in DOMAIN Trained}

ASSUME BackpropAssumption ==
  /\ \A q \in DOMAIN Up : Up[q] \in DOMAIN Up
  /\ DOMAIN Split = DOMAIN Up /\ Selector \subseteq DOMAIN Up
  /\ DOMAIN Trained = {q \in DOMAIN Up : Split[q] = "leaf"}
  /\ Concurrency \in Nat \ {0} /\ Backwards \in Nat
  /\ NoTrace \notin [sample : Nat, entry : Nat, critique : Seq(Nat)]
  \* A tape is in the order of the calls: its root is first, a caller before its callees.
  /\ \A t \in TapePaths :
       /\ t \in Seq(DOMAIN Up) /\ t # <<>> /\ Up[t[1]] = t[1]
       /\ \A k \in 2 .. Len(t) : Up[t[k]] # t[k] /\ \E j \in 1 .. k - 1 : t[j] = Up[t[k]]

VARIABLES stage,     \* "over", "pass1" or "pass2"
          sample,    \* samples so far
          tapePaths, \* the tape being walked
          entry,     \* the entry the walk stands at
          down,      \* downstream_grad
          critique,  \* node_output_grad
          task,      \* where the task of each parameter of the leaf stands
          strays,    \* parameter_grad tasks of a backward that has raised
          trace,     \* p.grad: which sample, entry and critique it was made from
          muted,     \* history: a critique came out null, in this sample
          troubled   \* history: a backward has raised

backvars == <<stage, sample, tapePaths, entry, down, critique, task, strays, trace, muted, troubled>>

NoCritique == [q \in DOMAIN Up |-> <<>>]
NoTask == [p \in Handles |-> "none"]
NoGradient == [p \in Handles |-> NoTrace]

Here == tapePaths[entry]
ChildPaths(q) == {r \in {tapePaths[k] : k \in DOMAIN tapePaths} : Up[r] = q /\ r # q}

-----------------------------------------------------------------------------

\* _run_batch has cleared the gradients, run the agent under a tape, and computed
\* a loss.
BeginSample(paths) ==
  /\ stage = "over" /\ sample < Backwards
  /\ sample' = sample + 1 /\ tapePaths' = paths
  /\ stage' = "pass1" /\ entry' = 1
  /\ down' = [NoCritique EXCEPT ![paths[1]] = <<0>>] \* the loss itself
  /\ critique' = NoCritique /\ task' = NoTask /\ trace' = NoGradient /\ muted' = FALSE
  /\ UNCHANGED <<strays, troubled>>

\* Mutant: the children are given the critique their composite was given.
SplitRaw(out, taken, q) ==
  IF Split[Up[q]] = "router" /\ (q \in Selector \/ q \notin taken) THEN <<>> ELSE down[Up[q]]

\* Sequential, Parallel and the generic rule give each child the same critique; a
\* Router only the branch whose response is its own, and never its selector.
Contribution(out, taken, q) ==
  IF Split[Up[q]] = "router" /\ (q \in Selector \/ q \notin taken) THEN <<>> ELSE out

NextEntry == entry + 1

WalkOn ==
  /\ entry' = IF NextEntry > Len(tapePaths) THEN Len(tapePaths) ELSE NextEntry
  /\ stage' = IF NextEntry > Len(tapePaths) THEN "pass2" ELSE "pass1"

\* Nothing has come down to the entry.
Pass ==
  /\ stage = "pass1" /\ down[Here] = <<>>
  /\ WalkOn
  /\ UNCHANGED <<sample, tapePaths, down, critique, task, strays, trace, muted, troubled>>

\* Those a Router has called.
Branches == IF Split[Here] = "router" THEN ChildPaths(Here) \ Selector ELSE {}

\* propagate and the backward hooks, with or without a critique in the end.
Propagate(out, taken) ==
  /\ down[Here] # <<>>
  /\ critique' = [critique EXCEPT ![Here] = out]
  /\ down' = [q \in DOMAIN down |-> IF q \in ChildPaths(Here) THEN Contribution(out, taken, q)
                                                              ELSE down[q]]
  /\ muted' = (muted \/ out = <<>> \/ taken # Branches)
  /\ WalkOn
  /\ UNCHANGED <<sample, tapePaths, task, strays, trace, troubled>>

PropagateAny ==
  stage = "pass1" /\ \E taken \in {{}} \cup {{q} : q \in Branches}, out \in {<<>>, Append(down[Here], entry)} :
    Propagate(out, taken)

-----------------------------------------------------------------------------
(* Pass 2 *)

Dispatches == Split[Here] = "leaf" /\ critique[Here] # <<>> /\ Trained[Here] # {}

Started == \E p \in Handles : task[p] # "none"
Under(at) == {p \in Handles : task[p] = at}

BackOff ==
  /\ task' = NoTask
  /\ IF entry = 1 THEN stage' = "over" /\ UNCHANGED entry
                  ELSE entry' = entry - 1 /\ UNCHANGED stage

SkipEntry ==
  /\ stage = "pass2" /\ ~Dispatches /\ ~Started
  /\ BackOff
  /\ UNCHANGED <<sample, tapePaths, down, critique, strays, trace, muted, troubled>>

Dispatch ==
  /\ stage = "pass2" /\ Dispatches /\ ~Started
  /\ task' = [p \in Handles |-> IF p \in Trained[Here] THEN "waiting" ELSE "none"]
  /\ UNCHANGED <<stage, sample, tapePaths, entry, down, critique, strays, trace, muted, troubled>>

\* The gradient agent of the kind is there, and the semaphore is free.
AskGrad(p) ==
  /\ stage = "pass2" /\ task[p] = "waiting" /\ Cardinality(Under("asking")) < Concurrency
  /\ task' = [task EXCEPT ![p] = "asking"]
  /\ UNCHANGED <<stage, sample, tapePaths, entry, down, critique, strays, trace, muted, troubled>>

Made == [sample |-> sample, entry |-> entry, critique |-> critique[Here]]

WriteGrad(p) ==
  /\ stage = "pass2" /\ task[p] = "asking"
  /\ task' = [task EXCEPT ![p] = "done"]
  /\ trace' = [trace EXCEPT ![p] = Made]
  /\ UNCHANGED <<stage, sample, tapePaths, entry, down, critique, strays, muted, troubled>>

Unfinished == {p \in Handles : task[p] \in {"waiting", "asking"}}

LeafDone == Started /\ Unfinished = {}

\* gather returns.
Gather ==
  /\ stage = "pass2" /\ LeafDone
  /\ strays' = strays \cup {[of |-> p, made |-> Made] : p \in Unfinished}
  /\ BackOff
  /\ UNCHANGED <<sample, tapePaths, down, critique, trace, muted, troubled>>

\* Building a gradient agent or parameter_grad raises: gather raises at once, and
\* its other tasks go on.
GradRaises(p) ==
  /\ stage = "pass2" /\ p \in Unfinished
  /\ strays' = strays \cup {[of |-> q, made |-> Made] : q \in Unfinished \ {p}}
  /\ stage' = "over" /\ troubled' = TRUE /\ task' = NoTask
  /\ UNCHANGED <<sample, tapePaths, entry, down, critique, trace, muted>>

\* propagate or a hook raises, or the fit is cancelled, which cancels the tasks.
Raises ==
  /\ stage # "over"
  /\ stage' = "over" /\ troubled' = TRUE /\ task' = NoTask
  /\ UNCHANGED <<sample, tapePaths, entry, down, critique, strays, trace, muted>>

\* A task that was left behind writes its gradient, or raises unheard.
StrayEnds(s) ==
  /\ strays' = strays \ {s}
  /\ \/ trace' = [trace EXCEPT ![s.of] = s.made]
     \/ UNCHANGED trace
  /\ UNCHANGED <<stage, sample, tapePaths, entry, down, critique, task, muted, troubled>>

-----------------------------------------------------------------------------

BackInit ==
  /\ stage = "over" /\ sample = 0 /\ tapePaths = <<>> /\ entry = 0
  /\ down = NoCritique /\ critique = NoCritique /\ task = NoTask
  /\ strays = {} /\ trace = NoGradient /\ muted = FALSE /\ troubled = FALSE

BackNext ==
  \/ \E paths \in TapePaths : BeginSample(paths)
  \/ Pass \/ PropagateAny \/ SkipEntry \/ Dispatch \/ Gather \/ Raises
  \/ \E p \in Handles : AskGrad(p) \/ WriteGrad(p) \/ GradRaises(p)
  \/ \E s \in strays : StrayEnds(s)

BackSpec == BackInit /\ [][BackNext]_backvars

-----------------------------------------------------------------------------
(* Properties *)

\* A critique that was refined at an entry of the root of a tape first, and then
\* at one callee after the other, down to q.
LeadsTo(tape, c, q) ==
  /\ Len(c) > 1 /\ \A k \in 2 .. Len(c) : c[k] \in DOMAIN tape
  /\ Up[tape[c[2]]] = tape[c[2]]
  /\ \A k \in 3 .. Len(c) : tape[c[k]] # tape[c[k - 1]] /\ Up[tape[c[k]]] = tape[c[k - 1]]
  /\ tape[c[Len(c)]] = q

\* The gradient of a parameter was made from an entry of a leaf of its own, with
\* a critique that was refined at every composite from the root down to that leaf.
ChainUnbroken ==
  \A p \in Handles : trace[p] # NoTrace /\ trace[p].sample = sample =>
    LET q == tapePaths[trace[p].entry]
    IN  p \in Trained[q] /\ LeadsTo(tapePaths, trace[p].critique, q)

\* A path, and those of the composites it is called through.
Above == [q \in DOMAIN Up |->
            {r \in DOMAIN Up : \A S \in SUBSET DOMAIN Up :
                                q \in S /\ (\A s \in S : Up[s] \in S) => r \in S}]

\* The paths of the tape that are not called by a selector.
Reached == {q \in {tapePaths[k] : k \in DOMAIN tapePaths} : Above[q] \cap Selector = {}}

\* When backward returns, and no critique came out null, each trained parameter of
\* each leaf on the tape has a gradient, but for the selector of a Router.
ReachesEveryLeaf ==
  stage = "over" /\ ~muted /\ ~troubled /\ sample > 0 =>
    \A q \in Reached : Split[q] = "leaf" => \A p \in Trained[q] : trace[p] # NoTrace

\* While no backward has raised, a gradient is of the sample whose tape is walked,
\* and nothing is left that could still write one.
GradOfItsSample ==
  ~troubled =>
    /\ strays = {}
    /\ \A p \in Handles : trace[p] # NoTrace => trace[p].sample = sample

\* A backward pass gives each leaf the gradient of its own critique.
GradientsSound ==
  /\ ChainUnbroken
  /\ ReachesEveryLeaf
  /\ GradOfItsSample

=============================================================================
