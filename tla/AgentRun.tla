------------------------------ MODULE AgentRun ------------------------------
(***************************************************************************)
(* The life of an agent run: Agent.invoke of core/agent.py, down a tree of *)
(* composites, with the events it raises, and the two observers that the   *)
(* rest of operad relies on: the Tape that backward() walks and the        *)
(* TraceObserver.                                                          *)
(*                                                                         *)
(* A site is a place where an agent is invoked; the sites of one run form  *)
(* a tree.  Two sites may be the same agent, and then have one path: a     *)
(* stage of a Loop is a site per pass.  A composite awaits its kids one by *)
(* one (Sequential, Loop), or gathers them (Parallel), or lets the first    *)
(* choose one of the others (Router).                                      *)
(*                                                                         *)
(* One event loop runs everything: `turn` is the invocation whose          *)
(* coroutine is running, and None when the loop may pick a task.           *)
(***************************************************************************)
EXTENDS Naturals, FiniteSets, SequencesExt

CONSTANTS Sites, Root,
          Kids,    \* the invocations a site awaits, in order
          Gathers, \* the sites that gather their kids
          Routers, \* the sites whose first kid chooses among the others
          Path,    \* the agent_path of a site
          Runs,    \* bound: runs made one after the other
          Faults,  \* of "raise", "cancel"
          None

ASSUME AgentRunAssumption ==
  /\ Root \in Sites /\ Gathers \subseteq Sites /\ Routers \subseteq Sites \ Gathers
  /\ Kids \in [Sites -> Seq(Sites)] /\ DOMAIN Path = Sites
  /\ \A s \in Sites : IsInjective(Kids[s]) /\ Root \notin ToSet(Kids[s])
  /\ \A p, q \in Sites : p # q => ToSet(Kids[p]) \cap ToSet(Kids[q]) = {}
  /\ \A S \in SUBSET Sites : Root \in S /\ (\A s \in S : ToSet(Kids[s]) \subseteq S) => S = Sites
  /\ \A s \in Routers : Len(Kids[s]) > 1
  /\ Runs \in Nat \ {0} /\ Faults \subseteq {"raise", "cancel"}

Run == 1 .. Runs
Invocation == Run \X Sites
TraceSteps == [of : Invocation, ok : BOOLEAN]

ASSUME NoneAssumption == None \notin Invocation /\ None \notin Seq(TraceSteps)

Paths == {Path[s] : s \in Sites}

VARIABLES run,       \* the current run, 0 before the first
          pc, result, \* of each invocation
          cancelled, \* invocations into which CancelledError is to be thrown
          turn,
          tape,      \* Tape.entries of the current run
          output,    \* the invocation whose output an entry holds
          pending,   \* TapeObserver._pending
          partial,   \* TraceObserver._partial: the steps of each bucket
          traces     \* TraceObserver.traces, None if there is none

taping == <<tape, output, pending>>
tracing == <<partial, traces>>
vars == <<run, pc, result, cancelled, turn, taping, tracing>>

IsRoot(i) == i[2] = Root
Parent[s \in Sites] == IF s = Root THEN s ELSE CHOOSE p \in Sites : s \in ToSet(Kids[p])
Above[s \in Sites] == IF s = Root THEN {} ELSE {Parent[s]} \cup Above[Parent[s]]

Up(i) == <<i[1], Parent[i[2]]>>
Below(i) == {<<i[1], k>> : k \in ToSet(Kids[i[2]])}
IsLeaf(i) == Kids[i[2]] = <<>>
IsGather(i) == i[2] \in Gathers

AllOk(I) == \A i \in I : result[i] = "ok"
SomeError(I) == \E i \in I : result[i] = "error"

-----------------------------------------------------------------------------
(* The observers *)

Opened(i) == Append(pending[Path[i[2]]], i)

TapeStart(i) ==
  /\ tape' = Append(tape, i)
  /\ pending' = [pending EXCEPT ![Path[i[2]]] = Opened(i)]
  /\ UNCHANGED output

\* _pop_pending: the entry opened last under the path of the event.
Popped(i) == Last(pending[Path[i[2]]])
NothingPending(i) == pending[Path[i[2]]] = <<>>
PopPending(i) == pending' = [pending EXCEPT ![Path[i[2]]] = Front(@)]

\* Mutant: an end is paired with the first entry of its path, which stays pending.
TapeEndFirst(i) ==
  \/ NothingPending(i) /\ UNCHANGED taping
  \/ /\ ~NothingPending(i)
     /\ output' = [output EXCEPT ![Head(pending[Path[i[2]]])] = i]
     /\ UNCHANGED <<tape, pending>>

TapeEnd(i) ==
  \/ NothingPending(i) /\ UNCHANGED taping
  \/ /\ ~NothingPending(i) /\ PopPending(i)
     /\ output' = [output EXCEPT ![Popped(i)] = i]
     /\ UNCHANGED tape

TapeError(i) ==
  \/ NothingPending(i) /\ UNCHANGED taping
  \/ /\ ~NothingPending(i) /\ PopPending(i)
     /\ tape' = RemoveFirst(tape, Popped(i))
     /\ UNCHANGED output

\* The event of the root files the bucket; a later event opens a new one.
TraceStep(i, ok) ==
  LET steps == Append(partial[i[1]], [of |-> i, ok |-> ok])
  IN  /\ partial' = [partial EXCEPT ![i[1]] = IF IsRoot(i) THEN <<>> ELSE steps]
      /\ traces' = IF IsRoot(i) THEN [traces EXCEPT ![i[1]] = steps] ELSE traces

-----------------------------------------------------------------------------
(* _invoke_envelope *)

\* The awaiting composite goes on at once, in the same task; a gather is only
\* woken, and the event loop is free.
Return(i) == turn' = IF IsRoot(i) \/ IsGather(Up(i)) THEN None ELSE Up(i)

Terminate(i, how) ==
  /\ pc' = [pc EXCEPT ![i] = "done"]
  /\ result' = [result EXCEPT ![i] = how]
  /\ Return(i)
  /\ UNCHANGED <<run, cancelled>>

End(i) == Terminate(i, "ok") /\ TapeEnd(i) /\ TraceStep(i, TRUE)
Fail(i) == Terminate(i, "error") /\ TapeError(i) /\ TraceStep(i, FALSE)

\* A root invocation, with a tape of its own.
Begin ==
  /\ turn = None /\ run < Runs
  /\ run > 0 => pc[<<run, Root>>] = "done"
  /\ run' = run + 1
  /\ pc' = [pc EXCEPT ![<<run', Root>>] = "next"]
  /\ turn' = <<run', Root>>
  /\ tape' = <<>>
  /\ output' = [i \in Invocation |-> None]
  /\ pending' = [p \in Paths |-> <<>>]
  /\ UNCHANGED <<result, cancelled, tracing>>

Ready(i) ==
  \/ pc[i] = "next" /\ turn = i
  \/ pc[i] = "task" /\ turn = None /\ i \notin cancelled

\* The start event, then `forward` up to where it first suspends.
Start(i) ==
  /\ Ready(i)
  /\ TapeStart(i)
  /\ LET first == <<i[1], Kids[i[2]][1]>> IN
     IF IsLeaf(i) \/ IsGather(i)
     THEN /\ pc' = [j \in Invocation |-> IF j = i THEN "open"
                                         ELSE IF j \in Below(i) THEN "task" ELSE pc[j]]
          /\ turn' = None
     ELSE /\ pc' = [pc EXCEPT ![i] = "open", ![first] = "next"]
          /\ turn' = first
  /\ UNCHANGED <<run, result, cancelled, tracing>>

\* A start event, an input that validate() or a hook rejects, an error event: the
\* tape has the entry and loses it again.
Rejects(i) ==
  /\ Ready(i) /\ "raise" \in Faults
  /\ Terminate(i, "error")
  /\ TraceStep(i, FALSE)
  /\ UNCHANGED taping

\* A task cancelled before its first step: the invocation never begins.
NeverStarts(i) ==
  /\ pc[i] = "task" /\ turn = None /\ i \in cancelled
  /\ Terminate(i, "error")
  /\ UNCHANGED <<taping, tracing>>

Suspended(i) == pc[i] = "open" /\ turn = None

Answer(i) == IsLeaf(i) /\ Suspended(i) /\ i \notin cancelled /\ End(i)

Raise(i) == IsLeaf(i) /\ Suspended(i) /\ ("raise" \in Faults \/ i \in cancelled) /\ Fail(i)

-----------------------------------------------------------------------------
(* Sequential.forward, Loop.forward, Router.forward; then _check_output *)

Kid(i, n) == <<i[1], Kids[i[2]][n]>>
Uncalled(i) == {n \in DOMAIN Kids[i[2]] : pc[Kid(i, n)] = "idle"}

\* The branches of a router that has answered and chosen none yet.
Branches(i) ==
  IF i[2] \in Routers /\ result[Kid(i, 1)] = "ok" /\ Uncalled(i) = 2 .. Len(Kids[i[2]])
  THEN Uncalled(i) ELSE {}

\* What may be awaited next.
Upcoming(i) ==
  IF i[2] \in Routers THEN Branches(i) ELSE {n \in Uncalled(i) : 1 .. n - 1 \cap Uncalled(i) = {}}

\* A label that no branch has is an error (router_miss), as is an output that fails
\* the check.
Stage(i) ==
  /\ turn = i /\ pc[i] = "open"
  /\ \/ SomeError(Below(i)) /\ Fail(i)
     \/ ~SomeError(Below(i)) /\ Upcoming(i) = {} /\ End(i)
     \/ /\ ~SomeError(Below(i)) /\ (Upcoming(i) = {} \/ Branches(i) # {})
        /\ "raise" \in Faults /\ Fail(i)
     \/ /\ ~SomeError(Below(i))
        /\ \E n \in Upcoming(i) : pc' = [pc EXCEPT ![Kid(i, n)] = "next"] /\ turn' = Kid(i, n)
        /\ UNCHANGED <<run, result, cancelled, taping, tracing>>

-----------------------------------------------------------------------------
(* Parallel.forward *)

\* Mutant: the gather is over with its first result.
GatheredFirst(i) ==
  /\ IsGather(i) /\ Suspended(i)
  /\ \/ SomeError(Below(i)) /\ Fail(i)
     \/ (\E k \in Below(i) : result[k] = "ok") /\ ~SomeError(Below(i)) /\ End(i)

\* Mutant: the gather waits for every kid to be ok.
GatheredOnlyOk(i) ==
  IsGather(i) /\ Suspended(i) /\ AllOk(Below(i)) /\ End(i)

\* asyncio.gather raises the first error, and leaves the other kids running;
\* the combine function or the check of its output may raise too.
Gathered(i) ==
  /\ IsGather(i) /\ Suspended(i)
  /\ \/ SomeError(Below(i)) /\ Fail(i)
     \/ AllOk(Below(i)) /\ i \notin cancelled /\ End(i)
     \/ AllOk(Below(i)) /\ ("raise" \in Faults \/ i \in cancelled) /\ Fail(i)

\* Cancelling a task reaches what it awaits: down the stages, and down a gather
\* unless one of its kids has failed already.
Awaiting(i) == pc[i] = "open" /\ ~(IsGather(i) /\ SomeError(Below(i)))

Cancel ==
  /\ "cancel" \in Faults
  /\ run > 0 /\ Suspended(<<run, Root>>) /\ <<run, Root>> \notin cancelled
  /\ cancelled' = cancelled \cup
       {i \in {run} \X Sites : /\ pc[i] \in {"task", "open"}
                               /\ \A s \in Above[i[2]] : Awaiting(<<run, s>>)}
  /\ UNCHANGED <<run, pc, result, turn, taping, tracing>>

-----------------------------------------------------------------------------

Init ==
  /\ run = 0 /\ turn = None /\ cancelled = {}
  /\ pc = [i \in Invocation |-> "idle"]
  /\ result = [i \in Invocation |-> "none"]
  /\ tape = <<>> /\ output = [i \in Invocation |-> None]
  /\ pending = [p \in Paths |-> <<>>]
  /\ partial = [r \in Run |-> <<>>] /\ traces = [r \in Run |-> None]

Step(i) == Start(i) \/ Rejects(i) \/ NeverStarts(i) \/ Answer(i) \/ Raise(i) \/ Stage(i) \/ Gathered(i)

\* What has begun and has not ended.
Current == {i \in Invocation : pc[i] \notin {"idle", "done"}}

Next == Begin \/ Cancel \/ \E i \in Current : Step(i)

Spec == Init /\ [][Next]_vars

\* The loop goes on while anything is ready, and a provider answers or raises.
FairSpec == Spec /\ WF_vars(\E i \in Current : Step(i))

-----------------------------------------------------------------------------
(* Properties *)

TypeOK ==
  /\ run \in 0 .. Runs /\ turn \in Invocation \cup {None}
  /\ pc \in [Invocation -> {"idle", "task", "next", "open", "done"}]
  /\ result \in [Invocation -> {"none", "ok", "error"}]
  /\ \A i \in Invocation : result[i] # "none" <=> pc[i] = "done"
  /\ cancelled \subseteq Invocation
  /\ tape \in Seq(Invocation) /\ IsInjective(tape)
  /\ output \in [Invocation -> Invocation \cup {None}]
  /\ pending \in [Paths -> Seq(Invocation)]
  /\ partial \in [Run -> Seq(TraceSteps)]
  /\ traces \in [Run -> Seq(TraceSteps) \cup {None}]

RootOk(r) == result[<<r, Root>>] = "ok"

\* No run before the current one has failed.
Untroubled == run > 0 /\ \A r \in 1 .. run - 1 : RootOk(r)

\* What ran in run r: with a composite all its kids, of a router one branch.
Ran(r) == {s \in Sites : pc[<<r, s>>] # "idle"}
AllRan(r) ==
  \A s \in Ran(r) : IF s \in Routers
                    THEN Kids[s][1] \in Ran(r) /\ Cardinality(ToSet(Kids[s]) \cap Ran(r)) = 2
                    ELSE ToSet(Kids[s]) \subseteq Ran(r)

\* Paths as _compute_path gives them, the parent's and a name: invocations of one
\* path follow each other in a composite that awaits them in turn.  (One agent
\* hung twice under a Parallel has one name, and is left out by this.)
PathsApart ==
  \A s, t \in Sites : s # t /\ Path[s] = Path[t] =>
    /\ Root \notin {s, t} /\ Path[Parent[s]] = Path[Parent[t]]
    /\ Parent[s] = Parent[t] => Parent[s] \notin Gathers

\* "One recorded Agent.invoke": once the root has returned, the tape has an
\* entry for every invocation, and each holds its own output, also when one
\* path is invoked pass after pass.
WholeTape ==
  Untroubled /\ RootOk(run) =>
    /\ AllRan(run) /\ ToSet(tape) = {run} \X Ran(run)
    /\ \A i \in ToSet(tape) : output[i] = i

\* Pass 1 of backward() hands gradients down in the order of the entries: the
\* entry of a composite comes before those of the invocations it awaits.
ParentsFirst ==
  Untroubled => \A n \in DOMAIN tape :
    \/ IsRoot(tape[n])
    \/ result[Up(tape[n])] = "error"
    \/ \E m \in 1 .. n - 1 : tape[m] = Up(tape[n])

\* Only a run that failed leaves invocations behind that write into the tape of
\* another run.
OnlyFailedRunsStray ==
  \A i \in ToSet(tape) : i[1] # run => result[<<i[1], Root>>] = "error"

\* The trace of a run whose root returned has every invocation, once, and no
\* error, whatever other runs did.
WholeTrace ==
  \A r \in Run : RootOk(r) =>
    /\ AllRan(r) /\ traces[r] # None /\ Len(traces[r]) = Cardinality(Ran(r))
    /\ ToSet(traces[r]) = {[of |-> <<r, s>>, ok |-> TRUE] : s \in Ran(r)}

\* Every invocation that began ends, those a failed gather left behind too.
CallsEnd == []<>(\A i \in Invocation : pc[i] \in {"idle", "done"})

\* The tape of a run is the tree of its invocations, in preorder.
TapeSound ==
  /\ TypeOK
  /\ WholeTape
  /\ ParentsFirst

\* What a run leaves behind is kept apart from the runs that return.
RunsApart == OnlyFailedRunsStray /\ WholeTrace

=============================================================================
