----------------------------- MODULE Algorithms -----------------------------
(***************************************************************************)
(* The algorithms of src/operad/algorithms that call agents concurrently:  *)
(* AutoResearcher, Beam, Sweep, Debate and SelfRefine.  A run goes through *)
(* phases; a phase starts a task per branch and gathers them.  gather      *)
(* hands on the first exception and leaves the other tasks running, as     *)
(* strays; it cancels them only when the run itself is cancelled while it  *)
(* waits.  A branch makes the calls of its phase one after the other.      *)
(***************************************************************************)
EXTENDS Naturals, Sequences, SequencesExt

CONSTANTS N,            \* attempts, candidates, cells or proposers
          MaxIter,      \* max_iter of AutoResearcher and SelfRefine, which refuses 0
          Scores,       \* what a critic may answer
          Threshold,    \* AutoResearcher accepts a draft from this score on
          TopK,         \* candidates Beam keeps
          Concurrency,  \* permits of Sweep's semaphore
          Rounds        \* rounds of Debate

ASSUME AlgorithmsAssumption ==
  /\ {N, TopK, Concurrency} \subseteq Nat \ {0} /\ TopK <= N
  /\ Scores \subseteq Nat /\ {MaxIter, Threshold, Rounds} \subseteq Nat

VARIABLES algo,     \* the algorithm that runs
          judged,   \* whether Beam or Sweep have a judge
          phase,    \* the phase under way, 0 before the first
          branch,   \* the task of each branch
          permits,  \* free permits of Sweep's semaphore
          kept,     \* the branches the result is made of, the best first
          over,     \* how the run ended, "none" before
          late      \* branches that emitted an event after the run was over

algovars == <<algo, judged, phase, branch, permits, kept, over, late>>

Branch == 0 .. N - 1
Algos  == {"auto", "beam", "sweep", "debate", "refine"}

Phases ==
  CASE algo = "auto"   -> <<"attempt">>
    [] algo = "debate" -> <<"generate">> \o [r \in 1 .. Rounds |-> "judge"] \o <<"synthesize">>
    [] algo = "refine" -> <<"refine">>
    [] OTHER           -> IF judged THEN <<"generate", "judge">> ELSE <<"generate">>

\* The branches of a phase and the first call each makes.
Width(p) == IF Phases[p] \in {"synthesize", "refine"} THEN {0} ELSE Branch

FirstCall(p) ==
  IF algo = "sweep" THEN "queued"
  ELSE CASE Phases[p] = "attempt" -> "plan"
         [] Phases[p] = "refine"  -> "reason"
         [] Phases[p] = "judge"   -> "critic"
         [] OTHER                 -> "call"

Calls   == {"plan", "retrieve", "reason", "critic", "reflect", "call"}
Live    == {i \in Branch : branch[i].at \in Calls \cup {"queued"}}
Raised  == {i \in Branch : branch[i].at = "raised"}
Running == over = "none"

-----------------------------------------------------------------------------
(* A branch                                                                *)

\* draft counts the drafts, seen is the one that score is about.
Fresh == [at |-> "idle", iter |-> 0, draft |-> 0, seen |-> 0, score |-> 0]

\* AutoResearcher reflects until the score is good enough or max_iter is
\* reached, SelfRefine until the reflection asks for no revision; both stop
\* right after a draft was judged.
Accepted(b, score) == score >= Threshold \/ b.iter = MaxIter

Settled(b, revise) == ~revise \/ b.iter + 1 = MaxIter

\* The reasoner's draft goes to the critic of the attempt.
Drafted(b) == [b EXCEPT !.at = "critic", !.draft = @ + 1]

\* AutoResearcher._one_attempt: a call returned, in the order of the calls.
Attempted(b, score) ==
  CASE b.at = "plan"     -> [b EXCEPT !.at = "retrieve"]
    [] b.at = "retrieve" -> [b EXCEPT !.at = "reason"]
    [] b.at = "reason"   -> Drafted(b)
    [] b.at = "critic"   ->
         [b EXCEPT !.score = score, !.seen = b.draft,
                   !.at = IF Accepted(b, score) THEN "ok" ELSE "reflect"]
    [] b.at = "reflect"  -> [b EXCEPT !.at = "reason", !.iter = @ + 1]

\* The loop of SelfRefine.run; the score stands for needs_revision.
Refined(b, score) ==
  LET revise == score < Threshold
  IN CASE b.at = "reason"  -> [b EXCEPT !.at = "reflect", !.draft = @ + 1]
       [] b.at = "reflect" ->
            [b EXCEPT !.score = score, !.seen = b.draft,
                      !.at = IF Settled(b, revise) THEN "ok" ELSE "reason",
                      !.iter = IF Settled(b, revise) THEN @ ELSE @ + 1]

\* One call of a generator, a proposer, a critic or the synthesizer.
Called(b, score) ==
  IF Phases[phase] = "judge"
  THEN [b EXCEPT !.at = "ok", !.score = score, !.seen = b.draft]
  ELSE [b EXCEPT !.at = "ok", !.draft = 1]

Returned(b, score) ==
  CASE algo = "auto"   -> Attempted(b, score)
    [] algo = "refine" -> Refined(b, score)
    [] OTHER           -> Called(b, score)

\* Calls after which the branch itself emits an event of the run.
Emits(at) == \/ algo = "auto" /\ at \in {"plan", "critic", "reflect"}
             \/ algo = "refine" /\ at = "reflect"

\* Mutant: a cell keeps its permit for its judge.
ReleaseAfterJudge(at) ==
  IF algo = "sweep" /\ (judged => Phases[phase] = "judge") THEN permits + 1 ELSE permits

\* _bounded: the semaphore is released however the call ends.
Release(at) == IF algo = "sweep" THEN permits + 1 ELSE permits

\* The branch is admitted by the semaphore, in the order of the queue.
Admit(i) ==
  /\ branch[i].at = "queued" /\ permits > 0
  /\ \A j \in Branch : branch[j].at = "queued" => i <= j
  /\ permits' = permits - 1
  /\ branch' = [branch EXCEPT ![i].at = IF Phases[phase] = "judge" THEN "critic" ELSE "call"]
  /\ UNCHANGED <<algo, judged, phase, kept, over, late>>

Return(i, score) ==
  /\ branch[i].at \in Calls
  /\ score = 0 \/ branch[i].at \in {"critic", "reflect"}
  /\ branch' = [branch EXCEPT ![i] = Returned(@, score)]
  /\ permits' = Release("ok")
  /\ late' = IF Emits(branch[i].at) /\ ~Running THEN late \cup {i} ELSE late
  /\ UNCHANGED <<algo, judged, phase, kept, over>>

Raise(i) ==
  /\ branch[i].at \in Calls
  /\ branch' = [branch EXCEPT ![i].at = "raised"]
  /\ permits' = Release("raised")
  /\ UNCHANGED <<algo, judged, phase, kept, over, late>>

-----------------------------------------------------------------------------
(* The run                                                                 *)

Launched(p) ==
  [i \in Branch |-> IF i \in Width(p) THEN [branch[i] EXCEPT !.at = FirstCall(p)]
                                      ELSE branch[i]]

\* The agents are built and the first phase starts.
Begin ==
  /\ Running /\ phase = 0
  /\ phase' = 1
  /\ branch' = Launched(1)
  /\ UNCHANGED <<algo, judged, permits, kept, over, late>>

\* A Sweep over an empty axis has no cells.
EmptyGrid ==
  /\ Running /\ phase = 0 /\ algo = "sweep"
  /\ over' = "algo_end"
  /\ UNCHANGED <<algo, judged, phase, branch, permits, kept, late>>

BuildFails ==
  /\ Running /\ phase = 0
  /\ over' = "algo_error"
  /\ UNCHANGED <<algo, judged, phase, branch, permits, kept, late>>

\* Mutant: the first task that returns is enough.
FirstReturned == \E i \in Width(phase) : branch[i].at = "ok"

\* gather returns when every task of the phase has returned.
Gathered == \A i \in Width(phase) : branch[i].at = "ok"

NextPhase ==
  /\ Running /\ phase > 0 /\ phase < Len(Phases) /\ Gathered
  /\ phase' = phase + 1
  /\ branch' = Launched(phase + 1)
  /\ UNCHANGED <<algo, judged, permits, kept, over, late>>

\* sorted and max are stable: among equals the first.
Before(i, j) ==
  \/ branch[i].score > branch[j].score
  \/ branch[i].score = branch[j].score /\ i < j

\* A branch is ranked behind those that come before it.
Place(i) == Cardinality({j \in Branch : Before(j, i)}) + 1
Ranked == [k \in 1 .. N |-> CHOOSE i \in Branch : Place(i) = k]

Unranked == [k \in 1 .. N |-> k - 1]

Chosen ==
  CASE algo = "auto"  -> SubSeq(Ranked, 1, 1)
    [] algo = "beam"  -> SubSeq(IF judged THEN Ranked ELSE Unranked, 1, TopK)
    [] algo = "sweep" -> IF judged THEN SubSeq(Ranked, 1, 1) ELSE <<>>
    [] OTHER          -> <<0>>

Finish ==
  /\ Running /\ phase = Len(Phases) /\ Gathered
  /\ over' = "algo_end"
  /\ kept' = Chosen
  /\ UNCHANGED <<algo, judged, phase, branch, permits, late>>

\* gather hands on the first exception: algo_error, while the strays go on.
Fail ==
  /\ Running /\ Raised # {}
  /\ over' = "algo_error"
  /\ UNCHANGED <<algo, judged, phase, branch, permits, kept, late>>

\* A gather that waits cancels its tasks; one that has failed already does not.
Withdrawn == [i \in Branch |-> IF Raised = {} /\ i \in Live
                               THEN [branch[i] EXCEPT !.at = "cancelled"] ELSE branch[i]]

\* The caller cancels the run.  `except Exception` does not see it: the run
\* ends without a terminal event.
Cancel ==
  /\ Running
  /\ branch' = Withdrawn
  /\ permits' = IF Raised = {} THEN Concurrency ELSE permits
  /\ over' = "cancelled"
  /\ UNCHANGED <<algo, judged, phase, kept, late>>

Init ==
  /\ algo \in Algos /\ judged \in BOOLEAN
  /\ MaxIter = 0 => algo # "refine"
  /\ algo \notin {"beam", "sweep"} => judged
  /\ phase = 0
  /\ branch = [i \in Branch |-> Fresh]
  /\ permits = Concurrency
  /\ kept = <<>> /\ over = "none" /\ late = {}

Coordinate == Begin \/ BuildFails \/ EmptyGrid \/ NextPhase \/ Finish \/ Fail

Advance(i) == Admit(i) \/ (\E s \in Scores \cup {0} : Return(i, s)) \/ Raise(i)

Next == Coordinate \/ Cancel \/ \E i \in Branch : Advance(i)

Spec == Init /\ [][Next]_algovars

\* The event loop runs what is ready, and every call returns or raises.
FairSpec == Spec /\ WF_algovars(Coordinate) /\ \A i \in Branch : WF_algovars(Advance(i))

-----------------------------------------------------------------------------
(* Properties                                                              *)

TypeOK ==
  /\ phase \in 0 .. Len(Phases) /\ permits \in 0 .. Concurrency
  /\ over \in {"none", "algo_end", "algo_error", "cancelled"}
  /\ late \subseteq Branch /\ \A k \in DOMAIN kept : kept[k] \in Branch
  /\ \A i \in Branch :
       /\ branch[i].at \in Calls \cup {"idle", "queued", "ok", "raised", "cancelled"}
       /\ branch[i].iter \in 0 .. MaxIter /\ branch[i].draft \in 0 .. MaxIter + 1

\* Calls still run after the run is over only if one of their siblings raised:
\* never after algo_end, and not after a cancellation that found no failure.
\* Only those of AutoResearcher add events to the stream of a run that is over.
StraysOnlyOfFailure ==
  /\ ~Running /\ Live # {} => Raised # {}
  /\ late # {} => Raised # {} /\ algo = "auto"

\* algo_end is emitted only if every task of the last phase returned, and then
\* the agent's verdict on a branch is about the branch's last draft: neither
\* loop ever ends with a draft that nobody judged.
VerdictIsOfLastDraft ==
  over = "algo_end" /\ phase > 0 =>
    /\ Raised = {}
    /\ (judged /\ algo # "debate") =>
         \A i \in Width(phase) : branch[i].seen = branch[i].draft /\ branch[i].draft > 0

\* What a judged run keeps is no worse than anything it drops, in descending
\* order, and the earliest of equals.
BestKept ==
  over = "algo_end" /\ judged /\ algo \in {"auto", "beam", "sweep"} =>
    \A k \in DOMAIN kept : \A i \in Branch \ {kept[j] : j \in 1 .. k} :
      \/ branch[kept[k]].score > branch[i].score
      \/ branch[kept[k]].score = branch[i].score /\ kept[k] < i

\* A call of a Sweep holds a permit from its admission to its end, strays of a
\* failed sweep too: they never outnumber the concurrency.
SweepBounded ==
  algo = "sweep" =>
    permits + Cardinality({i \in Branch : branch[i].at \in Calls}) = Concurrency

\* A run that has begun ends, and so does every branch it started, even one
\* that waits for a permit of a sweep that has failed.
RunsComplete == phase > 0 ~> ~Running /\ Live = {}

\* What an algorithm returns, and what it leaves running, is accounted for.
AlgorithmsSound ==
  /\ TypeOK
  /\ StraysOnlyOfFailure
  /\ VerdictIsOfLastDraft
  /\ BestKept
  /\ SweepBounded

=============================================================================
