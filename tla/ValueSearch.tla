---------------------------- MODULE ValueSearch ----------------------------
(***************************************************************************)
(* The optimizers that search over values of a parameter with an           *)
(* evaluator: OPROOptimizer and APEOptimizer (src/operad/optim/optimizers).*)
(* A step updates every parameter under a semaphore and waits for all of   *)
(* them, whatever happens to some.  An evaluation scores the agent with    *)
(* one value put in and the others as they are at that moment.  OPRO keeps *)
(* its steps in an algorithm run that a session closes.                    *)
(***************************************************************************)
EXTENDS Naturals, Integers, Sequences, FiniteSets, FiniteSetsExt, SequencesExt

CONSTANTS Param, Value, NoValue,
          Landscapes,  \* scores of the agent, by the values of its parameters
          Widths,      \* values of max_concurrent_updates
          HistoryK,    \* history_k of OPRO
          Retries,     \* max_retries of OPRO
          Steps        \* steps taken (bound)

ASSUME ValueSearchAssumption ==
  /\ IsFiniteSet(Param)
  /\ {HistoryK, Retries} \subseteq Nat \ {0} /\ Steps \in Nat
  /\ Widths \subseteq Nat \ {0} /\ NoValue \notin Value
  /\ Landscapes \subseteq [[Param -> Value] -> Nat]

VARIABLES method,     \* "opro" or "ape"
          landscape,  \* the evaluator
          width,      \* max_concurrent_updates
          value,      \* the values of the parameters
          recent,     \* momentum_state["opro"]: scores and values, the newest last
          update,     \* the update of each parameter
          inStep,     \* whether a step is under way
          taken,      \* steps taken
          run,        \* OPRO's run: "none", "open" or "closed"
          depth,      \* _session_depth
          seen,       \* history variable: all that was ever scored for a parameter
          dropped     \* history variable: records of seen whose update ended before it wrote them

searchvars == <<method, landscape, width, value, recent, update, inStep, taken, run, depth, seen, dropped>>

fixed == <<method, landscape, width>>

NoUpdate == [at |-> "idle", cand |-> NoValue, best |-> -1, tries |-> 0,
             scored |-> {}, pool |-> {}]

Score(p, v)  == landscape[[value EXCEPT ![p] = v]]
Updating(p)  == update[p].at \notin {"idle", "queued", "failed"}
ScoresOf(h)  == {h[k].score : k \in DOMAIN h}
MaxScore(S)  == IF S = {} THEN -1 ELSE Max(S)

\* The record that an update has filed and not yet written: the last candidate scored.
Pending(p) == IF update[p].at = "tell" /\ update[p].cand # NoValue THEN {Len(seen[p])} ELSE {}

-----------------------------------------------------------------------------
(* A step                                                                  *)

\* step and Optimizer._apply_updates: a task per parameter that requires a
\* gradient; OPRO opens a run unless one is open.
SearchStep(P) ==
  /\ ~inStep /\ taken < Steps /\ P # {}
  /\ inStep' = TRUE /\ taken' = taken + 1
  /\ update' = [p \in Param |-> IF p \in P THEN [NoUpdate EXCEPT !.at = "queued"] ELSE NoUpdate]
  /\ run' = IF method = "opro" THEN "open" ELSE run
  /\ UNCHANGED <<fixed, value, recent, depth, seen, dropped>>

\* The semaphore admits an update, which reads the best score of its history.
UpdateBegins(p) ==
  /\ update[p].at = "queued" /\ Cardinality({q \in Param : Updating(q)}) < width
  /\ update' = [update EXCEPT ![p].at = "propose", ![p].tries = Retries,
                              ![p].best = MaxScore(ScoresOf(recent[p]))]
  /\ UNCHANGED <<fixed, value, recent, inStep, taken, run, depth, seen, dropped>>

\* A call of the agent or of the evaluator raises, or a strict observer of an event:
\* this update ends, and what it has filed and not written stays unwritten.
UpdateFails(p) ==
  /\ Updating(p)
  /\ update' = [update EXCEPT ![p] = [NoUpdate EXCEPT !.at = "failed"]]
  /\ dropped' = [dropped EXCEPT ![p] = @ \cup Pending(p)]
  /\ UNCHANGED <<fixed, value, recent, inStep, taken, run, depth, seen>>

-----------------------------------------------------------------------------
(* OPRO                                                                    *)

\* The agent proposed a value, or text that is no admissible value.
Propose(p) ==
  /\ method = "opro" /\ update[p].at = "propose"
  /\ \/ \E v \in Value :
          update' = [update EXCEPT ![p].at = "evaluate", ![p].cand = v]
     \/ update' = [update EXCEPT ![p] = IF update[p].tries = 1 THEN NoUpdate
                                        ELSE [update[p] EXCEPT !.tries = @ - 1]]
  /\ UNCHANGED <<fixed, value, recent, inStep, taken, run, depth, seen, dropped>>

\* Mutant: the newest entries are dropped.
KeepFirst(h) == SubSeq(h, 1, IF Len(h) > HistoryK THEN HistoryK ELSE Len(h))

\* _truncate_history
Truncated(h) == IF Len(h) > HistoryK THEN SubSeq(h, Len(h) - HistoryK + 1, Len(h)) ELSE h

IsRecord(p, score) == score > update[p].best

\* The candidate is scored and filed, and an event tells whether it is a record.
Evaluate(p) ==
  /\ method = "opro" /\ update[p].at = "evaluate"
  /\ LET v == update[p].cand
         s == Score(p, v)
     IN /\ recent' = [recent EXCEPT ![p] = Truncated(Append(@, [value |-> v, score |-> s]))]
        /\ seen' = [seen EXCEPT ![p] = Append(@, [value |-> v, score |-> s])]
        /\ update' = [update EXCEPT ![p] =
             [@ EXCEPT !.at = "tell", !.cand = IF IsRecord(p, s) THEN v ELSE NoValue]]
  /\ UNCHANGED <<fixed, value, inStep, taken, run, depth, dropped>>

\* The observers have seen the event: a record is written, otherwise the agent is
\* asked again (the best score stays, for what is no record does not exceed it).
Decide(p) ==
  /\ method = "opro" /\ update[p].at = "tell"
  /\ LET u == update[p] IN
     /\ value' = IF u.cand # NoValue THEN [value EXCEPT ![p] = u.cand] ELSE value
     /\ update' = [update EXCEPT ![p] = IF u.cand # NoValue \/ u.tries = 1 THEN NoUpdate
                                         ELSE [u EXCEPT !.at = "propose", !.tries = @ - 1]]
  /\ UNCHANGED <<fixed, recent, inStep, taken, run, depth, seen, dropped>>

-----------------------------------------------------------------------------
(* APE                                                                     *)

\* The candidates that parse, of the k sampled; without any the value stays.
Sample(p, C) ==
  /\ method = "ape" /\ update[p].at = "propose"
  /\ update' = [update EXCEPT ![p] =
       IF C = {} THEN NoUpdate ELSE [@ EXCEPT !.at = "current", !.pool = C]]
  /\ UNCHANGED <<fixed, value, recent, inStep, taken, run, depth, seen, dropped>>

ScoreCurrent(p) ==
  /\ method = "ape" /\ update[p].at = "current"
  /\ update' = [update EXCEPT ![p].at = "score", ![p].best = Score(p, value[p])]
  /\ UNCHANGED <<fixed, value, recent, inStep, taken, run, depth, seen, dropped>>

\* The evaluations of the candidates end one by one.
ScoreCandidate(p, v) ==
  /\ method = "ape" /\ update[p].at = "score" /\ v \in update[p].pool
  /\ update' = [update EXCEPT ![p].pool = @ \ {v},
                              ![p].scored = @ \cup {[value |-> v, score |-> Score(p, v)]}]
  /\ UNCHANGED <<fixed, value, recent, inStep, taken, run, depth, seen, dropped>>

TopCandidates(p) == {c.value : c \in {d \in update[p].scored :
                                        d.score = MaxScore({e.score : e \in update[p].scored})}}

\* The best candidate, if it beats the current value.
Winners(p) == IF MaxScore({c.score : c \in update[p].scored}) > update[p].best
              THEN TopCandidates(p) ELSE {value[p]}

WriteWinner(p) ==
  /\ method = "ape" /\ update[p].at = "score" /\ update[p].pool = {}
  /\ \E v \in Winners(p) : value' = [value EXCEPT ![p] = v]
  /\ update' = [update EXCEPT ![p] = NoUpdate]
  /\ UNCHANGED <<fixed, recent, inStep, taken, run, depth, seen, dropped>>

-----------------------------------------------------------------------------
(* The end of a step, and sessions                                         *)

\* Mutant: gather without return_exceptions, the step ends at the first failure.
FirstFailure == \/ \A p \in Param : update[p].at \in {"idle", "failed"}
                \/ \E p \in Param : update[p].at = "failed"

\* gather(return_exceptions=True): the step waits for every update.
AllOver == \A p \in Param : update[p].at \in {"idle", "failed"}

Failures == {p \in Param : update[p].at = "failed"}

\* The step returns, or raises the failures as one group: OPRO then closes its
\* run, unless a session is to do so.
SearchStepEnds ==
  /\ inStep /\ AllOver
  /\ inStep' = FALSE
  /\ run' = IF method = "opro" /\ Failures # {} /\ depth = 0 THEN "closed" ELSE run
  /\ update' = [p \in Param |-> IF p \in Failures THEN NoUpdate ELSE update[p]]
  /\ UNCHANGED <<fixed, value, recent, taken, depth, seen, dropped>>

\* Cancelled: the updates are cancelled, and no event says so.
SearchStepCancelled ==
  /\ inStep
  /\ inStep' = FALSE
  /\ update' = [p \in Param |-> NoUpdate]
  /\ dropped' = [p \in Param |-> dropped[p] \cup Pending(p)]
  /\ UNCHANGED <<fixed, value, recent, taken, run, depth, seen>>

EnterSession ==
  /\ method = "opro" /\ ~inStep /\ depth < 2
  /\ depth' = depth + 1
  /\ UNCHANGED <<fixed, value, recent, update, inStep, taken, run, seen, dropped>>

\* _emit_algo_end and _emit_algo_error: the session that owns the run closes it.
ClosedBySession == IF run = "open" /\ depth = 1 THEN "closed" ELSE run

\* The session's body returned or raised; a cancellation closes nothing.
ExitSession(cancelled) ==
  /\ method = "opro" /\ ~inStep /\ depth > 0
  /\ depth' = depth - 1
  /\ run' = IF cancelled THEN run ELSE ClosedBySession
  /\ UNCHANGED <<fixed, value, recent, update, inStep, taken, seen, dropped>>

-----------------------------------------------------------------------------

SearchInit ==
  /\ method \in {"opro", "ape"} /\ landscape \in Landscapes /\ width \in Widths
  /\ value \in [Param -> Value]
  /\ recent = [p \in Param |-> <<>>] /\ seen = recent /\ dropped = [p \in Param |-> {}]
  /\ update = [p \in Param |-> NoUpdate]
  /\ inStep = FALSE /\ taken = 0 /\ run = "none" /\ depth = 0

SearchNext ==
  \/ \E P \in SUBSET Param : SearchStep(P)
  \/ \E p \in Param : \/ UpdateBegins(p) \/ UpdateFails(p) \/ Propose(p) \/ Evaluate(p) \/ Decide(p)
                      \/ (\E C \in SUBSET Value : Sample(p, C))
                      \/ ScoreCurrent(p) \/ (\E v \in Value : ScoreCandidate(p, v)) \/ WriteWinner(p)
  \/ SearchStepEnds \/ SearchStepCancelled \/ EnterSession \/ \E c \in BOOLEAN : ExitSession(c)

SearchSpec == SearchInit /\ [][SearchNext]_searchvars

-----------------------------------------------------------------------------
(* Properties                                                              *)

\* Updates never outlive their step, nor exceed the width; whenever OPRO
\* updates, and so emits, its run is open.
UpdatesWithinStep ==
  /\ ~inStep => \A p \in Param : update[p].at = "idle"
  /\ Cardinality({p \in Param : Updating(p)}) <= width
  /\ method = "opro" /\ inStep => run = "open"

\* OPRO's run spans the outermost session: neither a failed step nor an inner
\* session closes it.
RunSpansSession ==
  [][run = "open" /\ run' = "closed" => depth' = 0]_searchvars

\* The candidates that beat all that were scored before them, and of them those that
\* no failure or cancellation kept their update from writing.
Records(h) == {k \in DOMAIN h : \A j \in 1 .. k - 1 : h[j].score < h[k].score}
Written(p) == Records(seen[p]) \ (dropped[p] \cup Pending(p))

\* OPRO: while a parameter has had at most history_k candidates scored, it holds the
\* newest record that an update of it lived to write: the best of all, unless that one
\* is being told to the observers or was lost there.  A candidate that equals the best
\* score, lost or not, is never written.
HoldsRecord ==
  method = "opro" => \A p \in Param :
    Len(seen[p]) <= HistoryK =>
      \A k \in Written(p) : (\A j \in Written(p) : j <= k) => value[p] = seen[p][k].value

\* OPRO writes only the candidate scored last, and only if it beats the history_k scored
\* before it.  It need not beat every score seen, nor the value it replaces.
WritesBeatWindow ==
  [][\A p \in Param : method = "opro" /\ value'[p] # value[p] =>
       LET h == seen[p]
       IN  /\ h # <<>> /\ value'[p] = Last(h).value
           /\ \A k \in DOMAIN h : Len(h) - HistoryK <= k /\ k < Len(h) => h[k].score < Last(h).score]_searchvars

\* APE: as long as updates do not overlap, no write makes the agent worse.
SerialWritesImprove ==
  [][method = "ape" /\ width = 1 => landscape[value'] >= landscape[value]]_searchvars

\* Updates end within their step, and the parameter holds the newest record it was given.
SearchSound ==
  /\ UpdatesWithinStep
  /\ HoldsRecord

\* A value that is written, and a run that is opened or closed, is justified by what came before.
SearchStepsSound ==
  /\ WritesBeatWindow
  /\ SerialWritesImprove
  /\ RunSpansSession

=============================================================================
