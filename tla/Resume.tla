------------------------------ MODULE Resume ------------------------------
(***************************************************************************)
(* Training that is saved, lost in a crash and taken up again:             *)
(* Trainer.save and Trainer.load (train/trainer.py) with what they carry,  *)
(* the learning-rate schedules of optim/schedulers/lr.py and the history   *)
(* of MomentumTextGrad (optim/optimizers/momentum.py).                     *)
(*                                                                         *)
(* One param group, one parameter; the agent itself is what it was (see    *)
(* core/freeze.py).  Gradients are numbered.  A rate is an integer: the    *)
(* gammas are 1/2, and the base a multiple of the powers that occur.       *)
(***************************************************************************)
EXTENDS Integers, Sequences, FiniteSets

CONSTANTS Schedules,   \* [mode, parts, milestones]: see below
          BaseRate,
          HistoryK,    \* history_k
          EpochBound, StepBound, FitEpochs, \* bounds: epochs, steps, epochs of a fit
          CrashBound   \* bound: crashes

ASSUME ResumeAssumption ==
  /\ {BaseRate, HistoryK, EpochBound, StepBound, CrashBound} \subseteq Nat
  /\ FitEpochs \subseteq Nat \ {0}
  /\ \A s \in Schedules :
       /\ s.mode \in {"single", "chained", "sequential"}
       /\ Len(s.parts) \in Nat \ {0} /\ DOMAIN s.parts = 1 .. Len(s.parts)
       /\ s.mode = "single" => Len(s.parts) = 1
       \* what SequentialLR refuses, and sorts
       /\ s.mode = "sequential" =>
            /\ DOMAIN s.milestones = 1 .. Len(s.parts) - 1
            /\ \A i \in DOMAIN s.milestones :
                 /\ s.milestones[i] \in Int
                 /\ \A j \in 1 .. i : s.milestones[j] <= s.milestones[i]

None0 == [none |-> TRUE]

VARIABLES schedule, decays, \* the program: its schedule, and whether momentum # 1.0
          doing,      \* "rest", "epoch", the stages of save(), "down"
          left,       \* epochs the fit has yet to do
          rate,       \* param_groups[0].lr
          sched,      \* of the scheduler: base_lrs, last_epoch, and last_epoch of each part
          history,    \* momentum_state["momentum"]["history"]
          bundle,     \* the file: "none", "torn", or what it holds
          after,      \* what save() returns to
          crashes,    \* bounds the crashes
          epochs, pushes, \* history variables: of this lineage
          plan        \* history variable: the rate the schedule started from, and after which epoch

resumevars == <<schedule, decays, doing, left, rate, sched, history, bundle, after, crashes,
                epochs, pushes, plan>>

-----------------------------------------------------------------------------
(* The schedules *)

Halves(r, n) == r \div (2 ^ n)
AtLeast0(t) == IF t < 0 THEN 0 ELSE t
AtMost(t, m) == IF t > m THEN m ELSE t
Passed(milestones, t) == Cardinality({i \in DOMAIN milestones : milestones[i] <= t})

\* (1 + cos(pi t/T)) / 2 in quarters.
Cosine == [two |-> <<4, 2, 0>>, three |-> <<4, 3, 1, 0>>]

\* get_lr() of a part at its last_epoch t.
GetLr(s, base, t) ==
  CASE s.kind = "constant"    -> base
    [] s.kind = "step"        -> Halves(base, AtLeast0(t) \div s.size)
    [] s.kind = "multistep"   -> Halves(base, Passed(s.milestones, t))
    [] s.kind = "exponential" -> Halves(base, AtLeast0(t))
    [] s.kind = "cosine"      -> (LET table == Cosine[s.over]
                                  IN (base * table[AtMost(AtLeast0(t), Len(table) - 1) + 1]) \div 4)
    [] s.kind = "warmup"      -> (s.final * AtMost(AtLeast0(t + 1), s.epochs)) \div s.epochs

Parts == DOMAIN schedule.parts
FreshSched(base) == [base |-> base, last |-> -1, part |-> [i \in Parts |-> -1]]

\* SequentialLR: bisect_right.
Active(last) == Passed(schedule.milestones, last) + 1

\* The parts that step(), in a schedule alone, chained or sequential.
Stepping(last) == IF schedule.mode = "sequential" THEN {Active(last)} ELSE Parts

Advance(s) == [s EXCEPT !.last = @ + 1,
                        !.part = [i \in Parts |-> IF i \in Stepping(s.last + 1) THEN @[i] + 1 ELSE @[i]]]

\* The last part that stepped has written the rate.
Written(s) == LET i == CHOOSE p \in Stepping(s.last) : \A q \in Stepping(s.last) : q <= p
              IN GetLr(schedule.parts[i], s.base, s.part[i])

-----------------------------------------------------------------------------
(* Trainer.fit *)

BeginTraining ==
  /\ doing = "rest"
  /\ \E n \in FitEpochs : /\ epochs + n <= EpochBound
                          /\ left' = n
  /\ doing' = "epoch"
  /\ UNCHANGED <<schedule, decays, rate, sched, history, bundle, after, crashes, epochs, pushes, plan>>

Decayed(h) == IF decays THEN [i \in DOMAIN h |-> [h[i] EXCEPT !.decayed = @ + 1]] ELSE h

\* history[-K:], and all of it if K is 0.
LastK(h) == IF HistoryK > 0 /\ Len(h) > HistoryK THEN SubSeq(h, Len(h) - HistoryK + 1, Len(h)) ELSE h

\* A gradient that was loaded is a dict, and a dict has no severity to decay.
Undecayable == decays /\ \E i \in DOMAIN history : ~history[i].typed

Push ==
  /\ pushes' = pushes + 1
  /\ history' = LastK(Append(Decayed(history), [grad |-> pushes', decayed |-> 0, typed |-> TRUE]))

\* An optimizer step.  What follows the push, the summary and the rewrite, may raise: then
\* fit raises, and the history keeps what it was given.
OptimizerStep ==
  /\ doing = "epoch" /\ ~Undecayable /\ pushes < StepBound
  /\ Push
  /\ \/ UNCHANGED <<doing, left>>
     \/ doing' = "rest" /\ left' = 0
  /\ UNCHANGED <<schedule, decays, rate, sched, bundle, after, crashes, epochs, plan>>

\* The step raises before it pushes; so does a batch, an evaluation or a callback.
TrainingFails ==
  /\ doing = "epoch"
  /\ doing' = "rest" /\ left' = 0
  /\ UNCHANGED <<schedule, decays, rate, sched, history, bundle, after, crashes, epochs, pushes, plan>>

\* scheduler.step()
EpochEnds ==
  /\ doing = "epoch" /\ left > 0
  /\ sched' = Advance(sched) /\ rate' = Written(sched')
  /\ epochs' = epochs + 1
  /\ left' = left - 1 /\ doing' = IF left = 1 THEN "rest" ELSE "epoch"
  /\ UNCHANGED <<schedule, decays, history, bundle, after, crashes, pushes, plan>>

-----------------------------------------------------------------------------
(* Trainer.save, between fits or from a callback: the file is written twice, *)
(* and a crash may come before, in and after each.                           *)

Saving == {"freezing", "frozen", "rewriting"}

SaveBegins ==
  /\ doing \in {"rest", "epoch"}
  /\ doing' = "freezing" /\ after' = doing
  /\ bundle' = [is |-> "torn"]
  /\ UNCHANGED <<schedule, decays, left, rate, sched, history, crashes, epochs, pushes, plan>>

\* freeze_agent: BaseModels are dumped.
Frozen == [is |-> "whole", rate |-> rate, sched |-> None0,
           history |-> [i \in DOMAIN history |-> [history[i] EXCEPT !.typed = FALSE]],
           epochs |-> epochs, pushes |-> pushes, plan |-> plan]

AgentFrozen ==
  /\ doing = "freezing"
  /\ doing' = "frozen" /\ bundle' = Frozen
  /\ UNCHANGED <<schedule, decays, left, rate, sched, history, after, crashes, epochs, pushes, plan>>

Rewrites ==
  /\ doing = "frozen"
  /\ doing' = "rewriting" /\ bundle' = [is |-> "torn"]
  /\ UNCHANGED <<schedule, decays, left, rate, sched, history, after, crashes, epochs, pushes, plan>>

\* isinstance(self.scheduler, LRScheduler): neither a chain nor a sequence is one.
SchedulerState == IF schedule.mode = "single" THEN sched ELSE None0

Saved ==
  /\ doing = "rewriting"
  /\ doing' = after /\ bundle' = [Frozen EXCEPT !.sched = SchedulerState]
  /\ UNCHANGED <<schedule, decays, left, rate, sched, history, after, crashes, epochs, pushes, plan>>

Crash ==
  /\ doing # "down" /\ crashes < CrashBound
  /\ crashes' = crashes + 1
  /\ doing' = "down" /\ left' = 0 /\ after' = "rest"
  /\ UNCHANGED <<schedule, decays, rate, sched, history, bundle, epochs, pushes, plan>>

\* Mutant: the schedule goes on from the rate that was saved.
RescheduledHere(b) == IF b.sched = None0 THEN FreshSched(b.rate) ELSE [b.sched EXCEPT !.base = b.rate]

\* scheduler_factory() reads the rate the optimizer has been given back;
\* load_state_dict() then replaces what it read.
Rescheduled(b) == IF b.sched = None0 THEN FreshSched(b.rate) ELSE b.sched

\* Trainer.load; a torn file does not parse.
LoadBundle ==
  /\ doing = "down" /\ bundle.is = "whole"
  /\ rate' = bundle.rate /\ sched' = Rescheduled(bundle) /\ history' = bundle.history
  /\ epochs' = bundle.epochs /\ pushes' = bundle.pushes
  /\ plan' = IF bundle.sched = None0 THEN [base |-> bundle.rate, since |-> bundle.epochs] ELSE bundle.plan
  /\ doing' = "rest"
  /\ UNCHANGED <<schedule, decays, left, bundle, after, crashes>>

-----------------------------------------------------------------------------

ResumeInit ==
  /\ schedule \in Schedules /\ decays \in BOOLEAN
  /\ doing = "rest" /\ left = 0 /\ after = "rest"
  /\ rate = BaseRate /\ sched = FreshSched(BaseRate) /\ history = <<>>
  /\ bundle = [is |-> "none"]
  /\ crashes = 0 /\ epochs = 0 /\ pushes = 0
  /\ plan = [base |-> BaseRate, since |-> 0]

ResumeNext ==
  \/ BeginTraining \/ OptimizerStep \/ TrainingFails \/ EpochEnds
  \/ SaveBegins \/ AgentFrozen \/ Rewrites \/ Saved
  \/ Crash \/ LoadBundle

ResumeSpec == ResumeInit /\ [][ResumeNext]_resumevars

-----------------------------------------------------------------------------
(* Properties *)

\* The rate of a schedule that started from base, after e epochs, by the documentation of
\* each: the first step() gives the rate of epoch 0, and a part that is handed over to
\* starts anew.
HandedOver(i) == IF i = 1 THEN 0 ELSE AtLeast0(schedule.milestones[i - 1])
Planned(base, e) ==
  IF e = 0 THEN base
  ELSE LET i == IF schedule.mode = "sequential" THEN Passed(schedule.milestones, e - 1) + 1
                                                ELSE Len(schedule.parts)
       IN GetLr(schedule.parts[i], base,
                IF schedule.mode = "sequential" THEN e - 1 - HandedOver(i) ELSE e - 1)

\* "Restore a Trainer from a save() bundle": however often training failed, was
\* saved, lost and taken up again, the rate is the one planned for the epochs that
\* the lineage of this trainer has completed since its schedule started.  Only a bundle
\* without scheduler state (of a chain, of a sequence, or of a save that crashed between
\* its writes) starts the schedule again: at its first epoch, with the rate in the bundle.
RateAsPlanned == doing # "down" => rate = Planned(plan.base, epochs - plan.since)

\* The momentum of the lineage: the last K gradients that were pushed, each decayed
\* once for each push after its own, whatever failed, crashed or was loaded between.
HistoryIsWindow ==
  doing # "down" =>
    /\ Len(history) = IF HistoryK > 0 THEN AtMost(pushes, HistoryK) ELSE pushes
    /\ \A i \in DOMAIN history :
         LET g == pushes - Len(history) + i
         IN /\ history[i].grad = g
            /\ history[i].decayed = IF decays THEN pushes - g ELSE 0

\* A training that failed, was saved, lost or taken up again is where it would be.
ResumesAsPlanned ==
  /\ RateAsPlanned
  /\ HistoryIsWindow

=============================================================================
