------------------------------ MODULE Trainer ------------------------------
(***************************************************************************)
(* Trainer.fit of operad/train/trainer.py with the step of the             *)
(* TextualGradientDescent optimizer: how the gradients of the samples of   *)
(* an accumulation window reach the parameters.                            *)
(*                                                                         *)
(* A gradient is the sequence of the batches whose messages it merges,     *)
(* newest first, each the set of the samples that gave one; a null         *)
(* gradient and no gradient are both <<>>.  A batch is one action, for fit *)
(* is alone on the parameters then; the rewrites of one optimizer step run *)
(* concurrently and are cut at their awaits.                               *)
(***************************************************************************)
EXTENDS Naturals, FiniteSets, SequencesExt

CONSTANTS Param,        \* parameters the optimizer trains
          Kinds,        \* parameter -> its ParameterKind
          Batches,      \* batches per epoch
          BatchSize,
          Epochs,
          Steps,        \* accumulation_steps
          MaxConcurrent,\* max_concurrent_updates
          MaxFits,      \* bound: calls of fit()
          Sparse,       \* a batch may leave a parameter without gradient
          Failures      \* agents, losses and rewriters may raise

ASSUME TrainerAssumption ==
  /\ IsFiniteSet(Param)
  /\ Batches \in Nat \ {0} /\ BatchSize \in Nat \ {0}
  /\ Epochs \in Nat \ {0} /\ Steps \in Nat \ {0}
  /\ MaxConcurrent \in Nat \ {0} /\ MaxFits \in Nat
  /\ Sparse \in BOOLEAN /\ Failures \in BOOLEAN

VARIABLES pc,       \* "idle", "batch", "step"
          fit,      \* calls of fit() so far
          epoch,
          inEpoch,  \* batches of this epoch done (epoch_batch)
          counter,  \* batch_counter
          grad,     \* p.grad
          todo,     \* parameters waiting for the semaphore of _apply_updates
          phase,    \* of each parameter within the step
          cached,   \* parameter kinds whose rewriter is memoized
          owed      \* history: samples whose gradient waits for a step

batch == <<fit, epoch, inEpoch, counter>>
vars == <<pc, batch, grad, todo, phase, cached, owed>>

NoGrad == [p \in Param |-> <<>>]
KindSet == {Kinds[p] : p \in Param}
Samples == 1 .. BatchSize
InFlight == {p \in Param : phase[p] \in {"building", "rewriting"}}

\* The samples of the next batch, identified by fit and batch.
Sample(i) == [fit |-> fit, batch |-> counter + 1, index |-> i]

-----------------------------------------------------------------------------
(* fit() and _run_batch() *)

BeginFit ==
  /\ pc = "idle" /\ fit < MaxFits
  /\ fit' = fit + 1
  /\ epoch' = 0 /\ inEpoch' = 0 /\ counter' = 0
  /\ pc' = "batch"
  /\ UNCHANGED <<grad, todo, phase, cached, owed>>

\* What the samples of a batch give a parameter: a sample that backward() does
\* not lead to it, or whose loss has no severity, gives it nothing.
Given(reach, p) == {Sample(i) : i \in {j \in Samples : p \in reach[j]}}

\* Mutant: the gradient of the batches before is overwritten.
MergedForgets(reach, p) == IF Given(reach, p) = {} THEN <<>> ELSE <<Given(reach, p)>>

\* _merge_grads(grads + pending), and `if not grads: continue`.
Merged(reach, p) == IF Given(reach, p) = {} THEN <<>> ELSE <<Given(reach, p)>> \o grad[p]

Pending(g) == {p \in Param : g[p] # <<>>}

\* optimizer.step() starts on the parameters that have a gradient.
StartStep(g) ==
  /\ pc' = "step"
  /\ todo' = Pending(g)
  /\ phase' = [p \in Param |-> "none"]

RunBatch(reach) ==
  /\ pc = "batch" /\ inEpoch < Batches
  /\ Sparse \/ \A p \in Param : Given(reach, p) # {}
  /\ counter' = counter + 1 /\ inEpoch' = inEpoch + 1
  /\ grad' = [p \in Param |-> Merged(reach, p)]
  /\ owed' = [p \in Param |-> owed[p] \cup Given(reach, p)]
  /\ \/ counter' % Steps = 0 /\ StartStep(grad')
     \/ counter' % Steps # 0 /\ UNCHANGED <<pc, todo, phase>>
  /\ UNCHANGED <<fit, epoch, cached>>

\* The agent, the loss or backward() raises: fit raises.  The gradients of the
\* window are gone but for what backward() wrote before it raised; what its
\* parameter_grad tasks write after that is taken to land before the next fit.
BatchFails(left) ==
  /\ Failures /\ pc = "batch" /\ inEpoch < Batches
  /\ grad' = [p \in Param |-> IF p \in left THEN <<{Sample(1)}>> ELSE <<>>]
  /\ owed' = [p \in Param |-> {}]
  /\ pc' = "idle"
  /\ UNCHANGED <<batch, todo, phase, cached>>

\* Mutant: the residual flush never finds anything.
NothingPending == FALSE

\* _has_pending_grad()
HasPending == Pending(grad) # {}

\* The residual flush at the end of an epoch.
Flush ==
  /\ pc = "batch" /\ inEpoch = Batches
  /\ HasPending
  /\ StartStep(grad)
  /\ UNCHANGED <<batch, grad, cached, owed>>

\* Validation, scheduler and callbacks, which may ask to stop.
EndEpoch(stop) ==
  /\ pc = "batch" /\ inEpoch = Batches
  /\ ~HasPending
  /\ IF stop \/ epoch + 1 = Epochs
       THEN /\ pc' = "idle"
            /\ UNCHANGED <<epoch, inEpoch>>
       ELSE /\ epoch' = epoch + 1 /\ inEpoch' = 0
            /\ UNCHANGED pc
  /\ UNCHANGED <<fit, counter, grad, todo, phase, cached, owed>>

-----------------------------------------------------------------------------
(* TextualGradientDescent.step(): _apply_updates *)

At(p, where) == phase' = [phase EXCEPT ![p] = where]

\* A rewrite gets the semaphore and looks its rewriter up.
Acquire(p) ==
  /\ pc = "step" /\ p \in todo
  /\ Cardinality(InFlight) < MaxConcurrent
  /\ todo' = todo \ {p}
  /\ At(p, IF Kinds[p] \in cached THEN "rewriting" ELSE "building")
  /\ UNCHANGED <<pc, batch, grad, cached, owed>>

\* _default_build(kind) raised.
BuildRaises(p) ==
  /\ Failures /\ phase[p] = "building"
  /\ At(p, "failed")
  /\ UNCHANGED <<pc, batch, grad, todo, cached, owed>>

\* _default_build(kind) has been awaited: memoize.
Built(p) ==
  /\ phase[p] = "building"
  /\ cached' = cached \cup {Kinds[p]}
  /\ At(p, "rewriting")
  /\ UNCHANGED <<pc, batch, grad, todo, owed>>

\* apply_rewrite returned: the parameter is written; or it raised.
Rewritten(p) ==
  /\ phase[p] = "rewriting"
  /\ \/ At(p, "written")
     \/ Failures /\ At(p, "failed")
  /\ UNCHANGED <<pc, batch, grad, todo, cached, owed>>

Settled == todo = {} /\ InFlight = {}

\* All is well: gradients are cleared and the loop goes on.
StepDone ==
  /\ pc = "step" /\ Settled
  /\ \A p \in Param : phase[p] # "failed"
  /\ grad' = NoGrad
  /\ owed' = [p \in Param |-> {}]
  /\ pc' = "batch"
  /\ UNCHANGED <<batch, todo, phase, cached>>

\* The ExceptionGroup leaves step() and fit().
StepRaises ==
  /\ pc = "step" /\ Settled
  /\ \E p \in Param : phase[p] = "failed"
  /\ pc' = "idle"
  /\ owed' = [p \in Param |-> {}]
  /\ UNCHANGED <<batch, grad, todo, phase, cached>>

-----------------------------------------------------------------------------

Init ==
  /\ pc = "idle"
  /\ fit = 0 /\ epoch = 0 /\ inEpoch = 0 /\ counter = 0
  /\ grad = NoGrad
  /\ todo = {} /\ phase = [p \in Param |-> "none"]
  /\ cached = {}
  /\ owed = [p \in Param |-> {}]

Finished == pc = "idle" /\ fit = MaxFits /\ UNCHANGED vars

Next ==
  \/ BeginFit
  \/ \E reach \in [Samples -> SUBSET Param] : RunBatch(reach)
  \/ \E left \in SUBSET Param : BatchFails(left)
  \/ Flush
  \/ \E stop \in BOOLEAN : EndEpoch(stop)
  \/ \E p \in Param : Acquire(p) \/ BuildRaises(p) \/ Built(p) \/ Rewritten(p)
  \/ StepDone \/ StepRaises
  \/ Finished

Spec == Init /\ [][Next]_vars

-----------------------------------------------------------------------------
(* Properties *)

Message == [fit : 1 .. MaxFits, batch : Nat, index : Samples]

\* The variables stay within the values the program gives them.
TypeOK ==
  /\ pc \in {"idle", "batch", "step"}
  /\ fit \in 0 .. MaxFits /\ epoch \in 0 .. Epochs - 1
  /\ inEpoch \in 0 .. Batches /\ counter \in Nat
  /\ grad \in [Param -> Seq(SUBSET Message)]
  /\ todo \subseteq Param
  /\ phase \in [Param -> {"none", "building", "rewriting", "written", "failed"}]
  /\ cached \subseteq KindSet
  /\ owed \in [Param -> SUBSET Message]

\* The messages of a gradient.
Messages(p) == UNION ToSet(grad[p])

\* When optimizer.step() fires, the merged gradient of a parameter holds the
\* message of each sample of the accumulation window exactly once; what it holds
\* besides is of an earlier fit, which raised.
StepCoversWindow ==
  pc = "step" => \A p \in Param :
    /\ {m \in Messages(p) : m.fit = fit} = owed[p]
    /\ \A i, j \in DOMAIN grad[p] : i # j => grad[p][i] \cap grad[p][j] = {}

\* No gradient of one epoch reaches a step of the next: what is pending when an
\* epoch starts was left by a fit that raised, and the first epoch takes it in.
EpochStartsClean ==
  pc = "batch" /\ inEpoch = 0 => \A p \in Pending(grad) : epoch = 0 /\ \A m \in Messages(p) : m.fit < fit

\* No rewrite still runs once step() has returned or raised: none can write a
\* parameter behind the back of the next batch.
StepSettles ==
  pc # "step" => InFlight = {} /\ todo = {}

\* What a step and an epoch leave behind.
StepsSound ==
  /\ TypeOK
  /\ EpochStartsClean
  /\ StepSettles

=============================================================================
