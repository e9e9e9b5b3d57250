-------------------------------- MODULE Fits --------------------------------
(***************************************************************************)
(* Calls of Trainer.fit one after the other with the callbacks that keep   *)
(* state from epoch to epoch (train/callbacks): EarlyStopping passed to    *)
(* fit(), BestCheckpoint, and Curriculum, which reorders the               *)
(* PermutableSampler of the DataLoader (data/loader.py) by the severities  *)
(* the trainer noted.  What a batch does to the parameters is Trainer's.   *)
(*                                                                         *)
(* The agent is named by the number of validations it had; lower scores    *)
(* are better, and improve by at least min_delta when they differ.         *)
(***************************************************************************)
EXTENDS Integers, FiniteSets, SequencesExt, Filters

CONSTANTS Dataset,   \* len(dataset)
          LoaderSize, \* batch_size
          Scores,    \* what validation may give the loss; 0 is NaN
          Patience,
          FitBound, FitLength, \* bounds: calls of fit(), and the `epochs` of each
          Monitored  \* the key `monitor` of both callbacks is one of the summary of a validation

ASSUME FitsAssumption ==
  /\ {Dataset, LoaderSize, FitLength} \subseteq Nat \ {0} /\ {Patience, FitBound} \subseteq Nat
  /\ Scores \subseteq Nat /\ IsFiniteSet(Scores) /\ Scores # {} /\ Monitored \in BOOLEAN

VARIABLES drop,      \* drop_last
          place,     \* "out", "batches", "validated", of the fit that runs
          calls,     \* calls of fit()
          attached,  \* the EarlyStoppings in trainer._callbacks, by number
          stopping,  \* _should_stop
          epochNo, trained, \* epoch of the fit; validations the agent had
          perm,     \* PermutableSampler._order
          cursor,    \* indices the loader's iterator has consumed
          severity,  \* last_epoch_per_sample_severity: index -> severity, and in what order
          es,        \* the EarlyStoppings made: _best, _stale, and (history) what each was told
          best,      \* BestCheckpoint._best
          kept,     \* its file: the agent and its score
          reports,   \* EpochReports of the fit
          chosen,    \* what the report names best: its agent
          validations, \* history variable: all scores
          failedSave   \* history variable: writing a checkpoint has failed

fitsvars == <<drop, place, calls, attached, stopping, epochNo, trained, perm, cursor, severity,
              es, best, kept, reports, chosen, validations, failedSave>>

Infinite == Max(Scores) + 1
NaN == 0
Nothing == [agent |-> 0, score |-> Infinite]
Sequential0 == [i \in 1 .. Dataset |-> i]

-----------------------------------------------------------------------------
(* fit() *)

NewStopper == [best |-> Infinite, stale |-> 0, told |-> <<>>]

\* fit() is given no EarlyStopping, a new one, or one it was given before.  Callbacks
\* are kept: one that is passed again is appended again.
Attach(k) == /\ attached' = Append(attached, k)
            /\ es' = IF k \in DOMAIN es THEN es ELSE Append(es, NewStopper)

CallFit ==
  /\ place = "out" /\ calls < FitBound
  /\ calls' = calls + 1
  /\ \/ UNCHANGED <<attached, es>>
     \/ \E k \in 1 .. Len(es) + 1 : Attach(k)
  /\ stopping' = FALSE /\ reports' = <<>> /\ chosen' = 0
  /\ place' = "batches" /\ epochNo' = 0 /\ cursor' = 0 /\ severity' = <<>>
  /\ UNCHANGED <<drop, trained, perm, best, kept, validations, failedSave>>

\* _DataLoaderIter.__anext__
Chunk == SubSeq(perm, cursor + 1, IF cursor + LoaderSize > Len(perm) THEN Len(perm) ELSE cursor + LoaderSize)
Exhausted == Chunk = <<>> \/ (drop /\ Len(Chunk) < LoaderSize)

\* Each sample of the batch has its severity noted.
Batch ==
  /\ place = "batches" /\ ~Exhausted
  /\ \E how \in [DOMAIN Chunk -> {0, 1}] :
       severity' = severity \o [n \in DOMAIN Chunk |-> [index |-> Chunk[n], by |-> how[n]]]
  /\ cursor' = cursor + Len(Chunk)
  /\ UNCHANGED <<drop, place, calls, attached, stopping, epochNo, trained, perm,
                 es, best, kept, reports, chosen, validations, failedSave>>

\* A batch, an optimizer step or the validation raises.
FitFails ==
  /\ place \in {"batches", "validated"}
  /\ place' = "out"
  /\ UNCHANGED <<drop, calls, attached, stopping, epochNo, trained, perm, cursor, severity,
                 es, best, kept, reports, chosen, validations, failedSave>>

-----------------------------------------------------------------------------
(* on_validation_end, of each callback in the order it was attached:        *)
(* BestCheckpoint is given to the constructor, EarlyStopping to fit()        *)

Seen(score) == IF Monitored THEN score ELSE NaN

Beats(score) == Seen(score) # NaN /\ Seen(score) < best

Beyond(e, score) == Seen(score) # NaN /\ Seen(score) < e.best

\* Mutant: the count goes on after an improvement.
HeardKeeps(e, score) ==
  [e EXCEPT !.told = Append(@, score),
            !.best = IF Beyond(e, score) THEN score ELSE @,
            !.stale = IF Seen(score) = NaN THEN @ ELSE @ + 1]

\* EarlyStopping.on_validation_end
Heard(e, score) ==
  [e EXCEPT !.told = Append(@, score),
            !.best = IF Beyond(e, score) THEN score ELSE @,
            !.stale = IF Seen(score) = NaN THEN @ ELSE IF Beyond(e, score) THEN 0 ELSE @ + 1]

\* Each EarlyStopping as often as it is attached, in turn; any may ask to stop.
Hears(acc, k, score) ==
  LET e == Heard(acc.es[k], score)
  IN [es |-> [acc.es EXCEPT ![k] = e],
      stop |-> acc.stop \/ (e.stale > acc.es[k].stale /\ e.stale >= Patience)]

Told(score) ==
  LET upto[n \in 0 .. Len(attached)] ==
        IF n = 0 THEN [es |-> es, stop |-> stopping] ELSE Hears(upto[n - 1], attached[n], score)
  IN upto[Len(attached)]

\* freeze_agent may fail, when _best is set already; then fit raises.
Validate(score, fails) ==
  /\ place = "batches" /\ Exhausted
  /\ trained' = trained + 1
  /\ validations' = Append(validations, score)
  /\ best' = IF Beats(score) THEN score ELSE best
  /\ IF Beats(score) /\ fails
       THEN /\ place' = "out" /\ failedSave' = TRUE
            /\ UNCHANGED <<kept, es, stopping>>
       ELSE /\ place' = "validated"
            /\ kept' = IF Beats(score) THEN [agent |-> trained', score |-> score] ELSE kept
            /\ es' = Told(score).es /\ stopping' = Told(score).stop
            /\ UNCHANGED failedSave
  /\ UNCHANGED <<drop, calls, attached, epochNo, perm, cursor, severity, reports, chosen>>

-----------------------------------------------------------------------------
(* on_epoch_end, and the end of fit() *)

\* sorted() is stable.
OfSeverity(how) == [index : 1 .. Dataset, by : {how}]
HardFirst == Among(severity, OfSeverity(1)) \o Among(severity, OfSeverity(0))
Indices(seq) == [n \in DOMAIN seq |-> seq[n].index]

\* _build_training_report: NaN is worse than any, the first of equals is kept.
Score(r) == IF r.score = NaN THEN Infinite ELSE r.score
Picked(rs) ==
  IF rs = <<>> THEN 0
  ELSE rs[CHOOSE n \in DOMAIN rs : /\ \A m \in DOMAIN rs : Score(rs[n]) <= Score(rs[m])
                                   /\ \A m \in 1 .. n - 1 : Score(rs[n]) < Score(rs[m])].agent

\* Curriculum.set_order, then the next epoch or the end.
EpochDone ==
  /\ place = "validated"
  /\ reports' = Append(reports, [agent |-> trained, score |-> Last(validations)])
  /\ perm' = IF severity = <<>> THEN perm ELSE Indices(HardFirst)
  /\ cursor' = 0 /\ severity' = <<>>
  /\ IF stopping \/ epochNo + 1 = FitLength
       THEN place' = "out" /\ chosen' = Picked(reports') /\ UNCHANGED epochNo
       ELSE place' = "batches" /\ epochNo' = epochNo + 1 /\ UNCHANGED chosen
  /\ UNCHANGED <<drop, calls, attached, stopping, trained, es, best, kept, validations, failedSave>>

FitsInit ==
  /\ drop \in BOOLEAN /\ place = "out" /\ calls = 0 /\ attached = <<>> /\ stopping = FALSE
  /\ epochNo = 0 /\ trained = 0 /\ perm = Sequential0 /\ cursor = 0 /\ severity = <<>>
  /\ es = <<>> /\ best = Infinite
  /\ kept = Nothing /\ reports = <<>> /\ chosen = 0
  /\ validations = <<>> /\ failedSave = FALSE

FitsNext ==
  \/ CallFit \/ Batch \/ FitFails \/ EpochDone
  \/ \E score \in Scores, fails \in BOOLEAN : Validate(score, fails)

FitsSpec == FitsInit /\ [][FitsNext]_fitsvars

-----------------------------------------------------------------------------
(* Properties *)

MinOf(seq) == IF seq = <<>> THEN Infinite ELSE Min(ToSet(seq))
Numbers(seq) == Among(seq, Scores \ {NaN})
Improves(seq, n) == seq[n] < MinOf(SubSeq(seq, 1, n - 1))
Window == IF Patience = 0 THEN 1 ELSE Patience

\* The last scores, NaN left out, brought nothing better, as many as patience says.
Stagnant(seq) ==
  Len(seq) >= Window /\ \A n \in Len(seq) - Window + 1 .. Len(seq) : ~Improves(seq, n)

\* "Halts when a monitored metric stops improving for `patience`", not before: an
\* EarlyStopping that is attached once and alone ends a fit only then, also when
\* it counts on from a fit before, or that one failed.
StopIsDeserved ==
  place = "validated" /\ stopping /\ Len(attached) = 1 =>
    Stagnant(Numbers(es[attached[1]].told))

\* ... and no later, however many fits there were and whatever is attached.
PatienceEnds ==
  Monitored /\ place = "validated" /\ Last(validations) # NaN =>
    \A k \in ToSet(attached) : Stagnant(Numbers(es[k].told)) => stopping

\* BestCheckpoint's file is the agent of the best validation there was, in whichever
\* fit, the first of equals, unless the file could not be written.
CheckpointIsBest ==
  Monitored /\ ~failedSave =>
    LET least == MinOf(Numbers(validations))
    IN /\ kept.score = least
       /\ least # Infinite =>
            /\ validations[kept.agent] = least
            /\ \A n \in 1 .. kept.agent - 1 : validations[n] # least

\* The epoch a report calls best is the one whose agent the checkpoint holds, if the
\* fit is the first; later ones report at best as good.
ReportAgrees ==
  Monitored /\ chosen # 0 /\ ~failedSave /\ validations[chosen] # NaN =>
    /\ kept.score <= validations[chosen]
    /\ calls = 1 => kept.agent = chosen

\* A curriculum loses no sample and visits none twice, but for the one incomplete
\* batch that drop_last drops: those samples are never seen again, and no more.
CurriculumKeepsSamples ==
  /\ IsInjective(perm) /\ ToSet(perm) \subseteq 1 .. Dataset
  /\ Len(perm) >= IF drop THEN Dataset - (Dataset % LoaderSize) ELSE Dataset

\* Stopping, checkpoint, report and curriculum agree with the validations, over all fits.
CallbacksSound ==
  /\ StopIsDeserved
  /\ PatienceEnds
  /\ CheckpointIsBest
  /\ ReportAgrees
  /\ CurriculumKeepsSamples

=============================================================================
