---------------------------- MODULE TrainReplay ----------------------------
(***************************************************************************)
(* Fits under training_cassette_context (utils/cassette.py): while one is  *)
(* recorded, Trainer._fit_loop files what the parameters are after each    *)
(* optimizer step; in a replay it looks the steps up instead of taking     *)
(* them.  Each fit starts from the same agent and the same data.           *)
(*                                                                         *)
(* A value of a parameter is the number of the step that wrote it.         *)
(***************************************************************************)
EXTENDS Integers, Sequences, FiniteSets

CONSTANTS Owned,       \* the parameters of the optimizer: the path of each in its own agent
          TapeEpochs, TapeBatches,
          TapeSteps,   \* accumulation_steps
          Gives,       \* bound: the sets of parameters that a batch may give a gradient
          Recordings,  \* bound: fits recorded into the one file
          Replays      \* bound: fits replayed

ASSUME TrainReplayAssumption ==
  /\ Owned \in Seq(STRING) /\ Gives \subseteq SUBSET DOMAIN Owned
  /\ {TapeEpochs, TapeBatches, TapeSteps} \subseteq Nat \ {0} /\ {Recordings, Replays} \subseteq Nat

Index == DOMAIN Owned
OwnPaths == {Owned[i] : i \in Index}

VARIABLES mode,      \* "rest", "record" or "replay"
          fits,      \* bounds the fits: how many of each mode
          at,        \* epoch, batch_counter, batches of the epoch, step_idx, len(window_inputs)
          values,    \* of the parameters
          withGrad,  \* parameters that have a gradient
          writes,    \* steps taken so far, in all fits
          cassette,  \* the file, by key; a later line hides an earlier
          report,    \* the parameters at the end of each epoch of this fit
          recorded,  \* those of the last recording
          missed,    \* the replay raised TrainCassetteMiss
          flushed    \* history: epochs that the last recording ended with a residual flush

replayvars == <<mode, fits, at, values, withGrad, writes, cassette, report, recorded, missed, flushed>>

Fresh == [i \in Index |-> 0]
Start0 == [epoch |-> 0, counter |-> 0, batch |-> 0, step |-> 0, window |-> 0]

BeginFitAs(m, bound) ==
  /\ mode = "rest" /\ fits[m] < bound
  /\ mode' = m /\ fits' = [fits EXCEPT ![m] = @ + 1]
  /\ at' = Start0 /\ values' = Fresh /\ withGrad' = {} /\ report' = <<>> /\ missed' = FALSE
  /\ recorded' = IF m = "record" THEN <<>> ELSE recorded
  /\ flushed' = IF m = "record" THEN {} ELSE flushed
  /\ UNCHANGED <<writes, cassette>>

More == mode # "rest" /\ at.batch < TapeBatches
Due == (at.counter + 1) % TapeSteps = 0
Advanced == [at EXCEPT !.counter = @ + 1, !.batch = @ + 1, !.window = @ + 1]
Stepped == [Advanced EXCEPT !.window = 0, !.step = @ + 1]

\* _compose_train_key; the hash of the agent covers all its parameters.
Key(window) == [epoch |-> at.epoch, step |-> at.step, window |-> window, agent |-> values]

\* post_step_params: a dict by p.path.
Filed(vals) == [q \in OwnPaths |-> vals[CHOOSE i \in Index : /\ Owned[i] = q
                                                             /\ \A j \in Index : Owned[j] = q => j <= i]]

\* Mutant: what is filed is what the parameters were before the step.
KeepBefore(key) == [k \in {key} \cup DOMAIN cassette |-> IF k = key THEN Filed(values) ELSE cassette[k]]

Keep(key) == [k \in {key} \cup DOMAIN cassette |-> IF k = key THEN Filed(values') ELSE cassette[k]]

\* optimizer.step() writes each parameter that has a gradient; zero_grad() follows.
TakeStep(given, window) ==
  /\ writes' = writes + 1
  /\ values' = [i \in Index |-> IF i \in given THEN writes' ELSE values[i]]
  /\ cassette' = Keep(Key(window))
  /\ withGrad' = {}

\* A batch gives some parameters a gradient, and takes it from the others (see Trainer).
RecordBatch(given) ==
  /\ More /\ mode = "record"
  /\ \/ /\ Due /\ TakeStep(given, at.window + 1)
        /\ at' = Stepped
     \/ /\ ~Due /\ at' = Advanced
        /\ withGrad' = given
        /\ UNCHANGED <<values, writes, cassette>>
  /\ UNCHANGED <<mode, fits, report, recorded, missed, flushed>>

\* A replay runs the batches that end in no step, but their gradients change nothing.
ReplayBatch ==
  /\ More /\ mode = "replay" /\ ~Due
  /\ at' = Advanced
  /\ UNCHANGED <<mode, fits, values, withGrad, writes, cassette, report, recorded, missed, flushed>>

\* p.write(val) for the first parameter that has the path.
Restored(post) == [i \in Index |-> IF \E j \in Index : j < i /\ Owned[j] = Owned[i]
                                   THEN values[i] ELSE post[Owned[i]]]

ReplayStep ==
  /\ More /\ mode = "replay" /\ Due
  /\ LET key == Key(at.window + 1) IN
     \/ /\ key \in DOMAIN cassette
        /\ values' = Restored(cassette[key]) /\ at' = Stepped
        /\ UNCHANGED <<mode, missed>>
     \/ /\ key \notin DOMAIN cassette
        /\ missed' = TRUE /\ mode' = "rest"
        /\ UNCHANGED <<values, at>>
  /\ UNCHANGED <<fits, withGrad, writes, cassette, report, recorded, flushed>>

\* The residual flush, which a replay leaves out.
FlushTape ==
  /\ mode = "record" /\ at.batch = TapeBatches /\ withGrad # {}
  /\ TakeStep(withGrad, at.window)
  /\ flushed' = flushed \cup {at.epoch}
  /\ UNCHANGED <<mode, fits, at, report, recorded, missed>>

EndTapeEpoch ==
  /\ mode # "rest" /\ at.batch = TapeBatches
  /\ mode = "record" => withGrad = {}
  /\ report' = Append(report, values)
  /\ LET over == at.epoch + 1 = TapeEpochs IN
     /\ mode' = IF over THEN "rest" ELSE mode
     /\ at' = [at EXCEPT !.epoch = @ + 1, !.batch = 0, !.step = 0, !.window = 0]
     /\ recorded' = IF over /\ mode = "record" THEN report' ELSE recorded
  /\ UNCHANGED <<fits, values, withGrad, writes, cassette, missed, flushed>>

\* The fit raises; what was recorded stays in the file.
TapeFitRaises ==
  /\ mode # "rest"
  /\ mode' = "rest"
  /\ UNCHANGED <<fits, at, values, withGrad, writes, cassette, report, recorded, missed, flushed>>

ReplayInit ==
  /\ mode = "rest" /\ fits = [m \in {"record", "replay"} |-> 0]
  /\ at = Start0 /\ values = Fresh /\ withGrad = {} /\ writes = 0
  /\ cassette = <<>> /\ report = <<>> /\ recorded = <<>> /\ missed = FALSE /\ flushed = {}

ReplayNext ==
  \/ BeginFitAs("record", Recordings) \/ BeginFitAs("replay", Replays)
  \/ \E given \in Gives : RecordBatch(given)
  \/ ReplayBatch \/ ReplayStep \/ FlushTape \/ EndTapeEpoch \/ TapeFitRaises

ReplaySpec == ReplayInit /\ [][ReplayNext]_replayvars

-----------------------------------------------------------------------------
(* Properties *)

\* The last recording came to its end, so a replay has all its steps.
HasRecording == recorded # <<>> /\ mode # "record"

\* Up to the first epoch that the last complete recording ended with a residual
\* flush, a replay restores its parameters epoch by epoch and misses no step,
\* whatever the same file was given before.  The flush itself it leaves out: that
\* epoch ends with parameters that were never reported.  In a file of one recording
\* it goes wrong no further, for an epoch of at least one window has a step, which
\* it does not find; an earlier recording may have that step, and hides the damage.
ReplayRestores ==
  HasRecording =>
    /\ missed => \E x \in flushed : x < at.epoch
    /\ \A e \in DOMAIN report : (\A x \in flushed : e <= x) => report[e] = recorded[e]
    /\ fits["record"] = 1 /\ TapeSteps <= TapeBatches =>
         \A e \in DOMAIN report : report[e] # recorded[e] => e - 1 \in flushed

=============================================================================
