# operad: a verification project

operad builds agents out of typed calls to language models, runs trees of them,
and trains their prompts with textual gradients. Everything runs on an asyncio
event loop; around it are worker subprocesses, a daemon thread that posts events
to a dashboard, and the dashboard and studio servers. This directory holds TLA+
models of the parts where order, failure or cancellation decide whether the
program is right, the TLC runs that check them, and TLAPS proofs.

- Part 1: the system, component by component
- Part 2: the plan
- Part 3: the modules and how they follow the code
- Part 4: the runs, their bounds and their fairness
- Part 5: the proofs
- Part 6: findings
- Part 7: what is not modelled

## 1. The system

### Runtime

| component | state it keeps | operations | what is hard | what makes it right |
|---|---|---|---|---|
| **Slots** `runtime/slots.py` | per endpoint: an `asyncio.Semaphore`, an RPM and a TPM `SlidingCounter` (limit, events of the last minute, deque of waiters), a default cap | `acquire` (semaphore, RPM, TPM in that order), `SlotToken.settle`, `set_limit`, `set_default`, `occupancy` | three awaits in a row, each of which may be cancelled; waking and charging are different steps; limits change under waiters; refunds | no permit lost or duplicated, no ghost waiters, FIFO, a bounded overshoot |
| **Sandbox pool** `runtime/launchers/pool.py`, `sandbox_worker.py` | workers, idle queue, futures by request id, reader tasks, processes behind pipes | `start`, `call`, `_kill_worker`, `close`; the worker's loop | timers racing answers, workers that die idle, at work or while killed, cancellation, `close()` during `start()` | one request per worker, no call forgotten, workers leased to one call at a time |
| **HTTP forwarder** `operad/dashboard.py` | bounded queue, stop flag, a daemon thread | `on_event`, `_drain_loop`, `_post_batch_sync` (three attempts), `_flush_sync` at exit | two threads posting from one queue at exit; a POST that times out but is served | bounded loss at a clean exit, order, bounded exit |
| **Retry and inference cassette** `runtime/retry.py`, `utils/cassette.py` | entries by key, a JSONL file | attempts, backoff; record, replay | concurrent misses of one key; crashes in the middle of a line | one question per key and task, a replay that answers as the recording did |
| **Trace observer** `runtime/trace.py` | a bucket of steps per run, finished traces | `on_event`, `_finalize` | events after the root's | a filed trace is whole |

### Core

| component | state | operations | what is hard | what makes it right |
|---|---|---|---|---|
| **Agent lifecycle** `core/agent.py` | context variables: run, path, depth | `invoke`, `_invoke_envelope`, events start/end/error | nesting, exceptions and cancellation at each await | one end or error per start |
| **Streaming** `core/agent.py` | queue of 64 chunks, a driver task | `stream` | a consumer that is slow, leaves early or is cancelled | everything told, in order, one verdict |
| **Flow** `core/flow.py` | none | `Sequential`, `Parallel` (gather), `Loop`, `Router` | a failed gather leaves children running | children of a run end with it, or the run has failed |
| **State, clones, edits, parameters** `core/agent.py`, `utils/ops.py`, `optim/parameter.py` | fields of agents, Configurations they share, what an edit noted, cached values | `state`, `load_state`, `clone`, `apply`/`undo`, `parameters`, `read`/`write` | one object under several names; edits that overlap and fail; copies | edits roll back, copies and caches agree with what they copy |
| **Build, freeze, thaw** `core/build.py`, `core/freeze.py` | the tracer's stack, the graph | symbolic trace, freezing, thawing by path | one stack for the tasks of a gather; shared agents | the graph names every agent by its parent |

### Training

| component | state | operations | what is hard | what makes it right |
|---|---|---|---|---|
| **Tape** `optim/backprop/tape.py` | entries, pending stacks by path | `_on_start`, `_on_end`, `_on_error` | entries are found by path only | an entry per invocation, with its own output |
| **Backprop** `backward.py` | critiques by path, gradients | two passes over the tape | order of entries, repeated paths, gather | a gradient per parameter, of its own sample |
| **Trainer** `train/trainer.py` | batch counter, pending gradients, the files of a bundle | `fit`, `_run_batch`, residual flush, `save`, `load` | accumulation windows against epochs, failures, a crash between two writes | each step uses the gradients of its window, once; a resumed training goes on as planned |
| **Optimizers** `optim/optimizers/*` | momentum, history, populations, sessions | `step`, `zero_grad` | concurrent rewrites and evaluations, one of which fails | a step is over when it returns; what is written improves |
| **Callbacks, data loader, schedulers** | best score, stale count, sampler order, last epoch | hooks of `fit` | state kept from fit to fit, saved and loaded | stop and save when they should |
| **Training cassette** `utils/cassette.py`, `train/trainer.py` | parameters after each step, by key | record, replay | keys that are not unique | a replay restores what was recorded |
| **Algorithms** `algorithms/*` | drafts, candidates, cells; a conversation | runs of phases of gathered tasks; turns | gathers that fail, strays, callers that overlap | a run ends; results are of what was judged |

### Servers and applications

| component | state | operations | what is hard |
|---|---|---|---|
| **Dashboard** `apps/dashboard` | runs by id (LRU), subscriber queues, SQLite archive | `/_ingest`, `/stream`, notes, snapshots, hydration | eviction of live runs, snapshots in threads, terminal states, queues that drop their oldest event |
| **Studio** `apps/studio` | job files, training tasks, subscriber queues | ratings, launch, subscribe | read-modify-write of a file, replay into a bounded queue |
| **Uthereal** `apps/uthereal` | files of a run directory, YAML prompts, cassettes | run, feedback, blame, fix, verify | commands that die between two writes |
| agents, metrics, benchmark, frontend, demos | | | prompts; pure functions; user interface |

### How they interact

`Agent.invoke` notifies the observers (`Tape`, `TraceObserver`, the HTTP
forwarder, ...) of its start and its end; a leaf's `forward` looks its key up in
the cassette, acquires a slot, calls its provider with retries and settles the
slot. `Parallel` gathers children, each in a task of its own. `Trainer.fit`
opens a tape around one root invocation per sample, walks it with `backward`,
and lets the optimizer rewrite parameters concurrently, under the training
cassette if there is one. The HTTP forwarder turns events into POSTs that the
dashboard ingests and archives. Studio trains on a job file that people rate.
Tools that agents call run in the sandbox pool.

## 2. The plan

Most important first; *done* means modelled, checked and described in part 3.

1. `Slots` with `BoundedAdmission`: *done, proved*.
2. `SandboxPool` with `WorkerLease`: *done, proved*.
3. `HttpForward` with `LossyFifo`: *done, proved*.
4. `AgentRun` (agents, composites, tape, trace) and `AgentTree` (state, clones,
   edits, parameters): *done, proved*.
5. `Trainer`, `Backprop`, `TrainReplay`, `Resume`, `Fits`: *done, proved*.
6. `Stream`, `Cassette`: *done, proved*.
7. `TrainingLauncher`, `JobFile`, `Uthereal`, `Dashboard`: *done, proved*.
8. `Talker`, `ValueSearch`, `Algorithms`, `Evolution`: *done, proved*.
9. `Build`: *done, proved*.

A composition in which the server of `HttpForward` ingests into `Dashboard` is
left out: the dashboard is checked against envelopes in any order and more than
once, which is all that `HttpForward` can do to it.

## 3. The modules

All the models of asyncio code share one rule: an action is the code between two
awaits. Nothing else runs in there, so it is atomic, and whatever else may run at
the await does so between two actions.

### Slots, BoundedAdmission

`Slots` is one endpoint of the `SlotRegistry`. `sem` is the `asyncio.Semaphore`:
free permits, the queue of waiters, and those a permit has been handed to
(`granted`: the future is done, the task not yet resumed). `rpm` and `tpm` are
the two counters; the events of a counter are kept as the amounts charged at
most so many ticks ago, from 0 to `Window`, and the total of the deque, so `Expire`
brings the total down to what the window holds, `Refund`, which takes from the newest
first, brings each amount down by what it is asked for, and `Tick` ages all. `pc[t]` says where
a task is suspended: in the semaphore, at a counter, or in its provider call.

| action | code |
|---|---|
| `Acquire`, `RpmGate`, `TpmGate`, `TpmCharge` | `acquire` from its entry as far as it gets without waiting |
| `SemResume`, `RpmResume`, `TpmResume` | a woken task goes on, and charges only now |
| `Finish` | `Agent.forward` settles with the real cost, `acquire`'s `finally` settles again with 0, the semaphore is released |
| `CancelRequest`, `Cancelled` | `task.cancel()`, and the `CancelledError` at the await it hits |
| `SetRpm`, `SetTpm`, `SetDefault`, `ReadOccupancy` | the registry's methods |
| `Tick` | the monotonic clock |

`asyncio.Semaphore` is modelled from CPython (`locked`, `acquire`, `release`,
`_wake_up_next`) and marked external. `BoundedAdmission` is the promise: at most
`Cap` callers inside, coming and going one at a time, or one handing its place
to the next.

### SandboxPool, WorkerLease

The workers of a pool, their processes and pipes, the reader tasks, the tasks in
`call()`, and `close()`. `inbox` and `outbox` are a worker's stdin and stdout;
what a dead process wrote can still be read. `Begin`, `Spawn`, `Take*` are
`call()` up to its `wait_for`; `Succeed`, `FailAndReturn`, `FailAndKill`,
`TimeOut` and `Cancel` are its ways out; `Reaped` is the end of
`_kill_worker`; `ReadLine`, `ReadEof` and `ReaderBreaks` are the reader; `Answer` and
`Exit` the process; `Close*` the steps of `close()`. A reader (`listener`) runs, has
seen the EOF, or broke: at a line over 64 KiB `readline` raises, at JSON that is no
object `msg.get` does, and the task ends with `alive` still true and its futures
unresolved. Its worker goes on being leased; the calls it is given end by their timer,
or by `CloseDrains`, the second half of `close()`, which fails what is left. The faults
the environment may commit are in the constant `PoolFaults` (`"badline"` is this one).
A call is made once, so it is also its uuid. `WorkersSound` bundles the type invariant,
`OneRequestPerWorker` and `AwaitedIsReachable` (a call that waits has its future with a
worker that passes for alive, whose reader runs or broke); `HeldCallEnds` is what the
second case rests on: every call that got a worker ends, at the latest by its timer.
`WorkerLease` is the promise: a worker is leased to one call at a time, and once
dropped it is never leased again.

### Trainer

`fit` with `TextualGradientDescent`. A gradient is the sequence of the batches whose
messages it merges, newest first, each the set of the samples that gave one: so
`StepCoversWindow` can tell a sample that is missing from one counted twice. `RunBatch` is a batch: it merges what the samples gave with
what was pending, and starts a step when the window is full. The step is cut at
its awaits: `Acquire` (the semaphore of `_apply_updates`, and the lookup of the
memoized rewriter), `Built`, `Rewritten`, then `StepDone` or `StepRaises`.
`Flush` is the residual step of an epoch. `owed` is a history variable: what this fit
gave and no step has taken. What an earlier fit left when it raised is taken in by
the first steps of the next one, and told apart by its number. `StepsSound` bundles the
type invariant, `EpochStartsClean` and `StepSettles` (no rewrite outlives its step).

### HttpForward, LossyFifo

The queue filled by `on_event`, the daemon thread (`Check`, `GetFirst`,
`GetEmpty`, `Fill`, `Full`) and `_flush_sync` (`BeginFlush`, `Join`, `Collect`,
`Collected`). Both post through the same actions: `Send`, `PostDone`, `Refused`,
`TimesOut`. Here an action is one call on the shared queue or one attempt of a
POST, since threads interleave anywhere. A request stays on the `wire` after its
client gave up: the dashboard may serve it later (`Serve`, external). `excused`
is a history variable: events dropped on a full queue or after the last attempt.
`LossyFifo` is the promise: in order, at most once, any may be lost. With
time-outs the code keeps it only until the first of them: a POST that was given
up may be served after its retry (`OrderWhilePrompt`).

### AgentRun

Runs made one after the other over a tree of sites, each an invocation.
They form a tree (`AgentRunAssumption`): a site is one invocation, so an agent that is
called twice is two sites. `Sequential` and `Loop` await their kids in turn,
`Parallel` gathers them, and the first kid of a `Router` chooses one of the
others, or none. Two sites may have the same path: the passes of a loop over one
stage do. `PathsApart` says that only such sites do, and that siblings a
`Parallel` gathers have paths of their own (see part 6). `turn` is
the invocation whose coroutine is running: between two siblings of a
`Sequential` nothing else runs, while a gather only wakes its parent. `Start`
is the start event and `forward` up to its first await; `Rejects` an input that
validation refuses, `Answer` and `Raise` the provider's reply at a leaf,
`Stage` and `Gathered` what a composite does when its kids come back,
`NeverStarts` a task cancelled before its first step, `Cancel` a cancellation of
the root's task, passed down to what it awaits.
The tape is a tape per root run, opened as the trainer does: an invocation left
behind by a failed gather meets the tape of the *next* run. `TapeStart`,
`TapeEnd`, `TapeError` and `TraceStep` are the observers' handlers, part of the
action that raises the event; `TapeError` is `list.remove`, which drops the first
entry that equals the one it popped. `TapeSound` bundles the type invariant, `WholeTape`
(an entry for all that ran, each with its own output) and `ParentsFirst`;
`RunsApart` bundles `OnlyFailedRunsStray` and `WholeTrace`; `CallsEnd` is liveness.

### AgentTree

A tree of agents as something that is read and changed. Agents and
Configurations are objects with identity: `tree.walk` lists each agent with every
path it hangs under, and `tree.cfg` says which agents hold one Configuration, as
those do to whose constructors one was passed. `CloneOf` and `LoadState` are `clone`
and `load_state`, which copy Configurations; `Apply` and `UndoLast` a
`CompoundOp` of `utils/ops.py`, whose edits remember what they replaced
(`before`) and are objects too, which two compounds may hold; `OpenHandles` makes
the `Parameter`s of an optimizer, `Write` is `Parameter.write`, `Evolve` the clone,
mutation and write-back of EvoGradient, `SetFlags` a call of `mark_trainable` or
`freeze_parameters`. `EditsSound` bundles `CompoundsRollBack` (a compound that
fails, or is undone, leaves every path as it was, from any reachable state),
`FoundIsWritten` (the root becomes the individual that was found) and
`HandlesLive` (the value an optimizer starts from is the one that is there).

Facts, which the conditions of these properties exclude: an agent under two
parents is cloned twice, and of its two clones the one loaded last wins, so that
a mutation of the other is lost at the write-back; two Parameters of one place
keep stale values of each other; one Configuration passed to several leaves is
one object, so that writing one leaf's temperature changes all of them, until a
clone, a load or an edit gives each its own; `undo` of a compound whose edit was
also applied, and undone, by another one raises midway. Others: an empty compound
cannot be undone; `requires_grad` is copied when a Parameter is made, and is TRUE
by default, so `mark_trainable(**{"stage_1.task": True})` restricts nothing,
contrary to the comment in `TRAINING.md:81`; `mark_trainable(temperature=True)` at
a composite root sets the fields before it and raises `KeyError`.

### Stream

`Agent.stream`: the driver task (`Admit` takes the slot, `Piece` reads the
provider, `Complete` ends it, `Put` and `PutOrDrop` fill the bounded queue) and
the generator (`Open`, `Get`, `Ask`, `JoinDriver`). Its consumer may stay away
for as long as it likes between `Get` and `Ask`, `Leave` (`GeneratorExit`), or
be cancelled, at the queue (`CancelGet`) or at the join (`CancelJoin`).
`StreamSound` bundles `StreamTold` (what the consumer saw is what the provider
sent, in order and without a gap) and `VerdictIsLast` (one end or error, after
all chunks). Two facts that the model showed: a consumer that breaks after the
last envelope makes the run end with an error event; and one that leaves while
more than `BufferSize` items are outstanding never returns, for `finally` awaits
a driver that waits for room. `StreamEnds` excepts exactly these states,
`LeftStuck`, for the code promises nothing about them; the driver's slot stays
taken.

### Cassette

Calls of leaf agents under `cassette_context`, with `with_retry`. `AskFor` is the
lookup and, on a miss, the first attempt; `AttemptFails`, `RetryNow`, `GiveUp`,
`CancelAsk` and `Answered` are its ways on; `OpenSession`, `CloseSession`,
`Discard` and `CassetteCrash` are what happens to the file. `RecordingSound`
bundles `AskedOnce` (a task does not ask for a key that was on the tape when it
looked) and `ReplayAnswersAlike`. What the code does not promise: two concurrent
calls of one key both ask and both append, and a replay then gives the later
answer; an answer whose line cannot be written lives in memory only; a crash in
the middle of a line makes the whole file unreadable for later sessions; in record mode a
known key is answered from the file.

### Backprop

`backward()` over one tape after the other. Pass 1 (`Pass`, `Propagate`,
`PropagateAny`) hands critiques from the root down, keyed by path; a critique is
the sequence of the entries it was refined at. Pass 2 (`Dispatch`, `AskGrad`,
`WriteGrad`, `Gather`) runs a task per parameter of a leaf under a semaphore;
`GradRaises` fails one, and the others go on as strays (`StrayEnds`).
`GradientsSound` bundles `ChainUnbroken` (a critique was refined once at each
composite from the root down to its leaf, in order: `LeadsTo`), `ReachesEveryLeaf` (of
the leaves that no selector calls, `Reached`, unless a critique came out null, or a
branch that a Router called was given none: `muted`) and `GradOfItsSample`. A leaf that occurs twice gets the
gradient of the first entry's input with the last pass's critique; strays of a
failed backward land in the next fit's gradients; of an agent under two paths the
earliest entry wins.

### TrainReplay

A fit under `training_cassette_context`: `RecordBatch` files the parameters
after a step (`Keep`), `ReplayBatch` and `ReplayStep` look them up. `FlushTape`
is the residual step of an epoch whose batches are no multiple of
`accumulation_steps`; only a recording takes it (`trainer.py:399`), and the history
variable `flushed` notes the epochs it ended. `ReplayRestores` says how far a replay
can be trusted: up to the first such epoch of the last complete recording each epoch
ends with the values it had there, and no step is missed; and in a file that one fit
was recorded into, the flushed epochs are also the only ones that come out otherwise,
for the next one misses its first step. In a file of two recordings an earlier one may
have that step, and the replay goes on, with other values and without a word. It is
checked where parameters have distinct local paths, and violated where they have not
(part 6). Batches that take no step still call the model in a replay, though
`cassette.py` says a replay skips every call; their gradients stay on `p.grad`.

### Resume

`Trainer.save` writes its file twice (`SaveBegins`, `AgentFrozen`, `Rewrites`,
`Saved`) and `Crash` may come before, in or after each; `LoadBundle` takes what
is there. With it go the schedulers (`GetLr`, `Advance`), alone, in a
`ChainedScheduler` or a `SequentialLR`, and the history of `MomentumTextGrad`.
`ResumesAsPlanned` bundles `RateAsPlanned` (after every epoch the rate is the
planned one, whatever crashes came) and `HistoryIsWindow`. What is planned is in the
history variable `plan`: the rate the schedule started from, and after which epoch. It
outlives a save and a load, but for one case, which the property thereby describes
and does not except: from a bundle without scheduler state `load` silently starts the
schedule again, at its first epoch, with the decayed rate of the bundle as its base.
Such a bundle is what a crash between the two writes of `save` leaves, and every
bundle of a `SequentialLR` or `ChainedScheduler`, whose state is never saved
(`isinstance(…, LRScheduler)`). Facts: a crash in `save` can destroy the previous
bundle; a history that was loaded is of plain dicts, so
that a momentum other than 1.0 makes the next step raise. The first epoch of a
`Warmup` runs at the full base rate. `ReduceLROnPlateau` cannot be stepped by
`Trainer`, which passes no metric.

### Fits

Calls of `fit()` with callbacks that keep state: `EarlyStopping` passed to
`fit`, `BestCheckpoint`, and `Curriculum` over a `PermutableSampler`.
`CallbacksSound` bundles `StopIsDeserved` and `PatienceEnds` (a fit stops when,
and only when, the scores it heard call for it), `CheckpointIsBest`,
`ReportAgrees` and `CurriculumKeepsSamples`. Facts: `monitor="val_loss"`, the
default, is no key of a report, so that by default `EarlyStopping` never stops
(constant `Monitored`); a callback passed to a second fit is appended once more
and hears each validation twice; the best score and the stale count outlive a
fit; `BestCheckpoint` notes its best before freezing may fail; `drop_last` with a
curriculum loses the samples of an incomplete batch for good. Without a monitored key
there is nothing to stop for, so `PatienceEnds` and `ReportAgrees` presuppose one.
`StopIsDeserved` is of an `EarlyStopping` that is attached once, `CheckpointIsBest` of a
checkpoint that could be written each time; `PatienceEnds` holds whatever is attached.

### Dashboard

The registry (`Ingest`, `PostGraph`: `Ensured`, `Touch`, `Evicted`, `Bounded`),
the stream (`Subscribe`, `ReadFeed`, `Disconnect`), the threads that archive
ended runs (`ReadSummary`, `TakeLock`, `Commit`, `GiveUp`), notes, deletion, restoring
and `Restart` with its hydration. Who waits for SQLite's lock beyond the five seconds
of `sqlite3.connect` gives up: a snapshot is then lost without a word (`GiveUp`), an
edit of notes ends in a 500 (`EditFails`, `SetFails`). A run may end more than once,
and not the same way each time (`Endings`): an algorithm bears the run id of the agent
that calls it. `ArchiveSound` bundles `DashTypeOK`, `ArchiveSettles` and `FeedIsRecent`
(a full queue keeps the newest events). `ArchiveSettles`: when no snapshot of a live run
that has just ended is under way, its row has all its events and one of its
verdicts, never "running". It is the verdict the registry has, unless the run
was *overtaken*: its last end came while a snapshot was under way that had read
another state. Then the two threads race, and the older one may commit last: the archive
keeps a verdict that the run no longer has. Nothing is claimed of a run that *lost* a
snapshot to the lock, until it ends again or the server restarts. `overtaken` and `lost`
are history variables. Facts: hydration goes through the archive newest first,
so the oldest `RunCapacity` runs stay in memory, contrary to `runs.py:6`; threads
may commit out of order; a snapshot that fails is not retried; an evicted run
that a late event brings back overwrites its archived history.

### TrainingLauncher, JobFile

Studio. A training is a task (`Start`, `Load`, `Fit`) whose events go to its
status and to the queue of every stream (`Join`, `Read`, `Leave`); a second
training gets a new status while old streams remain; `Put` is an emission into a queue
that drops its oldest event when it is full. `StreamsSound` bundles
`StreamIsFaithful` (a client that was not lapped reads every event once, in
order), `VerdictIsOfJoined` and `EndWaits`. `JobFile` is the JSONL file that
`save_rating` rewrites (`SaveRead`, `SaveReplace`, `SaveFails`), the loss caches by
time stamp (`LoadStat`, `LoadRead`, `LoadEnds`) and a callback appends to;
`RatingsReachLoss` bundles `RatingKept` (what was saved is in the file, in the first
row of its id) and `LossUpToDate` (a cache with the stamp of the file has, of each id,
the rating of its last row; which is the one that was saved, if the id has one row).
Rows appended between the read and the replacement are lost. Of rows with the same id
Studio rates the first and the loss reads the last, so that a rating of such an id
never reaches the loss.

### Uthereal

The commands `run`, `feedback`, `blame`, `fix` and `verify` on one run
directory, with what each reads and writes (`disk`), the YAML prompts and the
cassettes. A command may die between two writes (`Dies`). `CallLeaf` is one leaf
of the workflow, answered by a cassette or anew. `LoopSound` bundles
`RunsReplayable`, `VerifyShowsTheFix`, `FixSawTheLeaf`, `BeforeIsOneRun` and
`MetadataStay`. Facts: `entry.json` drops an inline workspace, so `fix` and
`verify` see another than `run` did, though `verify.py:216` says it is the same;
the template that `feedback --no-editor` leaves has comments that `blame` cannot
parse; a second fix after an applied one misses the cassette until `verify` has
recorded again; an `AssertionError` in `apply_fix` leaves the YAML changed and no
`fix.json`.

### Algorithms, Talker

`Algorithms` is AutoResearcher (with any `max_iter`, 0 included: each first draft
stands), Beam, Sweep, Debate and SelfRefine: a run goes
through `Phases`; `Begin` and `NextPhase` start a task per branch, `Admit`,
`Return` and `Raise` are its calls, `Fail` hands on the first exception and
leaves strays, `Cancel` withdraws what the gather awaits. `AlgorithmsSound`
bundles `TypeOK`, `StraysOnlyOfFailure`, `VerdictIsOfLastDraft`, `BestKept` and
`SweepBounded`; `RunsComplete` is liveness. Facts: a sweep that failed goes on
through its queued cells; strays of AutoResearcher emit events after `algo_error`; a cancelled run
emits no terminal event; AutoResearcher returns its last draft, not its best.

`Talker` is TalkerReasoner with several callers: a turn reads the current node
(`StartTurn`), awaits two agents (`Navigated`, `Spoken`) and moves the
conversation, while another turn or a `Reset` may come in between.
`ConversationSound` bundles `ConversationConsistent` and `SequentialTurnsWalk`.

### ValueSearch, Evolution

`ValueSearch` is `APEOptimizer` and `OPROOptimizer` with `_apply_updates`:
concurrent updates of parameters under a semaphore, each of which proposes, evaluates
and writes; steps end when all are over. APE samples (`Sample`), scores
(`ScoreCurrent`, `ScoreCandidate`) and writes (`WriteWinner`). OPRO proposes (`Propose`),
scores and files its candidate (`Evaluate`), tells the observers (`opro.py:380`, an
await), and only then writes it or asks again (`Decide`): an update that is cancelled, or
whose strict observer raises, at that await leaves a record in its history that no
parameter ever held (`dropped`), and nothing that merely equals it is accepted later.
`SearchSound` bundles `UpdatesWithinStep` and `HoldsRecord` (a parameter holds the newest
record that an update lived to write), `SearchStepsSound` the action properties
`WritesBeatWindow`, `SerialWritesImprove` (with one update at a time no write worsens
the score) and `RunSpansSession`.
Facts: with more, concurrent writes may jointly worsen it; `history_k` drops the
best from the window, contrary to `opro.py:6`; OPRO always accepts its first candidate; a
cancelled step leaves its run open.

`Evolution` is EvoGradient: tasks build the population, with retries and a
fallback; `Evaluated`, `Refilled`, `Rebuilt` are the parts of a generation, and
`GenerationFails` may end each. `EvolutionSound` bundles `RootNeverDeclines`,
`PopulationWhole` and `GenerationsInOrder`. Facts: the first generation may
worsen the root; a failed generation is announced again under its index; the
state is loaded before a rebuild that may fail.

### Build

`abuild_agent` over a tree of agents, its tasks and the ready queue of the event
loop, which is FIFO and deterministic (`ready`). `CallKid` and `Spread` are the
calls and gathers of a composite's `forward`, `CallBack` a gather that ends,
`RaiseOn` an exception on its way out. `stack` is `Tracer._stack`, one for all tasks.
`BuildSound` bundles `TraceEnds`, `GraphNamesAgents` and `CalmTreesThaw`: the trace
ends with an empty stack; where no gather is under way beside another call (`Calm`),
and only there, the graph names every agent by its parent, and what is frozen can be
thawed. Elsewhere it cannot (part 6). Facts: an
agent shared by two parents has one path in the class map, and thawing raises;
`Edge.caller` is found by `id()` of a value that may have died; a runner that
fails to start leaves earlier leaves with theirs.

### Support

`MC*` modules give the constants values. Several of them hold a *selector*: the
variable `program`, chosen initially, names the one of several independent
modules that runs, while the others rest in an initial state of theirs. Such a run
is several checks in one, since no program touches another's variables.
Some properties are *bundles*: a conjunction of named invariants of one module,
which are each stated in words and listed in part 3. The modules `*Proofs` hold the
theorems, and `SeqLemmas` what they need to know of sequences and of the operators
of the community modules (`RemoveFirst`, `ToSet`, `Last`, `SubSeq`, appending,
concatenating). `Filters` has `Among`, what of a sequence is in a set, as a recursive
function that the provers can follow; `Fits` and `Dashboard` use it. A definition whose comment begins with *Mutant* is a plausible bug of
the definition after it; nothing uses it but `PROJECT.json`, which names the
property each one breaks.

## 4. The runs

| run | states | what it checks |
|---|---|---|
| `slots_gates` | 132,780 | three tasks on two permits, RPM limits 1 and 2, TPM limit 3, cancellation anywhere: `TypeOK`, `PermitConservation`, `NoIdlePermit`, `NoGhostWaiters`, `FifoWakeups`, and `AdmissionRefined`: the gates implement bounded admission |
| `slots_progress` | 39,024 | overlapping calls of unlike reserves under fixed limits: `RpmOvershoot` (at most one request too many per further permit), `LedgerCovered` (nothing on the TPM counter beyond real costs and live reserves), and `NoWaiterStarves`: a task waits for ever only if the endpoint has stalled, every permit being held by tasks that wait at a counter |
| `slots_unlimited` | violated | `UnlimitedFreesWaiters` |
| `faults` | 383,648 | `HttpForward`: `LossBounded`, `OrderWhilePrompt`, `FlushEnds`; `Stream`: `StreamSound`, `StreamEnds`; `SandboxPool`: `WorkersSound`, `LeaseRefined`, `HeldCallEnds`; `Cassette`: `RecordingSound` |
| `pool_leak` | violated | `NoWorkerLost` |
| `agent_run` | 641,597 | `AgentRun`: `TapeSound`, `RunsApart`, `CallsEnd`; `AgentTree`: `EditsSound` |
| `training` | 1,898,823 | `Trainer`: `StepsSound`, `StepCoversWindow`; `Backprop`: `GradientsSound`; `TrainReplay`: `ReplayRestores`; `Resume`: `ResumesAsPlanned`; `Fits`: `CallbacksSound`; `TrainingLauncher`: `StreamsSound`; `JobFile`: `RatingsReachLoss`; `Uthereal`: `LoopSound`; `Dashboard`: `ArchiveSound` |
| `trainer_sparse` | violated | `StepCoversWindow` when a batch may leave a parameter without gradient |
| `train_replay` | violated | `ReplayRestores` when two leaves train the same field |
| `dashboard_notes` | violated | `NotesSurvive` |
| `programs` | 949,515 | `Algorithms`: `AlgorithmsSound`, `RunsComplete`; `Talker`: `ConversationSound`; `ValueSearch`: `SearchSound`, `SearchStepsSound`; `Evolution`: `EvolutionSound`; `Build`: `BuildSound` |
| `build_thaw` | violated | `FrozenThaws` |

**Bounds, and why they are enough.** A bound lets every case of a module happen
once and, where something is left over, once more after it.

- *Slots*: three tasks on two permits: one may hold a counter's queue, one stand
  behind it, one stand in the semaphore. A window of one tick has amounts that
  count, that are about to expire and that have.
- *SandboxPool*: two calls on two workers let one be killed while the other is
  leased, and one queue behind the other when one worker is left; every fault may come
at any time, bad lines too.
- *HttpForward*: three events through a queue and batches of two, which are full,
  half full and empty; two attempts, so that the second may overtake the first.
- *Stream*: four pieces through a queue of two, so that it fills and drains; three
  cancellations, of the queue, of the join, and one more. *Cassette*: two tasks,
  two keys, two attempts, three answers over three sessions: one that records, one
  that crashes, one that replays.
- *AgentRun*: two runs are enough for what one leaves to the next; the tree has
  every composite, concurrent siblings, and a path visited twice. *AgentTree*: the
  four agents make six trees: an agent once, twice under one parent, or under two
  parents, and one Configuration or two; four operations suffice to apply two
  compounds, read handles, and write or evolve. The edits meet on
  one agent. Nine Configurations (`Configs`) leave some to spare: the largest tree has five
  places.
- *Trainer*: three batches against windows of two leave a residue at the end of the
  first epoch, which moves the windows of the second; two parameters of one kind
  share a rewriter; two fits, the second of which starts with what a failed first one
  left. *Backprop*: three backward passes, gradient tasks one at a time.
  *TrainReplay*: two epochs of three batches with windows of two, so that each epoch
  has a residue, which the batches may leave empty; of the two parameters a batch trains
  one, or none (`Gives`); two fits are recorded into one file and two are replayed. *Resume*: four epochs and steps with two crashes; rates
  are integers from 64 with halving, a history of two. *Fits*: two fits of up to two
  epochs over three samples in batches of two, scores 0 to 2, patience 1.
- *Dashboard*: each initial state has one of five budgets of operations: of
  two ingests and an edit, of three with a restart or a removal, of two with both, of
  two and a connection, whose queue the statistics help to fill; a subscriber's queue of two, where the code has 1024 (`observer.py:17`).
  *TrainingLauncher*: queues of five events, two trainings. *JobFile*: three rows, six
  writes. *Uthereal*: five commands, which is each of them once.
- *Algorithms*: three branches, two at a time, two iterations, scores 1 and 2.
  *Talker*: two callers, three turns, a tree in which one may go on, back, and
  stay. *ValueSearch*: values 0 and 1, a window of two, three steps, the last of them of
  one parameter (`MCLastStep`). *Evolution*: a
  population of three, two generations, one failed attempt, one stray: that three tasks
  which build candidates fail together is not seen.
  *Build*: all 2,304 trees of six agents up to depth three with the given shapes.

**Symmetry** is used over the tasks of `slots_gates`, where all reserve the same,
and over the parameters of one kind in `trainer_sparse`; no run with a liveness
property has it. In `faults` the workers of the pool are spawned, and its calls begin, in
one order (`InOrder`), for any other is the same but for the names.

**Fairness.** The event loop resumes what is ready: weak fairness of the steps
of a task. `Slots`: a provider call ends (retries are bounded). Nothing is assumed of
the clock, of new calls or of `set_limit`, for nothing in `slots.py` wakes a waiter when
the window rolls over: so the property has the second case, `Stalled`, which is what the
code leaves its callers in when nobody comes. `SandboxPool`: a call that can go on does,
by a result or by its timer; nothing is assumed of workers, pipes, readers or `close()`.
`HttpForward`: threads run and a POST ends, if only by its
timeout. `Stream`: the driver runs and a consumer that asked gets what is there;
that it asks again is not assumed. `AgentRun` and `Algorithms`: what can step does,
and a call ends. Where a run has a selector, the fairness of a program is
conditioned on its being the one that runs.

**Deadlock** is checked in the runs of `Slots` and in `trainer_sparse`. Elsewhere `CHECK_DEADLOCK FALSE`
says that the program may stop: the calls of a pool wait for ever in
`idle.get()` once no worker is left, a stream may be left while its queue is
full, and the other programs end.

**What the models assume.** Losses and evaluations give the same value for the
same input; two writes of a file have different time stamps; one write to a file
is atomic, several are not; commands of Uthereal do not overlap, and neither do
sessions of one cassette; the tasks of a training are cancelled only when
the server shuts down. The order in which a semaphore admits updates is left open
in `ValueSearch`, which allows more than asyncio does. Shuffles are left out, and
slots held while a retry sleeps are the subject of `Slots`.

## 5. The proofs

Every theorem below is checked by TLAPS for all values of the constants that the
`ASSUME`s of the modules allow; TLC evaluates those on every run. A theorem about an
invariant that a run checks names the same definition.

| theorem | module | says |
|---|---|---|
| `SlotsGateInv`, `SlotsPermits` | `SlotsPoolProofs` | `Spec => []PermitConservation` |
| `SlotsRefine` | | `Spec => AdmissionRefined`: every step admits one, lets one leave, hands over, or stutters |
| `SlotsNoIdlePermit` | | `Spec => []NoIdlePermit` |
| `SlotsNoGhosts` | | `Spec => []NoGhostWaiters` |
| `SlotsFifo` | | `Spec => FifoWakeups` |
| `SlotsTypeOK` | | `Spec => []TypeOK` |
| `SlotsRpmOvershoot` | | if `RpmLimits \subseteq {Rpm0}`, `Spec => []RpmOvershoot` |
| `SlotsLedgerCovered` | | if `0 \notin TpmLimits`, `Spec => []LedgerCovered` |
| `PoolInvariant`, `PoolWorkersSound` | | `PoolSpec => []WorkersSound` |
| `PoolRefines` | | `PoolSpec => LeaseRefined` |
| `HttpTypeOK` | `EventsProofs` | `Spec => []TypeOK` |
| `HttpLossBounded` | | `Spec => []LossBounded` |
| `HttpNothingLost` | | `Spec => []NothingLost`, if no POST times out |
| `HttpOrderWhilePrompt` | | `Spec => OrderWhilePrompt` |
| `ArchiveAlwaysSound` | | `DashSpec => []ArchiveSound` |
| `StreamInvariant`, `StreamAlwaysSound` | `AgentCallProofs` | `StreamSpec => []StreamSound` |
| `RecordingAlwaysSound` | | `CassetteSpec => []RecordingSound` |
| `RunInvariant`, `RunsStayApart` | | `Spec => []RunsApart` |
| `TapeAlwaysSound` | | `Spec => []TapeSound`, if `PathsApart` |
| `TreeAlwaysSound`, `EditsAlwaysSound` | | `TreeSpec => []TreeSound`, `MCSpec => []EditsSound` |
| `TrainerStepsSound` | `TrainerProofs` | `Spec => []StepsSound` |
| `TrainerStepCovers` | | `Spec => []StepCoversWindow`, unless `Sparse` |
| `ResumeAlwaysAsPlanned` | | `ResumeSpec => []ResumesAsPlanned` |
| `ReplayAlwaysRestores` | | `ReplaySpec => [](ReplayRestores /\ RestoresAll)`, if windows are whole and paths distinct: then every epoch of a replay is restored and no step missed |
| `BackwardAlwaysSound` | | `BackSpec => []GradientsSound` |
| `CallbacksAlwaysSound` | | `FitsSpec => []CallbacksSound` |
| `JobRatingsReachLoss` | `AppsProofs` | `JobSpec => []RatingsReachLoss` |
| `LaunchStreamsSound` | | `LaunchSpec => []StreamsSound` |
| `LoopAlwaysSound` | | `LoopSpec => []LoopSound` |
| `TalkAlwaysSound` | `AlgorithmsProofs` | `TalkSpec => []ConversationSound` |
| `SearchAlwaysSound`, `SearchStepsAlwaysSound` | | `SearchSpec => []SearchSound`, `SearchSpec => SearchStepsSound` |
| `AlgorithmsAlwaysSound` | | `Spec => []AlgorithmsSound` |
| `EvolutionAlwaysSound` | | `EvoSpec => EvolutionSound` |
| `BuildAlwaysSound` | `BuildProofs` | `BuildSpec => []BuildSound` |

**Hypotheses.** Five theorems have one. Two are about the limits of `Slots`: a limit
that is lowered is exceeded by what the window already holds, and a TPM limit that is
switched off under way makes `settle` skip both the refund and the charge, so that the
reserve stays in its window when the limit is switched on again. The run of those two
properties keeps the limits as well. The other three are the line between what the code
promises and a finding of part 6. `~Sparse`: every batch gives every parameter a
gradient; without it `trainer_sparse` violates the property. Distinct paths and
whole windows: without the one `train_replay` violates it; without the other the
residual flush is not replayed, `RestoresAll` is false, and `ReplayRestores`, which says
what remains, is model-checked with residues. `PathsApart`: no two siblings that run concurrently
have one path; otherwise the tape gives the one's output to the other. `HttpNothingLost`
has no slow dashboard; `LossBounded` is what holds with one.

**Assumptions on constants** that say more than a type: the values that mark the
place of a call, a value, a run or a trace are none of these (`LeaseAssumption`,
`NoneAssumption`, `GoneAssumption`, `NoValue`, `Missing`, `Unrated`); callers and parameters are finitely
many, and so are the scores a validation of `Fits` may give; the sites of `AgentRun` form a tree, for a call has one caller, and a router
has a branch; a queue of the launcher holds the four events of a training (the
code's holds 256); a tape of `Backprop` lists a composite before what it calls, which is what `ParentsFirst` says of the tapes that `AgentRun` makes; a schedule of
`Resume` is one that its constructor accepts. Of the trees of `AgentTree`, a path leads to one agent and every
agent hangs somewhere (`WellHung`: an agent's attributes have different names); a temperature that is set is
not the mark of a Configuration that is not there; there is always an object left to be the next
Configuration; and no edit object stands twice in one compound, whose note of what it
replaced would be overwritten. Of the trees of `Build`, an agent calls only its kids, one
that gathers has some, the root takes what it is handed (`abuild_agent` makes it from
the root's own input type), and no agent is below itself (`WellGrown`: `Depth` steps
down there are but leaves; the walk of a tree that has a cycle would not end).

**Permits** (`SlotsPoolProofs`). `PermitConservation` counts permits that are out,
which is not inductive: nothing in it says that a granted task is still
suspended in the semaphore, or that it stands in the queue once. `GateInv` adds
that: queued tasks are distinct and suspended in the semaphore, granted ones are
queued, free permits plus permits out make `Cap`. The lemmas show what each
operation of the semaphore does to it (`WakeNextOK`, `ResumeOK`, `WithdrawOK`,
`GiveBackOK`, `LeaveOK`); every step is a composition of those. The same
lemmas say how the set of admitted tasks moves (`PermitMove`), which is the
refinement; and that a permit is free only if nobody who could take it waits
(`NoneIdle`). For the counters `GhostInv` says that a counter's waiters are
distinct and suspended at that counter. `Wake` is shown to leave a suffix of the
queue, whatever the limit and the needs (`WakeWoken`), so everything that
charges, refunds or sets a limit does too; FIFO follows, since one who leaves a
queue out of its order is a task that is being cancelled.

**Amounts** (`SlotsPoolProofs`). What `Wake` has promised to the first `k` waiters is a
recursive function; a least counterexample shows that it has a solution and that it
grows (`PromisedGrows`). All that is needed of it is that a counter which lets
somebody go was below its limit (`WakeIs`). `RpmOvershoot` is not inductive, for a
task that was let through will still charge. `RpmInv` counts those in (`Pending`):
requests of the window and tasks still to charge together are at most
`Rpm0 + Cap - 1`. A wake-up makes any number of tasks pending, but then the window is
below the limit, and no more than `Cap` tasks hold permits (`BoundKept`). For the
ledger, `LedgerInv` states the bound for every age of the window and not only for the
oldest, so that a tick keeps it; says that who is in a call has not settled and nobody
else reserves; and that an unlimited counter is empty. `SumOver` adds up reserves in
an order the semantics leaves open: any order gives one result (`SumSplits`), so a
changed token changes the sum by as much (`SumOfChange`).

**Workers** (`SlotsPoolProofs`). That a worker has one request at a time depends on
where the worker is: `PoolInv` says that it is with one call, in the idle queue once, or
with nobody (`Exclusive`), that the reader of one that passes for alive runs,
or broke at a bad line (`ReaderRuns`), that a future is left
only with the worker of its call (`FuturesAtHome`), and that a worker which is idle, or
whose call has its answer, has empty pipes (`QuietWhenFree`): so an answer that comes
after its time-out meets a worker that was killed, never the next call.
For the refinement, each step is shown to change the lease of at most one worker.

**Losses and order** (`EventsProofs`). `NothingLost` speaks of the moment after exit.
`LossInv` follows each event: it is in the queue, in a thread's hands, received or
excused (`Account`); a thread that has its answer holds only what was received
(`Answered`); and, if no POST times out, the flush collects only after the drain
thread is over, and posts only once the queue is empty (`Handover`). With
time-outs the handover fails, and what remains is `LossBounded`: at exit an event
that is neither received nor excused is in the batch of the drain thread. For the order,
`LineInv` puts what was received, the batch being posted, the batch being collected and
the queue in one line that rises, as long as no POST has timed out.

**The dashboard** (`EventsProofs`). `DashInv` has four parts. `RegistryInv` types the state,
and says that a snapshot under way either is of the `RunInfo` in the registry or
its run has lost that one and is not `whole` any more (`JobOK`). `VerdictInv`: only an
event that ends a run orders a snapshot, so what is known of a run that has ended is one of
its verdicts, and a snapshot that has read another than the run has now was
`overtaken` (`Known`). `SettleInv`: when the last event of a run has ended it, its row is as
the registry has it (`Filed`), or a snapshot is under way that will find the run as it is now
(`Brings`), or one was lost to the lock; a further event breaks the premise, and one that
ends the run orders the next snapshot. `FeedInv`: what is unread is the end of what was broadcast. A replay and a
hydration are recursive functions, followed with `Climb`; that no more than `RunCapacity` runs
are hydrated is a count of those below the greatest one.

**Streams** (`AgentCallProofs`). `StreamInv` says what is between the provider and the
consumer: chunks without a gap, counted (`Flowing`), then one result or error
(`Ending`), then the sentinel (`EndedTold`); a consumer that left is owed nothing.

**Recordings.** `CassetteInv` adds to the property that the key of a call under way was
not on file when it began, and that what could not be written is known to its session.

**Runs of agents.** Two arguments on one invariant. `CallInv` says who runs under whom:
an invocation that is active is under one that waits for it, or was left by a gather
that has failed (`Kept`); a composite that awaits its kids in turn has at most one of
them under way, and none when it is its own turn (`InTurn`); what a composite has asked for when it returns is all it had to ask
(`Progress`). From it, by closing a set of sites under "is a kid of", a root that
returned has nothing active below it (`ReturnedIsOver`): hence `OnlyFailedRunsStray`, and
with a count of the steps filed (`Tells`) `WholeTrace`. The tape finds its entries by
path; that it finds the right one is `LooseInv`: no two invocations of one run that are
under way, or have failed, have the same path, so the last pending entry of a path is the
one's own. `TapeInv` then follows entries and outputs as long as
no earlier run has failed.

**Edits of agents.** The walk of a tree never changes, so a state is a function of its
paths, and loading one is known agent by agent. `TreeInv` fixes the walk and says what
any of these operations preserves: an agent that has a Configuration has a temperature in it, an edit's note is of
the kind of what it replaced, a Parameter is of a place that is still there, and, unless an edit was
made since, shows what is there if no other one writes to it. That no agent has both a
Parameter of its temperature and one of its Configuration makes a write to a Configuration
harmless to the others. A compound is followed edit by edit: each state on the way
is the one before it but at the place of its edit, whose old value is in its note (`Took`), so
going back through the notes gives trees that show the same (`LooksAlike`), though not the
same Configuration objects. Applying and undoing are recursive functions up to the length of the compound,
that these have solutions is `IterationExists`.

**Training** (`TrainerProofs`). `WindowInv`: what a fit gave a parameter and no step has
taken is in its gradient, in batches that share no message, and nothing is owed between
fits. `ResumeInv`: the history is the last `HistoryK` of the gradients of its lineage
(`IsWindow`), and rate and schedule stand where the closed form puts them, counted from
where the schedule last started (`OnPlan`), each part of a sequence from its handover
(`SchedOK`); the same of a bundle that has scheduler state.
`ReplayInv`: there is one chain of values, by epoch and step, that the file, the reports
and the parameters agree with (`FiledUpTo`); no key comes twice in a fit, for the
counters of batch and epoch only rise. `BackInv`: what came down to a path was refined
by the composites above it (`ChainsDown`), every entry that the walk has passed has
been given its critique (`CritiquesReach`) and, behind the walk back, each leaf its
gradient (`LeavesServed`); tasks and strays hold gradients of the leaf they are of.

**Callbacks** (`TrainerProofs`). `FitsInv` has four parts. An `EarlyStopping`'s best is the
least it was told and its count that of the scores since (`StopInv`), so the count
is at the patience exactly when the last scores are stagnant. `BestCheckpoint`'s best
is the least score of all validations and its file holds the first agent that had it
(`BestInv`); in the first fit the reports are of all validations (`ReportInv`); the
severities are of the samples at the front of the order, and whole batches leave the
rest of a division (`SamplesInv`). Callbacks told in turn and filters are recursive
functions: that each has a solution is `IterationExists`, and what all its values have
in common `Climb`, both in `SeqLemmas`.

**Studio and Uthereal** (`AppsProofs`). `JobInv`: a rating is in the *first* row of its id,
and a save under way has rows that are still right, for only it replaces any; what was
read after a time stamp is current while the stamp is (`Current`): it has the last row of
each id, and for an id of one row that is the first. `LaunchInv`: a client's queue is
an end of the log, and what it has read is what comes before, from where it joined; from
there on the end of its training comes before anything of the next. `LoopInv`: the
answers of a run are on the cassette under the keys they were asked for, and no entry of
a cassette is overwritten (`Extends`), so a run that could be replayed stays so; what a
command carries from its reads to its writes agrees with the files, unless one was killed.

**Conversations, searches and populations** (`AlgorithmsProofs`). `TalkInv` counts the turns under way
against the turns left (`Admitted`), which bounds how far `max_turns` is exceeded.
`SearchInv`: the history is the end of what was scored, and a parameter holds the newest
of the records that an update lived to write, while none has left the window; an update's
candidate that is being told is the one scored last; an APE update alone holds scores of the agent
as it is. `AlgoInv` says how far each branch has come in the loop of its algorithm
(`AttemptOK`, `RefineOK`, `CallOK`): how many drafts it has, and that its last one was
judged when it ends; once a gather has returned no branch runs and none has raised
(`AllReturned`). `EvoInv`: lineages on record are below the next one, so a mutant of this
gather, or one registered by a task that an earlier gather left behind, is like no other
(`Newborn`); survivors lead the parents of a refill (`Selected`); and the population has a
member at least as good as the root (`Staged`), which is what `RootNeverDeclines` lacks to
be inductive. Both sort: in a finite total order every place is taken once
(`PlacesTaken`), so `Ranked` and `Survivors` name, for each place, the one that has it.

**The trace** (`BuildProofs`). Nothing in `BuildSound` speaks of a step, so all of it is
in `BuildInv`. That the trace *ends*: a task which is suspended is owed an answer by one
of a higher number (`GathersOK`), so if the queue is empty the last one that lives
contradicts itself (`AllOver`); the entries of the stack are as many as the forwards
that were entered (`Counted`). An error that is reported leads up through suspended
tasks to the first (`Raised`), so a trace that has had one fails (`Doomed`), and one
that has not has called all there is to call (`SeenOK`). That it *names* agents by
their paths: as long as no gather is under way beside another call the tasks are one
chain (`Chain`). Its last task runs, and its forwards lie at the end of the stack
(`OnStack`, `Tip`); the others hold it up, or wait behind it, in the order of their
calls (`Roles`, `Lined`), and as long as any waits what it has done contains no gather
(`PlainFrames`). What is taken for the caller is then the one that calls, and the
path of the node that of its events (`Matches`). A gather that is reached while a
sibling waits breaks the chain, but then the tree is not calm, the sibling's call comes
next, and it is recorded below an agent that is deeper than the one that calls
(`MissNext`): the path is too long, and stays so. In the end every call has been
made, so a tree in which that never happened is calm. *Thawing* follows: paths are
as many as agents, hence one to one (`FS_Surjection`), and each has its own node.

**Model-checked only.** Liveness (`NoWaiterStarves`, `HeldCallEnds`, `FlushEnds`,
`StreamEnds`, `CallsEnd`, `RunsComplete`), which is out of the prover's reach. Every safety
invariant and every action property of a passing run is stated by a theorem.

## 6. Findings

- **A limit of 0 does not free the waiters** (`slots_unlimited`).
  `set_limit(0)` calls `_wake`, which tests `current + need > self.limit`: with
  0 that holds for everyone, so waiters stay suspended, and every newcomer goes
  past them on the fast path. `slots.py:224` says that limits may be updated at
  any time and that 0 means unlimited.
- **A cancelled call keeps its worker** (`pool_leak`). `CancelledError` passes
  every `except` of `call()`; the worker lives but is never put back. The
  docstring says that a call returns its worker and that only crashed or
  timed-out ones are dropped.
- **A sparse batch drops pending gradients** (`trainer_sparse`). A parameter
  that gets no gradient from a batch loses what earlier batches of the window
  had accumulated; `trainer.py:167` says each sample's message appears exactly
  once.
- **A replay restores the wrong parameter** (`train_replay`). What a step left is
  recorded under a path that is local to an agent: of two leaves that train the
  same field one value is kept, and the replay writes it into the first of them.
- **A frozen tree cannot be thawed** (`build_thaw`). The tracer has one stack for all
  tasks, so within nested gathers it names an agent by another one's parent;
  `freeze_agent` writes the graph, `thaw_agent` finds no types for the agent.
- **Saved notes are overwritten** (`dashboard_notes`). A thread that read the
  summary before the notes were saved commits it after; so does the hydration
  after a restart.

Met while modelling, without a run; part 3 has more:

- An invocation left behind by a failed `Parallel` writes into the tape of the
  next root run, while `tape.py:62` says that entries are of a single root run.
  `OnlyFailedRunsStray` bounds the damage: only a failed run leaves any.
- At exit the forwarder waits two seconds for its thread and then abandons a batch
  that is being retried, while `dashboard.py:21` says that none is lost.
  `LossBounded` says how much it can be.
- The dashboard's snapshot of a deque that is being appended to raises, and is
  not tried again; the graph of a run is lost when it is restored.
- `Optimizer.load_state_dict` keys by the local path of a parameter, so of the
  parameters with one path only the last one's momentum is restored.
- One agent hung twice under a `Parallel` has one name (`_attr_name_hint` gives the
  first), so its two invocations have one path, and the tape may give the one's
  output to the other. `PathsApart` leaves this out.
- An observer that raises in strict mode at the end event makes the invocation raise
  an error event after it.
- A worker whose reader broke (`pool.py:55`) still passes for alive. A call that times
  out kills it; but one that fails before that, or is answered in the turn in which
  the reader breaks, puts it back, and the next call to get it waits for its timeout.
- `test_slots.py:120` says that waking "is driven by the next operation that observes the
  expired window". `current()` and a newcomer's `acquire` observe it, drop the
  events, and wake nobody; only a charge, a refund or `set_limit` does. Hence
  `Stalled` in `NoWaiterStarves`.
- The state of a run in memory and in the archive may differ for good: each end sets
  it again (`runs.py:482`) and orders a snapshot, and a thread that has read the earlier
  one may commit after that of the later end (`ArchiveSettles`, `overtaken`).
- A snapshot that meets "database is locked" (`persistence.py:233`) is dropped
  without a word, for nobody awaits its thread, and the run stays as it was in the
  archive, or is not there.
- A replay leaves out the residual flush (`trainer.py:399`), while `cassette.py:10` says
  that it yields a byte-equal `TrainingReport`. `ReplayRestores` says how far it does.
- OPRO files a record before it tells its observers and writes it after
  (`opro.py:366`, `380`, `388`): a cancellation between them leaves a best score in the
  history whose value was never written, and an equal one is refused from then on.
- `Trainer.save` "merges in the scheduler state" (`trainer.py:514`), but not that of a
  `ChainedScheduler` or `SequentialLR`, which restart from the decayed rate.

## 7. What is not modelled

- In `Slots`: `reset()`, a helper of tests; counters created while calls are in
  flight; several endpoints, which share nothing.
- Observers that raise in strict mode (`base.py:87`) are modelled in `ValueSearch`
  only, where a write follows the event; elsewhere an event is delivered.
- In `AgentRun`: observers that suspend or raise in a handler, and validation and
  hooks other than by their outcome. `stream()` is in `Stream`, the slot of a leaf
  in `Slots`, its retries in `Cassette`.
- In `AgentTree`: one text field stands for role, task and style, the rules for
  the examples, the temperature for the other fields of a Configuration.
  `SetModel` and `SetBackend`, whose shallow copies share the sampling object,
  `SetConfiguration`, which installs an object it does not copy, element-wise
  parameters and states of another shape are left out.
- In `Trainer`: events, losses and rewriters other than by what they give or
  raise. In `Fits`: random samplers and the other callbacks.
- In `HttpForward`: the contents of events, and the dashboard beyond the order in
  which it ingests. In `Dashboard`: synthetic runs, whose events are not
  archived, statistics other than as items of a queue, and reads.
- In `Uthereal`: the loader's overlay mode, an `entry_id` that is given again with
  other content, and the cassette of the Blamer itself.
- Not modelled at all, with the reason of each in `PROJECT.json`: code that is
  sequential and pure (diff, views, rendering, hashing, metrics, splits), adapters
  and sinks that are I/O (model backends, OpenTelemetry, JSONL, the command
  line), the dashboard's routes and the groupings of events behind them,
  benchmark loops, prompts and their schemas, examples, and the web frontend. They
  make up most of the repository's lines: prompt classes, HTML and JSON views
  and wrappers whose only behaviour is what they return. A model of them would
  restate them. What is hard about the rest is, line by line, under `hazards` of
  `PROJECT.json`.
