---------------------------- MODULE SandboxPool ----------------------------
(***************************************************************************)
(* operad/runtime/launchers/pool.py: the workers of one SandboxPool, the   *)
(* subprocesses behind them, and the tasks inside call() and close().      *)
(*                                                                         *)
(* An action runs from one await to the next; the model lets other tasks   *)
(* run at an await that would not have suspended.  A subprocess            *)
(* has its stdin (inbox, open until close() closes it) and its stdout      *)
(* (outbox); what it has written is still readable after it died.  A call  *)
(* happens once, so a member of Call is also the uuid of its request.  The *)
(* faults of the environment are those in PoolFaults:                      *)
(*   "crash"   a worker process dies by itself                             *)
(*   "timeout" a tool takes longer than timeout_seconds                    *)
(*   "cancel"  the task of a call is cancelled                             *)
(*   "badargs" the arguments cannot be serialised                          *)
(*   "spawn"   create_subprocess_exec raises                               *)
(*   "close"   close() is called                                           *)
(*   "badline" a worker writes a line its reader cannot take: one of more  *)
(*             than 64 KiB, or JSON that is no object                      *)
(* A line that is no JSON at all, or nobody's answer, is passed over.      *)
(***************************************************************************)
EXTENDS Naturals, FiniteSets, SequencesExt

CONSTANTS Worker, \* the `size` workers
          Call,   \* calls, each made once
          PoolFaults,
          NoWorker

ASSUME PoolAssumption ==
  /\ IsFiniteSet(Worker) /\ Worker # {}
  /\ NoWorker \notin Worker
  /\ PoolFaults \subseteq {"crash", "timeout", "cancel", "badargs", "spawn", "close", "badline"}

\* A lease is told from the states of a worker without one.
ASSUME LeaseAssumption == Call \cap {"unborn", "free", "dropped"} = {}

VARIABLES started,  \* _started
          closed,   \* _closed
          workers,  \* _workers
          idle,     \* _idle
          alive,    \* worker.alive
          pending,  \* worker.pending: the calls whose future it holds
          listener,   \* the reader task of the worker: "on", "off", or "broke" at a bad line
          proc,     \* "none", "up" or "dead"
          stdin,    \* the pipe to the worker is open
          inbox, outbox,
          stage,    \* where each call is suspended
          holds,    \* the worker a call checked out
          reply,    \* state of a call's future
          outcome,  \* how a call ended
          closing,  \* progress of close()
          awaited   \* the workers close() still waits for

worker == <<alive, pending, listener, proc, stdin, inbox, outbox>>
caller == <<stage, holds, reply, outcome>>
closer == <<closed, closing, awaited>>
poolvars == <<started, workers, idle, worker, caller, closer>>

SetAll(f, S, v) == [x \in DOMAIN f |-> IF x \in S THEN v ELSE f[x]]

End(c, how) ==
  /\ stage' = [stage EXCEPT ![c] = "done"]
  /\ outcome' = [outcome EXCEPT ![c] = how]

CallGoes(c, where) == stage' = [stage EXCEPT ![c] = where] /\ UNCHANGED outcome

PutIdle(w) == idle' = Append(idle, w)

-----------------------------------------------------------------------------
(* start() and call() *)

Begin(c) ==
  /\ stage[c] = "new"
  /\ \/ closed /\ End(c, "closed") /\ UNCHANGED started
     \/ ~closed /\ started /\ CallGoes(c, "getting") /\ UNCHANGED started
     \/ ~closed /\ ~started /\ CallGoes(c, "starting") /\ started' = TRUE
  /\ UNCHANGED <<workers, idle, worker, holds, reply, closer>>

\* One turn of start()'s loop.  Nothing looks at `closed` here.
Spawn(c, w) ==
  /\ stage[c] = "starting" /\ proc[w] = "none"
  /\ proc' = [proc EXCEPT ![w] = "up"]
  /\ alive' = [alive EXCEPT ![w] = TRUE]
  /\ listener' = [listener EXCEPT ![w] = "on"]
  /\ stdin' = [stdin EXCEPT ![w] = TRUE]
  /\ workers' = workers \cup {w}
  /\ PutIdle(w)
  /\ IF \A v \in Worker \ {w} : proc[v] # "none" THEN CallGoes(c, "getting")
     ELSE UNCHANGED <<stage, outcome>>
  /\ UNCHANGED <<started, pending, inbox, outbox, holds, reply, closer>>

SpawnFails(c) ==
  /\ "spawn" \in PoolFaults /\ stage[c] = "starting"
  /\ End(c, "error")
  /\ UNCHANGED <<started, workers, idle, worker, holds, reply, closer>>

\* A worker comes out of the queue dead, or after close(): it is dropped.
TakeDead(c) ==
  /\ stage[c] = "getting" /\ idle # <<>>
  /\ ~alive[Head(idle)] \/ closed
  /\ idle' = Tail(idle)
  /\ End(c, "closed")
  /\ UNCHANGED <<started, workers, worker, holds, reply, closer>>

\* Mutant: the worker is not looked at after the queue wait.
RegisterAny(c, w) ==
  /\ stage[c] = "getting" /\ idle # <<>> /\ w = Head(idle)
  /\ pending' = [pending EXCEPT ![w] = @ \cup {c}]
  /\ reply' = [reply EXCEPT ![c] = "pending"]

Register(c, w) ==
  /\ stage[c] = "getting" /\ idle # <<>> /\ w = Head(idle)
  /\ alive[w] /\ ~closed
  /\ pending' = [pending EXCEPT ![w] = @ \cup {c}]
  /\ reply' = [reply EXCEPT ![c] = "pending"]

Take(c, w) ==
  /\ Register(c, w)
  /\ idle' = Tail(idle)
  /\ inbox' = IF proc[w] = "up" THEN [inbox EXCEPT ![w] = Append(@, c)] ELSE inbox
  /\ holds' = [holds EXCEPT ![c] = w]
  /\ CallGoes(c, "awaiting")
  /\ UNCHANGED <<started, workers, alive, listener, proc, stdin, outbox, closer>>

\* json.dumps raises after the checkout and outside the try.
TakeBadArgs(c, w) ==
  /\ "badargs" \in PoolFaults
  /\ Register(c, w)
  /\ idle' = Tail(idle)
  /\ End(c, "error")
  /\ UNCHANGED <<started, workers, alive, listener, proc, stdin, inbox, outbox, holds, closer>>

\* drain() finds the pipe broken before the reader has seen the EOF.
TakeBroken(c, w) ==
  /\ proc[w] = "dead"
  /\ Register(c, w)
  /\ idle' = Append(Tail(idle), w)
  /\ End(c, "error")
  /\ UNCHANGED <<started, workers, alive, listener, proc, stdin, inbox, outbox, holds, closer>>

\* wait_for returned the result.
Succeed(c) ==
  /\ stage[c] = "awaiting" /\ reply[c] = "ok"
  /\ PutIdle(holds[c])
  /\ holds' = [holds EXCEPT ![c] = NoWorker]
  /\ End(c, "result")
  /\ UNCHANGED <<started, workers, worker, reply, closer>>

\* wait_for raised the exception of the future and the worker still lives.
FailAndReturn(c) ==
  /\ stage[c] = "awaiting" /\ reply[c] = "error"
  /\ alive[holds[c]] /\ ~closed
  /\ PutIdle(holds[c])
  /\ holds' = [holds EXCEPT ![c] = NoWorker]
  /\ End(c, "error")
  /\ UNCHANGED <<started, workers, worker, reply, closer>>

\* Mutant: proc.wait() is awaited without proc.kill().
KillGently(c, how) ==
  /\ alive' = [alive EXCEPT ![holds[c]] = FALSE]
  /\ stage' = [stage EXCEPT ![c] = "killing"]
  /\ outcome' = [outcome EXCEPT ![c] = how]
  /\ UNCHANGED <<started, workers, idle, proc, pending, listener, stdin, inbox, outbox, holds, closer>>

\* _kill_worker up to `await proc.wait()`.
Kill(c, how) ==
  LET w == holds[c]
  IN /\ alive' = [alive EXCEPT ![w] = FALSE]
     /\ proc' = [proc EXCEPT ![w] = "dead"]
     /\ stage' = [stage EXCEPT ![c] = "killing"]
     /\ outcome' = [outcome EXCEPT ![c] = how]
     /\ UNCHANGED <<started, workers, idle, pending, listener, stdin, inbox, outbox, holds, closer>>

FailAndKill(c) ==
  /\ stage[c] = "awaiting" /\ reply[c] = "error"
  /\ ~alive[holds[c]] \/ closed
  /\ Kill(c, "error")
  /\ UNCHANGED reply

\* The timer fires, even in the turn in which the future is resolved: the tool
\* takes too long, or nobody reads its answer.
TimeOut(c) ==
  /\ PoolFaults \cap {"timeout", "badline"} # {}
  /\ stage[c] = "awaiting"
  /\ reply' = [reply EXCEPT ![c] = IF @ = "pending" THEN "cancelled" ELSE @]
  /\ Kill(c, "timeout")

\* The rest of _kill_worker.
Reaped(c) ==
  LET w == holds[c]
  IN /\ stage[c] = "killing" /\ proc[w] = "dead"
     /\ reply' = SetAll(reply, {d \in pending[w] : reply[d] = "pending"}, "error")
     /\ pending' = [pending EXCEPT ![w] = {}]
     /\ workers' = workers \ {w}
     /\ holds' = [holds EXCEPT ![c] = NoWorker]
     /\ CallGoes(c, "done")
     /\ UNCHANGED <<started, idle, alive, listener, proc, stdin, inbox, outbox, closer>>

\* CancelledError passes every `except` of call(), start() and _kill_worker.
Cancel(c) ==
  /\ "cancel" \in PoolFaults
  /\ stage[c] \in {"starting", "getting", "awaiting", "killing"}
  /\ reply' = [reply EXCEPT ![c] = IF @ = "pending" THEN "cancelled" ELSE @]
  /\ holds' = [holds EXCEPT ![c] = NoWorker]
  /\ End(c, "cancelled")
  /\ UNCHANGED <<started, workers, idle, worker, closer>>

-----------------------------------------------------------------------------
(* _Worker._reader, and the process at the other end of the pipes *)

ReadLine(w) ==
  /\ listener[w] = "on" /\ outbox[w] # <<>>
  /\ LET m == Head(outbox[w])
     IN /\ pending' = [pending EXCEPT ![w] = @ \ {m.id}]
        /\ reply' = IF m.id \in pending[w] /\ reply[m.id] = "pending"
                    THEN [reply EXCEPT ![m.id] = IF m.ok THEN "ok" ELSE "error"]
                    ELSE reply
  /\ outbox' = [outbox EXCEPT ![w] = Tail(@)]
  /\ UNCHANGED <<started, workers, idle, alive, listener, proc, stdin, inbox,
                 stage, holds, outcome, closer>>

\* Mutant: the reader ends without failing the futures it leaves behind.
ReadEofSilently(w) ==
  /\ listener[w] = "on" /\ outbox[w] = <<>> /\ proc[w] = "dead"
  /\ alive' = [alive EXCEPT ![w] = FALSE]
  /\ listener' = [listener EXCEPT ![w] = "off"]
  /\ UNCHANGED <<started, workers, idle, pending, proc, stdin, inbox, outbox, caller, closer>>

ReadEof(w) ==
  /\ listener[w] = "on" /\ outbox[w] = <<>> /\ proc[w] = "dead"
  /\ alive' = [alive EXCEPT ![w] = FALSE]
  /\ listener' = [listener EXCEPT ![w] = "off"]
  /\ reply' = SetAll(reply, {d \in pending[w] : reply[d] = "pending"}, "error")
  /\ pending' = [pending EXCEPT ![w] = {}]
  /\ UNCHANGED <<started, workers, idle, proc, stdin, inbox, outbox,
                 stage, holds, outcome, closer>>

\* readline() or msg.get raises: the reader task ends there.  The worker still
\* passes for alive, and the futures it holds are left to the timer or close().
ReaderBreaks(w) ==
  /\ "badline" \in PoolFaults /\ listener[w] = "on"
  /\ listener' = [listener EXCEPT ![w] = "broke"]
  /\ UNCHANGED <<started, workers, idle, alive, pending, proc, stdin, inbox, outbox, caller, closer>>

\* _pool_loop: one request, one response line.
Answer(w, ok) ==
  /\ proc[w] = "up" /\ inbox[w] # <<>>
  /\ outbox' = [outbox EXCEPT ![w] = Append(@, [id |-> Head(inbox[w]), ok |-> ok])]
  /\ inbox' = [inbox EXCEPT ![w] = Tail(@)]
  /\ UNCHANGED <<started, workers, idle, alive, pending, listener, proc, stdin, caller, closer>>

\* _pool_loop sees the EOF of its stdin, or the process dies.
Exit(w) ==
  /\ proc[w] = "up"
  /\ \/ ~stdin[w] /\ inbox[w] = <<>>
     \/ "crash" \in PoolFaults
  /\ proc' = [proc EXCEPT ![w] = "dead"]
  /\ UNCHANGED <<started, workers, idle, alive, pending, listener, stdin, inbox, outbox,
                 caller, closer>>

-----------------------------------------------------------------------------
(* close() *)

Close ==
  /\ "close" \in PoolFaults /\ ~closed
  /\ closed' = TRUE
  /\ stdin' = SetAll(stdin, workers, FALSE)
  /\ closing' = "reaping" /\ awaited' = workers
  /\ UNCHANGED <<started, workers, idle, alive, pending, listener, proc, inbox, outbox, caller>>

\* A worker does not exit within two seconds.
CloseKills(w) ==
  /\ closing = "reaping" /\ w \in awaited /\ proc[w] = "up"
  /\ proc' = [proc EXCEPT ![w] = "dead"]
  /\ UNCHANGED <<started, workers, idle, alive, pending, listener, stdin, inbox, outbox,
                 caller, closer>>

CloseReaped ==
  /\ closing = "reaping" /\ \A w \in awaited : proc[w] = "dead"
  /\ closing' = "draining" /\ awaited' = workers
  /\ UNCHANGED <<started, workers, idle, worker, caller, closed>>

\* The tasks of a worker are over, whether they returned or raised: the futures
\* that a broken reader left behind are failed.
CloseDrains(w) ==
  /\ closing = "draining" /\ w \in awaited /\ listener[w] # "on"
  /\ reply' = SetAll(reply, {d \in pending[w] : reply[d] = "pending"}, "error")
  /\ pending' = [pending EXCEPT ![w] = {}]
  /\ awaited' = awaited \ {w}
  /\ UNCHANGED <<started, workers, idle, alive, listener, proc, stdin, inbox, outbox,
                 stage, holds, outcome, closed, closing>>

CloseDone ==
  /\ closing = "draining" /\ awaited = {}
  /\ closing' = "done"
  /\ workers' = {}
  /\ UNCHANGED <<started, idle, worker, caller, closed, awaited>>

-----------------------------------------------------------------------------

PoolInit ==
  /\ started = FALSE /\ closed = FALSE
  /\ workers = {} /\ idle = <<>>
  /\ alive = [w \in Worker |-> FALSE] /\ stdin = alive
  /\ listener = [w \in Worker |-> "off"]
  /\ pending = [w \in Worker |-> {}]
  /\ proc = [w \in Worker |-> "none"]
  /\ inbox = [w \in Worker |-> <<>>] /\ outbox = inbox
  /\ stage = [c \in Call |-> "new"]
  /\ holds = [c \in Call |-> NoWorker]
  /\ reply = [c \in Call |-> "none"] /\ outcome = reply
  /\ closing = "open" /\ awaited = {}

Step(c) ==
  \/ Succeed(c) \/ FailAndReturn(c) \/ FailAndKill(c) \/ Reaped(c) \/ TakeDead(c)
  \/ \E w \in Worker : Spawn(c, w) \/ Take(c, w) \/ TakeBroken(c, w) \/ TakeBadArgs(c, w)

Pipe(w) == ReadLine(w) \/ ReadEof(w)

Finished ==
  /\ \A c \in Call : stage[c] = "done"
  /\ UNCHANGED poolvars

PoolNext ==
  \/ \E c \in Call : Begin(c) \/ Step(c) \/ SpawnFails(c) \/ TimeOut(c) \/ Cancel(c)
  \/ \E w \in Worker : \/ Pipe(w) \/ ReaderBreaks(w) \/ Exit(w)
                       \/ CloseKills(w) \/ CloseDrains(w)
                       \/ \E ok \in BOOLEAN : Answer(w, ok)
  \/ Close \/ CloseReaped \/ CloseDone
  \/ Finished

PoolSpec == PoolInit /\ [][PoolNext]_poolvars

\* A task that can go on does, by a result or by its timer.  Nothing is asked of the
\* workers, of their readers or of close().
PoolFairness == \A c \in Call : WF_poolvars(Step(c) \/ TimeOut(c))

PoolFairSpec == PoolSpec /\ PoolFairness

-----------------------------------------------------------------------------
(* Properties *)

ReaderStates == {"off", "on", "broke"}

PoolTypeOK ==
  /\ started \in BOOLEAN /\ closed \in BOOLEAN
  /\ workers \subseteq Worker /\ awaited \subseteq Worker
  /\ idle \in Seq(Worker) /\ IsInjective(idle)
  /\ {alive, stdin} \subseteq [Worker -> BOOLEAN]
  /\ listener \in [Worker -> ReaderStates]
  /\ pending \in [Worker -> SUBSET Call]
  /\ proc \in [Worker -> {"none", "up", "dead"}]
  /\ inbox \in [Worker -> Seq(Call)]
  /\ outbox \in [Worker -> Seq([id : Call, ok : BOOLEAN])]
  /\ stage \in [Call -> {"new", "starting", "getting", "awaiting", "killing", "done"}]
  /\ holds \in [Call -> Worker \cup {NoWorker}]
  /\ reply \in [Call -> {"none", "pending", "ok", "error", "cancelled"}]
  /\ outcome \in [Call -> {"none", "closed", "result", "error", "timeout", "cancelled"}]
  /\ closing \in {"open", "reaping", "draining", "done"}

\* A worker has at most one request to answer or answer to be read, so a call
\* never waits behind the work of another.
OneRequestPerWorker ==
  \A w \in Worker : Len(inbox[w]) + Len(outbox[w]) <= 1

\* A call that waits for an answer can still be reached: its future is with the
\* worker it holds, which passes for alive, and the reader of that worker runs,
\* and so will see the answer or the EOF, or it broke at a bad line: then the timer, a
\* cancellation or close() ends the call (HeldCallEnds).
AwaitedIsReachable ==
  \A c \in Call : stage[c] = "awaiting" /\ reply[c] = "pending"
    => /\ c \in pending[holds[c]] /\ alive[holds[c]]
       /\ listener[holds[c]] # "off"

\* Workers are leased to one call at a time.
leaseOf == [w \in Worker |->
  IF proc[w] = "none" THEN "unborn"
  ELSE IF \E c \in Call : holds[c] = w THEN CHOOSE c \in Call : holds[c] = w
  ELSE IF alive[w] /\ w \in ToSet(idle) THEN "free"
  ELSE "dropped"]

Leases == INSTANCE WorkerLease WITH lease <- leaseOf
LeaseRefined == Leases!LeaseSpec

\* Whatever fails, a call that got a worker ends, at the latest by its timer: when
\* the worker never answers, when it dies, and when the reader that would tell it broke.
\* Calls come once, and one that let go of its worker is done.
HeldCallEnds ==
  LET Holds(c) == stage[c] \in {"awaiting", "killing"}
  IN  (\E c \in Call : Holds(c)) ~> (\A c \in Call : ~Holds(c))

\* A call "returns the worker to the pool": no live worker is lost to it.
NoWorkerLost ==
  ~closed => \A w \in workers : alive[w] /\ proc[w] = "up"
    => w \in ToSet(idle) \/ \E c \in Call : holds[c] = w

\* The workers, the queue and the calls agree at all times.
WorkersSound ==
  /\ PoolTypeOK
  /\ OneRequestPerWorker
  /\ AwaitedIsReachable

=============================================================================
