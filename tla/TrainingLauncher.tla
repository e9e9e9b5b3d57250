--------------------------- MODULE TrainingLauncher ---------------------------
(***************************************************************************)
(* Training from Studio (src/apps/studio/operad_studio/training.py and the *)
(* event stream of app.py), for one job: a background task trains and      *)
(* emits events, which go to the status and to the queue of every          *)
(* subscriber; a subscriber that comes late is given the events so far.    *)
(* A training that is started again gets a new status, while subscribers   *)
(* and their queues remain.                                                *)
(***************************************************************************)
EXTENDS Naturals, Sequences, SequencesExt

CONSTANTS Client,     \* streams
          QueueMax,   \* size of a stream's queue
          Trainings   \* times the job is trained (bound)

\* A training emits at most four events, so a queue holds what a late client is
\* given.
ASSUME LauncherAssumption == {QueueMax, Trainings} \subseteq Nat /\ QueueMax >= 4

VARIABLES trainer,   \* the task: "none", "new", "fitting", "done"
          events,    \* the events of the status
          rounds,    \* trainings started
          stream,    \* per client: "off", "open" or "over"
          queue,     \* per client: the events it has not read
          got,       \* history variable: the events the client has read
          log,       \* history variable: all events emitted
          base       \* history variable: per client, where it joined: the first
                     \* event it is due, and the training that was the last then

launchvars == <<trainer, events, rounds, stream, queue, got, log, base>>

Ends(kind) == kind \in {"finished", "error"}

\* An event carries its kind and, to tell them apart, the training it is of.
Event(kind) == [kind |-> kind, of |-> rounds]

-----------------------------------------------------------------------------
(* Emitting                                                                *)

\* put_nowait, for each of evs; when the queue is full the oldest event makes room.
Put(q, evs) ==
  LET all == q \o evs
  IN SubSeq(all, IF Len(all) > QueueMax THEN Len(all) - QueueMax + 1 ELSE 1, Len(all))

\* Every stream that has not been unsubscribed.
Served(c) == stream[c] = "open"

\* _emit, for each of evs.
Emit(evs) ==
  /\ events' = events \o evs
  /\ log' = log \o evs
  /\ queue' = [c \in Client |-> IF Served(c) THEN Put(queue[c], evs) ELSE queue[c]]

-----------------------------------------------------------------------------
(* Training                                                                *)

\* Mutant: start keeps the status of the training before.
KeptEvents == events

NoEvents == <<>>

\* start refuses while a task is under way.
Start ==
  /\ trainer \in {"none", "done"} /\ rounds < Trainings
  /\ trainer' = "new"
  /\ events' = NoEvents
  /\ rounds' = rounds + 1
  /\ UNCHANGED <<stream, queue, got, log, base>>

\* The task begins: the runner loads the bundle and the ratings without
\* suspending.  It finds no valid entries and says so itself before _run does,
\* it raises, or it starts to fit.
Load(found) ==
  /\ trainer = "new"
  /\ \/ found /\ trainer' = "fitting"
        /\ Emit(<<Event("started"), Event("fit_start")>>)
     \/ ~found /\ trainer' = "done"
        /\ \/ Emit(<<Event("started"), Event("error"), Event("error")>>)
           \/ Emit(<<Event("started"), Event("error")>>)
  /\ UNCHANGED <<rounds, stream, got, base>>

\* fit returns, the agent is saved and the training is over; or it raises.
Fit(ok) ==
  /\ trainer = "fitting"
  /\ trainer' = "done"
  /\ Emit(IF ok THEN <<Event("saved"), Event("finished")>> ELSE <<Event("error")>>)
  /\ UNCHANGED <<rounds, stream, got, base>>

-----------------------------------------------------------------------------
(* Streams                                                                 *)

\* The events so far, as many as the queue holds.
Replay(evs) == SubSeq(evs, 1, IF Len(evs) > QueueMax THEN QueueMax ELSE Len(evs))

Join(c) ==
  /\ stream[c] = "off"
  /\ stream' = [stream EXCEPT ![c] = "open"]
  /\ queue' = [queue EXCEPT ![c] = Replay(events)]
  /\ base' = [base EXCEPT ![c] = [at |-> Len(log) - Len(events) + 1, training |-> rounds]]
  /\ UNCHANGED <<trainer, events, rounds, got, log>>

\* The stream hands on an event, and closes after the first that ends a training.
Read(c) ==
  /\ stream[c] = "open" /\ queue[c] # <<>>
  /\ got' = [got EXCEPT ![c] = Append(@, Head(queue[c]))]
  /\ queue' = [queue EXCEPT ![c] = Tail(@)]
  /\ stream' = [stream EXCEPT ![c] = IF Ends(Head(queue[c]).kind) THEN "over" ELSE "open"]
  /\ UNCHANGED <<trainer, events, rounds, log, base>>

Leave(c) ==
  /\ stream[c] = "open"
  /\ stream' = [stream EXCEPT ![c] = "over"]
  /\ UNCHANGED <<trainer, events, rounds, queue, got, log, base>>

-----------------------------------------------------------------------------

LaunchInit ==
  /\ trainer = "none" /\ events = <<>> /\ rounds = 0
  /\ stream = [c \in Client |-> "off"]
  /\ queue = [c \in Client |-> <<>>] /\ got = queue
  /\ log = <<>> /\ base = [c \in Client |-> [at |-> 1, training |-> 0]]

LaunchNext ==
  \/ Start
  \/ \E ok \in BOOLEAN : Load(ok) \/ Fit(ok)
  \/ \E c \in Client : Join(c) \/ Read(c) \/ Leave(c)

LaunchSpec == LaunchInit /\ [][LaunchNext]_launchvars

-----------------------------------------------------------------------------
(* Properties                                                              *)

\* More has been emitted than a client can have waiting.
Lapped(c) == Len(log) + 1 - base[c].at > QueueMax

\* What a client has read and what waits for it is the log since the training it
\* joined began, with no gap, no repetition and nothing out of order, however
\* its subscription falls among the events; of a slow client that was lapped,
\* what waits is still the newest part of the log.
StreamIsFaithful ==
  \A c \in Client : stream[c] = "open" =>
    /\ \/ got[c] \o queue[c] = SubSeq(log, base[c].at, Len(log))
       \/ Lapped(c)
    /\ queue[c] = SubSeq(log, Len(log) - Len(queue[c]) + 1, Len(log))

\* The verdict a client leaves with is that of the training it joined, the first
\* one if it joined before any: another training that has begun meanwhile, or
\* one that had ended before, cannot answer in its place.
VerdictIsOfJoined ==
  \A c \in Client :
    got[c] # <<>> /\ Last(got[c]).kind \in {"finished", "error"} /\ ~Lapped(c) =>
      Last(got[c]).of = (IF base[c].training = 0 THEN 1 ELSE base[c].training)

\* No client is left waiting for an end that has passed: when the training is
\* over, the end of one waits in the queue of whoever is still connected, even if
\* it was lapped or came when everything had been emitted.
EndWaits ==
  \A c \in Client : stream[c] = "open" /\ trainer = "done" =>
    \E k \in DOMAIN queue[c] : queue[c][k].kind \in {"finished", "error"}

\* A client of a training's stream is told that training, in order and to its end.
StreamsSound ==
  /\ StreamIsFaithful
  /\ VerdictIsOfJoined
  /\ EndWaits

=============================================================================
