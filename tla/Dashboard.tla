----------------------------- MODULE Dashboard -----------------------------
(***************************************************************************)
(* The dashboard server: the RunRegistry of operad_dashboard/runs.py, the  *)
(* WebDashboardObserver that feeds it and its SSE subscribers, the threads *)
(* that write snapshots of ended runs to the SQLite archive, and what a    *)
(* restart makes of the archive.                                           *)
(*                                                                         *)
(* The handlers run on one event loop: each is one action.  A snapshot is  *)
(* written by a thread, next to whatever the loop does, and is cut where   *)
(* it reads the run, takes the write lock of SQLite, and commits.  Who     *)
(* waits for the database longer than sqlite3's timeout of five seconds    *)
(* gives up: "database is locked".                                         *)
(*                                                                         *)
(* An envelope is a run and a kind: "end" or "error" of its root agent,    *)
(* "algo_end" or "algo_error" of an algorithm, "more" for all others.  An  *)
(* algorithm that an agent or another algorithm calls bears the run id of  *)
(* its caller, so that a run may end more than once, and not every time in *)
(* the same way.  POSTs are retried and overtake each other: envelopes     *)
(* come in any order and more than once.  Runs are numbered in the order   *)
(* of their start.                                                         *)
(***************************************************************************)
EXTENDS Integers, FiniteSets, SequencesExt, Filters

CONSTANTS Gone,        \* what the registry or the archive has not got
          Runs,        \* runs 1 .. Runs
          Endings,     \* run -> the kinds of the envelopes that end it
          RunCapacity, \* of the registry
          PerRun,      \* events_per_run
          QueueSize,   \* _QUEUE_MAXSIZE
          Budgets      \* bounds: how many envelopes are broadcast, notes saved, restarts
                       \* made, rows deleted or restored, and subscribers connected

ASSUME DashboardAssumption ==
  /\ Runs \in Nat /\ RunCapacity \in Nat \ {0} /\ PerRun \in Nat \ {0}
  /\ QueueSize \in Nat \ {0}
  /\ Endings \in [1 .. Runs -> SUBSET {"end", "error", "algo_end", "algo_error"}]
  /\ Budgets \subseteq [ingests : Nat, edits : Nat, restarts : Nat, removals : Nat, connects : Nat]

Run == 1 .. Runs
OfAlgorithm == {"algo_end", "algo_error"}
States == {"running", "ended", "error"}
EventKinds == {"more", "end", "error"} \cup OfAlgorithm
Info == [state : States, events : Seq(EventKinds), total : Nat, notes : Nat]
ArchivedRows == [state : States, events : Seq(EventKinds), notes : Nat]

ASSUME GoneAssumption == Gone \notin Info \cup ArchivedRows

VARIABLES order,   \* run ids of the OrderedDict, the least recently touched first
          info,    \* run -> its RunInfo, or Gone
          archive, \* run -> its row and events in SQLite, or Gone
          jobs,    \* snapshots under way
          feed,    \* queue of the subscriber, or Gone
          clock,   \* envelopes broadcast so far
          saving,  \* run whose notes the loop is saving, or 0
          noted,   \* history: run -> notes the user saved last
          whole,   \* history: runs whose RunInfo was never dropped or replaced
          lost,    \* history: runs with a snapshot that gave up on the lock since their last end
          overtaken, \* history: runs whose state changed under a snapshot that had read it
          budget   \* what is left of one of the Budgets

dashvars == <<order, info, archive, jobs, feed, clock, saving, noted, whole, lost, overtaken,
              budget>>

Live(r) == info[r] # Gone

-----------------------------------------------------------------------------
(* RunRegistry *)

NewInfo == [state |-> "running", events |-> <<>>, total |-> 0, notes |-> 0]

\* _runs[run_id] = ..., or move_to_end.
Touch(r, o) == Append(Among(o, Run \ {r}), r)

\* _evict_if_needed
Evicted(o) == IF Len(o) > RunCapacity THEN {Head(o)} ELSE {}

\* A deque(maxlen=events_per_run).
Bounded(s) == IF Len(s) > PerRun THEN Tail(s) ELSE s

\* _record_algo: what an event of an algorithm makes of the state.
AlgoState(state, kind) ==
  CASE kind = "algo_end" -> "ended" [] kind = "algo_error" -> "error" [] OTHER -> state

\* _record_agent: what an event of an agent makes of it.
AgentState(state, kind) ==
  CASE kind = "end" -> "ended" [] kind = "error" -> "error" [] OTHER -> state

\* record_envelope on a run that the registry has.
Recorded(i, kind) ==
  [i EXCEPT !.events = Bounded(Append(@, kind)),
            !.total = @ + 1,
            !.state = IF kind \in OfAlgorithm THEN AlgoState(@, kind) ELSE AgentState(@, kind)]

\* The states that the envelopes which end run r may leave it in.
Verdicts(r) == {AgentState(AlgoState("running", k), k) : k \in Endings[r]}

Ensured(r) == IF Live(r) THEN info[r] ELSE NewInfo

\* A snapshot under way holds on to the RunInfo it was started with: once the
\* registry has dropped or replaced that one, it changes no more.
Detached(js, rs) ==
  {IF j.run \in rs /\ j.of = Gone THEN [j EXCEPT !.of = info[j.run]] ELSE j : j \in js}

\* Run r is touched, its RunInfo becomes i, and new snapshots are ordered;
\* replaced is {r} when i is a new object.
Registry(r, i, replaced, new) ==
  LET o == Touch(r, order)
      dropped == Evicted(o)
  IN /\ order' = IF dropped = {} THEN o ELSE Tail(o)
     /\ info' = [x \in Run |-> IF x \in dropped THEN Gone
                               ELSE IF x = r THEN i ELSE info[x]]
     /\ jobs' = Detached(jobs, dropped \cup replaced) \cup new
     /\ whole' = whole \ (dropped \cup replaced)

-----------------------------------------------------------------------------
(* WebDashboardObserver *)

\* _put_drop_oldest
PutDropOldest(q, n) == Append(IF Len(q) = QueueSize THEN Tail(q) ELSE q, n)

Broadcast == feed' = IF feed = Gone THEN Gone ELSE PutDropOldest(feed, clock')

\* _is_terminal_envelope
IsTerminal(kind) == kind \in {"end", "error"} \cup OfAlgorithm

\* A snapshot that a thread will take of run r.
NewJob(id, r, of) == [id |-> id, run |-> r, of |-> of, stage |-> "queued",
                      state |-> "running", total |-> 0, notes |-> 0]

\* A snapshot under way has read that the run is in another state.
ReadAnother(r, state) == \E j \in jobs : j.run = r /\ j.stage # "queued" /\ j.state # state

\* broadcast(envelope): registry, snapshot, subscribers.
Ingest(r, kind) ==
  /\ clock < budget.ingests
  /\ clock' = clock + 1
  /\ Registry(r, Recorded(Ensured(r), kind), {},
              IF IsTerminal(kind) THEN {NewJob(<<clock', 0>>, r, Gone)} ELSE {})
  /\ lost' = IF IsTerminal(kind) THEN lost \ {r} ELSE lost
  /\ overtaken' = IF ~IsTerminal(kind) THEN overtaken
                  ELSE IF ReadAnother(r, Recorded(Ensured(r), kind).state) THEN overtaken \cup {r}
                  ELSE overtaken \ {r}
  /\ Broadcast
  /\ UNCHANGED <<archive, saving, noted, budget>>

\* A graph_envelope: the run is touched, or made.
PostGraph(r) ==
  /\ Registry(r, Ensured(r), {}, {})
  /\ UNCHANGED <<lost, overtaken, archive, feed, clock, saving, noted, budget>>

-----------------------------------------------------------------------------
(* Subscribers: _event_stream *)

Subscribe ==
  /\ feed = Gone /\ budget.connects > 0
  /\ budget' = [budget EXCEPT !.connects = @ - 1]
  /\ feed' = <<>>
  /\ UNCHANGED <<lost, overtaken, order, info, archive, jobs, clock, saving, noted, whole>>

ReadFeed ==
  /\ feed # Gone /\ feed # <<>>
  /\ feed' = Tail(feed)
  /\ UNCHANGED <<lost, overtaken, order, info, archive, jobs, clock, saving, noted, whole, budget>>

\* _seed_snapshots: occupancy, cost and stats, every two seconds.
SeedSnapshots ==
  /\ feed # Gone
  /\ feed' = PutDropOldest(PutDropOldest(PutDropOldest(feed, 0), 0), 0)
  /\ UNCHANGED <<lost, overtaken, order, info, archive, jobs, clock, saving, noted, whole, budget>>

Disconnect ==
  /\ feed # Gone
  /\ feed' = Gone
  /\ UNCHANGED <<lost, overtaken, order, info, archive, jobs, clock, saving, noted, whole, budget>>

-----------------------------------------------------------------------------
(* SQLiteRunArchive.upsert_snapshot, in a thread *)

InfoOf(j) == IF j.of = Gone THEN info[j.run] ELSE j.of

Step(j, k) == jobs' = (jobs \ {j}) \cup {k}

\* info.summary()
ReadSummary(j) ==
  /\ j.stage = "queued"
  /\ LET i == InfoOf(j)
     IN Step(j, [j EXCEPT !.stage = "read", !.state = i.state, !.notes = i.notes])
  /\ UNCHANGED <<lost, overtaken, order, info, archive, feed, clock, saving, noted, whole, budget>>

Unlocked == \A j \in jobs : j.stage # "writing"

\* The first INSERT takes the write lock; then the events are iterated over.
TakeLock(j) ==
  /\ j.stage = "read" /\ Unlocked
  /\ Step(j, [j EXCEPT !.stage = "writing", !.total = InfoOf(j).total])
  /\ UNCHANGED <<lost, overtaken, order, info, archive, feed, clock, saving, noted, whole, budget>>

\* The row of a summary, and the events that the run has by then.
Row(summary, i) == [state |-> summary.state, notes |-> summary.notes, events |-> i.events]

\* Mutant: ON CONFLICT(run_id) DO NOTHING.
CommitFirst(j) ==
  /\ j.stage = "writing"
  /\ archive' = IF InfoOf(j).total = j.total /\ archive[j.run] = Gone
                  THEN [archive EXCEPT ![j.run] = Row(j, InfoOf(j))] ELSE archive
  /\ jobs' = jobs \ {j}
  /\ UNCHANGED <<lost, overtaken, order, info, feed, clock, saving, noted, whole, budget>>

\* The deque was appended to while it was iterated over: RuntimeError, and the
\* transaction is rolled back.  Nobody awaits the thread.
Commit(j) ==
  /\ j.stage = "writing"
  /\ archive' = IF InfoOf(j).total = j.total
                  THEN [archive EXCEPT ![j.run] = Row(j, InfoOf(j))] ELSE archive
  /\ jobs' = jobs \ {j}
  /\ UNCHANGED <<lost, overtaken, order, info, feed, clock, saving, noted, whole, budget>>

\* sqlite3.OperationalError: others held the database for longer than the
\* timeout of sqlite3.connect, and what was written is rolled back.  The snapshot
\* is gone, and nothing retries it.
GiveUp(j) ==
  /\ j.stage \in {"read", "writing"}
  /\ jobs' = jobs \ {j}
  /\ lost' = lost \cup {j.run}
  /\ UNCHANGED <<order, info, archive, feed, clock, saving, noted, whole, overtaken, budget>>

-----------------------------------------------------------------------------
(* The API on notes and on the archive *)

\* PATCH /api/runs/{run_id}/notes, on the loop, which waits for the write lock:
\* upsert_snapshot, then set_notes.
EditNotes(r) ==
  /\ budget.edits > 0 /\ (Live(r) => Unlocked)
  /\ budget' = [budget EXCEPT !.edits = @ - 1]
  /\ saving' = r
  /\ IF Live(r)
       THEN /\ info' = [info EXCEPT ![r].notes = budget.edits]
            /\ archive' = [archive EXCEPT ![r] = Row(info'[r], info'[r])]
       ELSE UNCHANGED <<info, archive>>
  /\ UNCHANGED <<lost, overtaken, order, jobs, feed, clock, noted, whole>>

\* The lock was not to be had: the RunInfo has the notes, the client a 500.
EditFails(r) ==
  /\ budget.edits > 0 /\ Live(r) /\ ~Unlocked
  /\ budget' = [budget EXCEPT !.edits = @ - 1]
  /\ info' = [info EXCEPT ![r].notes = budget.edits]
  /\ UNCHANGED <<order, archive, jobs, feed, clock, saving, noted, whole, lost, overtaken>>

SetNotes ==
  /\ saving # 0 /\ (archive[saving] # Gone => Unlocked)
  /\ IF archive[saving] # Gone
       THEN /\ archive' = [archive EXCEPT ![saving].notes = budget.edits + 1]
            /\ noted' = [noted EXCEPT ![saving] = budget.edits + 1]
       ELSE UNCHANGED <<archive, noted>>
  /\ saving' = 0
  /\ UNCHANGED <<lost, overtaken, order, info, jobs, feed, clock, whole, budget>>

SetFails ==
  /\ saving # 0 /\ archive[saving] # Gone /\ ~Unlocked
  /\ saving' = 0
  /\ UNCHANGED <<order, info, archive, jobs, feed, clock, noted, whole, lost, overtaken, budget>>

\* DELETE /api/archive/{run_id}
DeleteRow(r) ==
  /\ budget.removals > 0 /\ archive[r] # Gone /\ Unlocked
  /\ budget' = [budget EXCEPT !.removals = @ - 1]
  /\ archive' = [archive EXCEPT ![r] = Gone]
  /\ whole' = whole \ {r}
  /\ UNCHANGED <<lost, overtaken, order, info, jobs, feed, clock, saving, noted>>

\* POST /api/archive/{run_id}/restore: a RunInfo made of the row replaces the
\* one in the registry.
RestoreRow(r) ==
  /\ budget.removals > 0 /\ archive[r] # Gone
  /\ budget' = [budget EXCEPT !.removals = @ - 1]
  /\ LET row == archive[r]
     IN Registry(r, [state |-> row.state, events |-> row.events, total |-> Len(row.events),
                     notes |-> row.notes], {r}, {})
  /\ UNCHANGED <<lost, overtaken, archive, feed, clock, saving, noted>>

-----------------------------------------------------------------------------
(* Restart *)

\* The runs whose events the archive gives back.
Replayable == {r \in Run : archive[r] # Gone /\ archive[r].events # <<>>}

\* iter_export_records lists the newest runs first, and what is touched first is
\* evicted first: the oldest stay.
Hydrated == {r \in Replayable : Cardinality({x \in Replayable : x < r}) < RunCapacity}

\* The RunInfo that replaying the archived events gives.
Replayed(r) ==
  LET events == archive[r].events
      upto[n \in 0 .. Len(events)] ==
        IF n = 0 THEN NewInfo ELSE Recorded(upto[n - 1], events[n])
  IN upto[Len(events)]

\* The process ends, with its threads and its connections, and comes up again:
\* the archived events are broadcast, and each that ends a run orders a
\* snapshot.
Restart ==
  /\ budget.restarts > 0
  /\ budget' = [budget EXCEPT !.restarts = @ - 1]
  /\ order' = Among([n \in Run |-> Runs + 1 - n], Hydrated)
  /\ info' = [r \in Run |-> IF r \in Hydrated THEN Replayed(r) ELSE Gone]
  /\ jobs' = UNION {{NewJob(<<clock, n>>, r, IF r \in Hydrated THEN Gone ELSE Replayed(r)) :
                       n \in {m \in DOMAIN archive[r].events : IsTerminal(archive[r].events[m])}} :
                    r \in Replayable}
  /\ whole' = whole \ {r \in Run \ Hydrated : archive[r] # Gone}
  /\ lost' = {} /\ overtaken' = {}
  /\ feed' = Gone /\ saving' = 0
  /\ UNCHANGED <<archive, clock, noted>>

-----------------------------------------------------------------------------

DashInit ==
  /\ order = <<>> /\ info = [r \in Run |-> Gone]
  /\ archive = [r \in Run |-> Gone]
  /\ jobs = {} /\ feed = Gone /\ clock = 0 /\ saving = 0
  /\ noted = [r \in Run |-> 0] /\ whole = Run /\ lost = {} /\ overtaken = {}
  /\ budget \in Budgets

\* What the event loop does, unless it is busy with the archive.
Loop ==
  \/ \E r \in Run : \/ \E kind \in {"more"} \cup Endings[r] : Ingest(r, kind)
                    \/ PostGraph(r) \/ EditNotes(r) \/ EditFails(r) \/ DeleteRow(r) \/ RestoreRow(r)
  \/ Subscribe \/ ReadFeed \/ SeedSnapshots \/ Disconnect

Snapshot == \E j \in jobs : ReadSummary(j) \/ TakeLock(j) \/ Commit(j) \/ GiveUp(j)

DashNext ==
  \/ saving = 0 /\ Loop
  \/ SetNotes \/ SetFails
  \/ Snapshot
  \/ Restart

DashSpec == DashInit /\ [][DashNext]_dashvars

-----------------------------------------------------------------------------
(* Properties *)

\* The registry keeps to its capacity, its order lists each of its runs once, and
\* neither a run's events nor a subscriber's queue outgrow their bound.
DashTypeOK ==
  /\ Len(order) <= RunCapacity /\ IsInjective(order)
  /\ ToSet(order) = {r \in Run : Live(r)}
  /\ \A r \in Run : Live(r) => info[r] \in Info /\ Len(info[r].events) <= PerRun
  /\ \A r \in Run : archive[r] # Gone => archive[r].state \in States
  /\ \A j \in jobs : j.run \in Run /\ j.state \in States
  /\ feed # Gone => feed \in Seq(0 .. clock) /\ Len(feed) <= QueueSize

EndedLast(r) == Live(r) /\ info[r].events # <<>> /\ IsTerminal(Last(info[r].events))

\* A run that has ended, with no event after its end, is in the archive once its
\* snapshots are over, with all the events that the registry has of it and with
\* its verdict: whichever of its snapshots wins the race for the write lock, and
\* though those that an event disturbs give up.  A run that ended twice, and not
\* the same way, may be left with the other of its verdicts, but only if the last
\* end came while a snapshot that had read the first was under way; and none is
\* left as running.  Nothing is claimed of a run of which a snapshot has met the
\* timeout of the lock, until the run ends again or the server restarts.
ArchiveSettles ==
  \A r \in whole \ lost :
    EndedLast(r) /\ {j \in jobs : j.run = r} = {} =>
      /\ archive[r] # Gone
      /\ archive[r].events = info[r].events
      /\ archive[r].state \in Verdicts(r)
      /\ archive[r].state = info[r].state \/ r \in overtaken

\* What a subscriber has yet to read are the newest envelopes, without a gap: the
\* statistics that _seed_snapshots puts between them push out the oldest only.
FeedIsRecent ==
  feed # Gone =>
    LET unread == Among(feed, Nat \ {0})
    IN \A i \in DOMAIN unread : unread[i] = clock - Len(unread) + i

\* Notes that a user saved are in the archive as long as the run is: neither a
\* snapshot nor a restart puts older ones in their place.
NotesSurvive == \A r \in Run : noted[r] # 0 /\ archive[r] # Gone => archive[r].notes = noted[r]

\* What the dashboard keeps, and what it tells its subscribers, is of the run it is of.
ArchiveSound ==
  /\ DashTypeOK
  /\ ArchiveSettles
  /\ FeedIsRecent

=============================================================================
