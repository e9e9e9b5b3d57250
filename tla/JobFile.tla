------------------------------- MODULE JobFile -------------------------------
(***************************************************************************)
(* A file of rows to be rated: Studio reads it, sets a rating and writes   *)
(* it back (src/apps/studio/operad_studio/jobs.py), the                    *)
(* HumanFeedbackLoss of a training reads it                                *)
(* (src/operad/optim/losses/hfeedback.py), and the HumanFeedbackCallback   *)
(* of a training appends rows to it                                        *)
(* (src/operad/train/callbacks/hfeedback.py).  The three may be in three   *)
(* processes, so their steps interleave.                                   *)
(***************************************************************************)
EXTENDS Naturals, Sequences, FiniteSets

CONSTANTS RowId,    \* hashes of outputs: the same output has the same id
          Rating,   \* ratings a human may give
          Unrated,
          Rows,     \* rows in the file (bound)
          Writes    \* times the file is written (bound)

ASSUME JobFileAssumption == {Rows, Writes} \subseteq Nat /\ Unrated \notin Rating

VARIABLES file,     \* the rows
          mtime,    \* a number that every write of the file raises
          saver,    \* save_rating between its read and its replace
          loader,   \* _load between its stat and its end
          cache,    \* _by_id, and the _mtime it was read under
          saved     \* history variable: the rating last saved for an id

jobvars == <<file, mtime, saver, loader, cache, saved>>

NoSave == [on |-> FALSE, rows |-> <<>>, row |-> 0, rating |-> Unrated]
NoRating == [id \in RowId |-> Unrated]
NoLoad == [at |-> "none", mtime |-> 0, byId |-> NoRating]

Positions(rows, id) == {k \in DOMAIN rows : rows[k].id = id}
First(K) == CHOOSE k \in K : \A j \in K : k <= j
Newest(K) == CHOOSE k \in K : \A j \in K : k >= j

\* The callback opens the file, appends and closes.
AppendRow(id) ==
  /\ Len(file) < Rows /\ mtime < Writes
  /\ file' = Append(file, [id |-> id, rating |-> Unrated])
  /\ mtime' = mtime + 1
  /\ UNCHANGED <<saver, loader, cache, saved>>

SaveTarget(rows, id) == First(Positions(rows, id))

\* save_rating reads the rows and changes the first that has the id.
SaveRead(id, rating) ==
  /\ ~saver.on /\ Positions(file, id) # {} /\ mtime < Writes
  /\ saver' = [on |-> TRUE, rows |-> file, row |-> SaveTarget(file, id), rating |-> rating]
  /\ UNCHANGED <<file, mtime, loader, cache, saved>>

Rated(s) == [s.rows EXCEPT ![s.row].rating = s.rating]

\* The rows as they were read, with the rating, replace the file: a row appended
\* in between is lost.
SaveReplace ==
  /\ saver.on /\ mtime < Writes
  /\ file' = Rated(saver)
  /\ mtime' = mtime + 1
  /\ saved' = [saved EXCEPT ![saver.rows[saver.row].id] = saver.rating]
  /\ saver' = NoSave
  /\ UNCHANGED <<loader, cache>>

\* The temporary file cannot be written.
SaveFails ==
  /\ saver.on
  /\ saver' = NoSave
  /\ UNCHANGED <<file, mtime, loader, cache, saved>>

\* _load reads the file again unless it has not changed since.
LoadStat ==
  /\ loader.at = "none" /\ cache.mtime # mtime
  /\ loader' = [NoLoad EXCEPT !.at = "stat", !.mtime = mtime]
  /\ UNCHANGED <<file, mtime, saver, cache, saved>>

\* The last row of an id counts.
ById == [id \in RowId |-> LET K == Positions(file, id)
                          IN IF K = {} THEN Unrated ELSE file[Newest(K)].rating]

LoadRead ==
  /\ loader.at = "stat"
  /\ loader' = [loader EXCEPT !.at = "read", !.byId = ById]
  /\ UNCHANGED <<file, mtime, saver, cache, saved>>

\* Mutant: the file's time is taken when it has been read.
StampNow == mtime

Stamp == loader.mtime

LoadEnds ==
  /\ loader.at = "read"
  /\ cache' = [byId |-> loader.byId, mtime |-> Stamp]
  /\ loader' = NoLoad
  /\ UNCHANGED <<file, mtime, saver, saved>>

JobInit ==
  /\ file \in UNION {[1 .. k -> [id : RowId, rating : {Unrated}]] : k \in 0 .. 1}
  /\ mtime = 1
  /\ saver = NoSave /\ loader = NoLoad
  /\ cache = [byId |-> NoRating, mtime |-> 0]
  /\ saved = NoRating

JobNext ==
  \/ \E id \in RowId : AppendRow(id) \/ \E r \in Rating \cup {Unrated} : SaveRead(id, r)
  \/ SaveReplace \/ SaveFails \/ LoadStat \/ LoadRead \/ LoadEnds

JobSpec == JobInit /\ [][JobNext]_jobvars

-----------------------------------------------------------------------------
(* Properties                                                              *)

\* A rating that was saved stays in the first row of its id, whatever another
\* process appends and whatever ratings are saved after it.
RatingKept ==
  \A id \in RowId : saved[id] # Unrated =>
    Positions(file, id) # {} /\ file[First(Positions(file, id))].rating = saved[id]

\* The loss never goes by ratings that are out of date without noticing: when
\* the file has not changed since its stamp, it goes by the last row that each id has
\* there now, and an id that has one row counts with the rating saved last.  (Of an id
\* with several rows Studio rates the first.)
LossUpToDate ==
  cache.mtime = mtime =>
    /\ cache.byId = ById
    /\ \A id \in RowId : Cardinality(Positions(file, id)) = 1 => cache.byId[id] = saved[id]

\* A rating a human has saved is kept, and the loss that is computed next takes it in.
RatingsReachLoss ==
  /\ RatingKept
  /\ LossUpToDate

=============================================================================
