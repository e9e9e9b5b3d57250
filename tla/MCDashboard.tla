---------------------------- MODULE MCDashboard ----------------------------
(* Instances of Dashboard. *)
EXTENDS Dashboard

\* The agent of run 1 catches the error of its algorithm.
MCEndings == [r \in 1 .. Runs |-> IF r = 1 THEN {"algo_error", "end"} ELSE {"algo_end"}]

\* Notes are saved, or the server restarts, or a row is deleted or restored, or both of
\* these after fewer envelopes, or a subscriber listens: what one does is no matter to the
\* others.
MCBudgets == {[ingests |-> 2, edits |-> 1, restarts |-> 0, removals |-> 0, connects |-> 0],
              [ingests |-> 3, edits |-> 0, restarts |-> 1, removals |-> 0, connects |-> 0],
              [ingests |-> 3, edits |-> 0, restarts |-> 0, removals |-> 1, connects |-> 0],
              [ingests |-> 2, edits |-> 0, restarts |-> 1, removals |-> 1, connects |-> 0],
              [ingests |-> 2, edits |-> 0, restarts |-> 0, removals |-> 0, connects |-> 1]}

=============================================================================
