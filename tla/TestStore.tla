----------------------------- MODULE TestStore -----------------------------
(***************************************************************************)
(* One row of the test_results table, and the statements results-service   *)
(* runs against it.  A row is a record; each operator is one SQL statement *)
(* and returns the row after it.  Every other column (timings, analysis,   *)
(* script reference, execution log) follows these two and no property      *)
(* tells them apart.                                                       *)
(***************************************************************************)

Active   == {"pending", "running"}
Terminal == {"completed", "failed", "cancelled"}

\* "absent" is the row that has not been inserted.  metrics: the metrics
\* column holds the result of a run.
Row   == [status : {"absent"} \cup Active \cup Terminal, metrics : BOOLEAN]
NoRow == [status |-> "absent", metrics |-> FALSE]

\* INSERT ... ON CONFLICT (test_id) DO NOTHING
InsertPending(row) ==
    IF row.status = "absent" THEN [row EXCEPT !.status = "pending"] ELSE row

\* UPDATE ... SET status = 'running' WHERE test_id = $1: whatever the status is.
MarkRunning(row) ==
    IF row.status # "absent" THEN [row EXCEPT !.status = "running"] ELSE row

\* UPDATE ... WHERE status IN ('pending', 'running')
MarkFailed(row) ==
    IF row.status \in Active THEN [row EXCEPT !.status = "failed"] ELSE row

\* Mutant: the cancel statement does not look at the status.
MarkCancelledAnyStatus(row, permitted) ==
    IF permitted THEN [row EXCEPT !.status = "cancelled"] ELSE row

\* Mutant: the cancel statement writes a status the rest of the code never reads.
MarkCancelledMisspelt(row, permitted) ==
    IF permitted /\ row.status \in Active THEN [row EXCEPT !.status = "canceled"] ELSE row

\* The same, and only for a caller that names the row's own project or for a
\* row that has none.
MarkCancelled(row, permitted) ==
    IF permitted /\ row.status \in Active
    THEN [row EXCEPT !.status = "cancelled"]
    ELSE row

\* INSERT ... ON CONFLICT (test_id) DO UPDATE: a result overwrites any status.
UpsertResult(row) == [status |-> "completed", metrics |-> TRUE]

\* Mutant: only the pending statement is left.
SweepStalePending(row) ==
    IF row.status = "pending" THEN [row EXCEPT !.status = "failed"] ELSE row

\* The stale sweep's two statements, for a row past its threshold.
SweepStale(row) ==
    IF row.status \in Active THEN [row EXCEPT !.status = "failed"] ELSE row
=============================================================================
