--------------------------- MODULE BackendClaims ---------------------------
(***************************************************************************)
(* What comments and documents of the repository say of the backend        *)
(* pipeline and the code does not keep.  Each has a run that refutes it.   *)
(***************************************************************************)
EXTENDS MCBackendPipeline

\* "cancelled tests are also marked in PostgreSQL and the consumer checks DB
\* status before execution": no k6 process starts for a row that is cancelled
\* when the signal of the cancel was sent and no replica has it to come any more,
\* so that nothing is left to stop the process (worker-backend index.ts 277
\* checks, runner.ts 142 starts).
SignalOver(t) == cancelReq[t] = "signalled" /\ \A r \in Replicas : t \notin signals[r]
NoStartAfterCancel ==
    [][\A h \in Handlers :
          At(h, "checked") /\ handler'[h].pc = "k6" /\ SignalOver(Test(h))
              => row[Test(h)].status # "cancelled"]_vars

\* "handleTestMessage already fully catches its own errors (never actually
\* rejects)" (worker-backend index.ts 374).
HandlerNeverRejects == \A h \in Handlers : ~At(h, "rejected")

\* "Always mark test as failed on DLQ exhaustion (don't rely on stale cleanup)":
\* a dead-lettered test that nobody works on any more does not show 'running'
\* (results.ts 115 has no guard on the status, worker-backend runner.ts 143
\* does not wait for the call).
DeadIsNotRunning ==
    \A t \in Tests :
        InFlight("tests.dlq", t) /\ ~Owed(t) /\ runningCalls[t] = 0
            => row[t].status # "running"
=============================================================================
