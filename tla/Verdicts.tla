------------------------------ MODULE Verdicts ------------------------------
(***************************************************************************)
(* The verdict on a result: the consumer of results-service looks up the   *)
(* run to compare it with, the baseline if there is one, has it analysed,  *)
(* saves it and tells the webhooks.  Meanwhile users choose and clear      *)
(* baselines.  All tests are of one URL and one team.                      *)
(*                                                                         *)
(* A row is created with the type of the test that was asked for; a result *)
(* carries the type of its metrics.  analyser-service and the consumer's   *)
(* own fallback analyse with the same function, so it is one step here,    *)
(* and what an AI says of the result is left out.                          *)
(***************************************************************************)
EXTENDS Integers, FiniteSets, Sequences, SequencesExt

CONSTANTS
    MaxTests,        \* tests of the URL, numbered as they are asked for
    Setters,         \* users that choose a baseline, one request at a time each
    BackendMeasures, \* metrics of k6: p95, rps, errors in percent
    ClientMeasures,  \* metrics of a browser: lcp, performance
    SLOs,            \* thresholds that come with a result
    AskedKinds,      \* kinds of tests
    MaxTries,        \* MAX_RETRIES of the consumer
    MaxEvents        \* bound on baselines set or cleared, rows deleted and failures

VerdictsAssumption ==
    /\ {MaxTests, MaxTries, MaxEvents} \subseteq Nat /\ AskedKinds \subseteq {"backend", "flow", "client-side"}
    /\ \A m \in BackendMeasures : DOMAIN m = {"p95", "rps", "errors"}
    /\ \A m \in ClientMeasures : DOMAIN m = {"lcp", "performance"}
    /\ \A s \in SLOs : DOMAIN s \subseteq {"p95", "errors", "lcp"}

Runs  == 1..MaxTests
NoTest == 0

VARIABLES
    kind,      \* test -> what was asked for
    result,    \* test -> "none", "due", "handled", "dead"
    tries,     \* test -> the x-retry-count of its message
    outcome,   \* test_results
    order,     \* their tests in the order of created_at
    handling,  \* the consumer's message and what it has found out
    setting,   \* requests for a baseline
    chosen,    \* type -> the baseline users can count on
    contested, \* types of overlapping requests
    announced, \* tests whose saved verdict went to the webhooks
    events     \* those that are bounded, so far

vdvars == <<kind, result, tries, outcome, order, handling, setting, chosen, contested, announced, events>>

Kinds == {"backend", "flow", "client-side"}
Types == Kinds \cup {"client"}

\* parseK6Output and runClientTest: what a test of a kind measures.
MetricsType(k) == IF k = "client-side" THEN "client" ELSE "backend"
Measures(k)    == IF k = "client-side" THEN ClientMeasures ELSE BackendMeasures

NoRow   == [type |-> "none"]
NoJob   == [test |-> NoTest]
NoSet   == [test |-> NoTest]
NoPast  == [test |-> NoTest, metrics |-> <<>>]

VerdictsTypeOK ==
    /\ kind \in [Runs -> Kinds \cup {"none"}]
    /\ result \in [Runs -> {"none", "due", "handled", "dead"}]
    /\ tries \in [Runs -> 0..MaxTries]
    /\ \A t \in Runs : outcome[t].type \in Types \cup {"none"}
    /\ \A n \in DOMAIN order : order[n] \in Runs /\ outcome[order[n]] # NoRow
    /\ handling.test \in Runs \cup {NoTest} /\ \A u \in Setters : setting[u].test \in Runs \cup {NoTest}
    /\ chosen \in [Types -> Runs \cup {NoTest}]
    /\ contested \subseteq Types /\ announced \subseteq Runs /\ events \in 0..MaxEvents

VerdictsInit ==
    /\ kind = [t \in Runs |-> "none"] /\ result = [t \in Runs |-> "none"] /\ tries = [t \in Runs |-> 0]
    /\ outcome = [t \in Runs |-> NoRow] /\ order = <<>>
    /\ handling = NoJob /\ setting = [u \in Setters |-> NoSet]
    /\ chosen = [y \in Types |-> NoTest] /\ contested = {} /\ announced = {} /\ events = 0

-----------------------------------------------------------------------------
(* analyzeResult.  The metrics of a measure stand for those treated alike.   *)

BACKEND_THRESHOLDS == [p95 |-> 1000, errors |-> 1]
CLIENT_THRESHOLDS  == [lcp |-> 2500, performance |-> 50]
HigherIsBetter     == {"rps", "performance"}
Compared           == {"p95", "rps", "lcp", "performance"}

\* thresholds?.x ?? its default
Thresholds(slo, default) == [x \in DOMAIN default |-> IF x \in DOMAIN slo THEN slo[x] ELSE default[x]]

Violates(current, limits) ==
    \E x \in DOMAIN limits :
        IF x \in HigherIsBetter THEN current[x] < limits[x] ELSE current[x] > limits[x]

\* More than 20% worse, which getDiffStatus calls "worse" too.
Degrades(current, previous) ==
    \E x \in DOMAIN current \cap DOMAIN previous \cap Compared :
        /\ previous[x] # 0
        /\ IF x \in HigherIsBetter THEN 5 * (previous[x] - current[x]) > previous[x]
                                   ELSE 5 * (current[x] - previous[x]) > previous[x]

analyzeBackend(current, previous, slo) ==
    IF Violates(current, Thresholds(slo, BACKEND_THRESHOLDS)) THEN "failed"
    ELSE IF Degrades(current, previous) THEN "degraded" ELSE "passed"
analyzeClient(current, previous, slo) ==
    IF Violates(current, Thresholds(slo, CLIENT_THRESHOLDS)) THEN "failed"
    ELSE IF Degrades(current, previous) THEN "degraded" ELSE "passed"
analyzeResult(type, current, previous, slo) ==
    IF type = "backend" THEN analyzeBackend(current, previous, slo) ELSE analyzeClient(current, previous, slo)

-----------------------------------------------------------------------------
(* The life of a row. *)

Asks   == <<setting, chosen, contested>>
Counts == events < MaxEvents /\ events' = events + 1

Create(t, type) ==
    /\ outcome' = [outcome EXCEPT ![t] = [type |-> type, status |-> "pending", metrics |-> <<>>,
                                           is_baseline |-> FALSE, perf_status |-> "none"]]
    /\ order' = Append(order, t)

\* POST /tests, then POST /results/pending, which api-service does not wait for: the
\* row is created, or never is.  A worker's result is due from now on.
Submit(t, k) ==
    /\ kind[t] = "none" /\ (\A u \in 1..t-1 : kind[u] # "none")
    /\ kind' = [kind EXCEPT ![t] = k] /\ result' = [result EXCEPT ![t] = "due"]
    /\ UNCHANGED <<tries, handling, Asks, announced>>
PendingArrives(t, k) == Submit(t, k) /\ Create(t, k) /\ UNCHANGED events
PendingLost(t, k)    == Submit(t, k) /\ Counts /\ UNCHANGED <<outcome, order>>

\* Retention deletes the row (cleanup.ts), and with it a baseline; a new test does
\* not get its id.
Delete(t) ==
    /\ outcome[t] # NoRow /\ result[t] = "handled" /\ Counts
    /\ outcome' = [outcome EXCEPT ![t] = NoRow]
    /\ \E n \in DOMAIN order : order[n] = t /\ order' = RemoveAt(order, n)
    /\ chosen' = [y \in Types |-> IF chosen[y] = t THEN NoTest ELSE chosen[y]]
    /\ announced' = announced \ {t}
    /\ UNCHANGED <<kind, result, tries, handling, setting, contested>>

-----------------------------------------------------------------------------
(* handleResult: one message at a time (prefetch 1). *)

Latest(candidates) == CHOOSE n \in candidates : \A o \in candidates : o <= n

\* ORDER BY is_baseline DESC, created_at DESC LIMIT 1
Best(candidates) ==
    LET baselines == {n \in candidates : outcome[order[n]].is_baseline}
    IN  IF baselines # {} THEN Latest(baselines) ELSE Latest(candidates)

Previous(t, type) ==
    LET candidates == {n \in DOMAIN order : LET u == order[n] IN
                          u # t /\ outcome[u].type = type /\ outcome[u].status = "completed"}
    IN  IF candidates = {} THEN NoPast
        ELSE [test |-> order[Best(candidates)], metrics |-> outcome[order[Best(candidates)]].metrics]

\* What can be relied on is noted with what the lookup finds.
Lookup(t) ==
    /\ handling = NoJob /\ result[t] = "due"
    /\ LET type == MetricsType(kind[t]) IN
       \E metrics \in Measures(kind[t]), slo \in SLOs :
          handling' = [test |-> t, step |-> "analysing", type |-> type, metrics |-> metrics, slo |-> slo,
                       previous |-> Previous(t, type), chosen |-> chosen[type], asked |-> chosen[kind[t]]]
    /\ UNCHANGED <<kind, result, tries, outcome, order, Asks, announced, events>>

\* For up to twelve seconds; analyzeResult when that fails.  The verdict is the
\* same, whatever became of the other runs meanwhile.
callAnalyserService(h) == analyzeResult(h.type, h.metrics, h.previous.metrics, h.slo)
Analyse ==
    /\ handling # NoJob /\ handling.step = "analysing"
    /\ handling' = [test |-> handling.test, step |-> "saving", type |-> handling.type, metrics |-> handling.metrics,
                    against |-> handling.previous.test, chosen |-> handling.chosen, asked |-> handling.asked,
                    perf_status |-> callAnalyserService(handling)]
    /\ UNCHANGED <<kind, result, tries, outcome, order, Asks, announced, events>>

\* Mutant: REPLACE.
Replaced(old, h) ==
    [type |-> h.type, is_baseline |-> FALSE,
     status |-> "completed", metrics |-> h.metrics, perf_status |-> h.perf_status]

\* INSERT .. ON CONFLICT: a row that exists keeps its type and its baseline flag.
Upserted(old, h) ==
    [type |-> IF old = NoRow THEN h.type ELSE old.type,
     is_baseline |-> IF old = NoRow THEN FALSE ELSE old.is_baseline,
     status |-> "completed", metrics |-> h.metrics, perf_status |-> h.perf_status]
Save ==
    LET t == handling.test IN
    /\ handling # NoJob /\ handling.step = "saving"
    /\ outcome' = [outcome EXCEPT ![t] = Upserted(@, handling)]
    /\ order' = IF outcome[t] = NoRow THEN Append(order, t) ELSE order
    /\ handling' = [handling EXCEPT !.step = "saved"]
    /\ announced' = announced \ {t}
    /\ UNCHANGED <<kind, result, tries, Asks, events>>

\* Webhooks hear of bad verdicts, whatever becomes of a delivery; the pages are
\* told, and the message is acknowledged.
fireWebhooks(t) == announced' = announced \cup {t}
Announce ==
    /\ handling # NoJob /\ handling.step = "saved"
    /\ IF handling.perf_status \in {"failed", "degraded"} THEN fireWebhooks(handling.test) ELSE UNCHANGED announced
    /\ result' = [result EXCEPT ![handling.test] = "handled"]
    /\ handling' = NoJob
    /\ UNCHANGED <<kind, tries, outcome, order, Asks, events>>

\* A query fails: published again with the count one up, or to the DLQ.
Throw ==
    LET t == handling.test IN
    /\ handling # NoJob /\ handling.step \in {"analysing", "saving"} /\ Counts
    /\ IF tries[t] < MaxTries
       THEN result' = result /\ tries' = [tries EXCEPT ![t] = @ + 1]
       ELSE result' = [result EXCEPT ![t] = "dead"] /\ UNCHANGED tries
    /\ handling' = NoJob
    /\ UNCHANGED <<kind, outcome, order, Asks, announced>>
\* The process ends; the message is delivered again.
Crash ==
    /\ handling # NoJob /\ Counts /\ handling' = NoJob
    /\ UNCHANGED <<kind, result, tries, outcome, order, Asks, announced>>

-----------------------------------------------------------------------------
(* POST and DELETE /results/:testId/baseline. *)

Rows == <<kind, result, tries, outcome, order, handling, announced>>
Free(u) == setting[u] = NoSet
Busy(type) == {u \in Setters : ~Free(u) /\ setting[u].type = type}
Completed(t) == outcome[t] # NoRow /\ outcome[t].status = "completed"

\* The test is found, or not: 404.  From here to the answer nobody can say which
\* run is the baseline, and of two requests at a time not even after that.
FindRun(u, t) ==
    /\ Free(u) /\ Completed(t) /\ Counts
    /\ setting' = [setting EXCEPT ![u] = [test |-> t, type |-> outcome[t].type, step |-> "clearing"]]
    /\ contested' = IF Busy(outcome[t].type) = {} THEN contested ELSE contested \cup {outcome[t].type}
    /\ chosen' = [chosen EXCEPT ![outcome[t].type] = NoTest]
    /\ UNCHANGED Rows

ClearBaselines(u) ==
    /\ ~Free(u) /\ setting[u].step = "clearing"
    /\ outcome' = [v \in Runs |-> IF outcome[v].type # setting[u].type THEN outcome[v]
                                   ELSE [outcome[v] EXCEPT !.is_baseline = FALSE]]
    /\ setting' = [setting EXCEPT ![u].step = "marking"]
    /\ UNCHANGED <<kind, result, tries, order, handling, announced, chosen, contested, events>>
MarkBaseline(u) ==
    LET t == setting[u].test IN
    /\ ~Free(u) /\ setting[u].step = "marking"
    /\ outcome' = IF outcome[t] = NoRow THEN outcome ELSE [outcome EXCEPT ![t].is_baseline = TRUE]
    /\ chosen' = IF outcome[t] = NoRow THEN chosen ELSE [chosen EXCEPT ![setting[u].type] = t]
    /\ setting' = [setting EXCEPT ![u] = NoSet]
    /\ UNCHANGED <<kind, result, tries, order, handling, announced, contested, events>>

\* A statement fails: 500, the old baseline may be gone and no new one marked.
SetFails(u) ==
    /\ ~Free(u) /\ Counts /\ setting' = [setting EXCEPT ![u] = NoSet]
    /\ UNCHANGED <<Rows, chosen, contested>>

ClearBaseline(t) ==
    /\ outcome[t] # NoRow /\ outcome[t].is_baseline /\ Counts
    /\ outcome' = [outcome EXCEPT ![t].is_baseline = FALSE]
    /\ chosen' = [chosen EXCEPT ![outcome[t].type] = IF @ = t THEN NoTest ELSE @]
    /\ UNCHANGED <<kind, result, tries, order, handling, announced, setting, contested>>

VerdictsNext ==
    \/ \E t \in Runs :
          \/ \E k \in AskedKinds : PendingArrives(t, k) \/ PendingLost(t, k)
          \/ Delete(t) \/ Lookup(t)
          \/ ClearBaseline(t)
          \/ \E u \in Setters : FindRun(u, t)
    \/ Analyse \/ Save \/ Announce \/ Throw \/ Crash
    \/ \E u \in Setters : ClearBaselines(u) \/ MarkBaseline(u) \/ SetFails(u)

VerdictsSpec == VerdictsInit /\ [][VerdictsNext]_vdvars

-----------------------------------------------------------------------------
\* The baseline of a type is the one that was asked for last, and no other, unless
\* requests for it overlapped (results.ts 601-624).
OneBaseline ==
    \A y \in Types \ contested :
        chosen[y] # NoTest => {t \in Runs : outcome[t].type = y /\ outcome[t].is_baseline} = {chosen[y]}

\* A result is compared with the baseline of the type of its metrics, if one could
\* be relied on when it was looked up (consumer.ts 157-169).
ComparedWithBaseline ==
    handling # NoJob /\ handling.step = "saving" /\ handling.chosen \notin {NoTest, handling.test}
    /\ handling.type \notin contested
        => handling.against = handling.chosen

\* No bad verdict stays unannounced: its message is still to be handled, or it was
\* given up after a failure (consumer.ts 232-238).
BadNewsTravels ==
    \A t \in Runs : Completed(t) /\ outcome[t].perf_status # "passed" /\ result[t] = "handled" => t \in announced

BaselineCounts == OneBaseline /\ ComparedWithBaseline /\ BadNewsTravels
=============================================================================
