----------------------------- MODULE TeamQuotas -----------------------------
(***************************************************************************)
(* One team's limits and what is counted against them: AI calls of a day   *)
(* (results-service quotas.ts, routes/ai.ts; ai-service calls in) and      *)
(* tests that are pending or running (api-service quotas.ts).  Limits are  *)
(* read, counts taken and rows written in separate statements, so requests *)
(* overlap between any two of them.                                        *)
(***************************************************************************)
EXTENDS Naturals, FiniteSets

CONSTANTS
    Limits,    \* the values an administrator gives a limit
    Default,   \* DEFAULT_TEAM_QUOTA, for each limit
    Tests,     \* tests that clients submit
    NoTest,
    Slots,     \* requests under way
    MaxUsage   \* bound on the AI calls counted in a day, for TLC

Fields == {"maxConcurrentTests", "maxGeminiCallsPerDay"}

QuotasAssumption ==
    /\ Limits \subseteq Nat \ {0} /\ Default \in Limits
    /\ NoTest \notin Tests /\ IsFiniteSet(Tests) /\ MaxUsage \in Nat

VARIABLES
    quota,   \* team_quotas: the limits in force
    usage,   \* gemini_usage: today's call_count
    test,    \* what the team's rows of test_results say
    job,     \* requests under way
    asked,   \* each limit as the last request that was answered set it
    lapped,  \* two updates of the limits have overlapped
    allowed, \* the greatest limit of AI calls in force since the day began
    raced,   \* a count was taken while an accepted test had no row, or the
             \* limit was lowered
    revived  \* the tests whose row was set running again after it had ended

qvars == <<quota, usage, test, job, asked, lapped, allowed, raced, revived>>

\* "submitted": accepted, /results/pending under way; "lost": it never arrived.
States == {"none", "submitted", "lost", "active", "ended"}

Quotas == [Fields -> Limits]
Nobody == [f \in Fields |-> 0]
Jobs == [pc : {"free", "merge", "upsert", "take", "count", "peek", "call"},
         q : [Fields -> Limits \cup {0}], set : [Fields -> Limits \cup {0}],
         limit : Limits \cup {0}, t : Tests \cup {NoTest}]
Free == [pc |-> "free", q |-> Nobody, set |-> Nobody, limit |-> 0, t |-> NoTest]

At(s, pc) == job[s].pc = pc

QuotasTypeOK ==
    /\ quota \in Quotas /\ asked \in Quotas
    /\ usage \in Nat
    /\ test \in [Tests -> States] /\ revived \subseteq Tests
    /\ job \in [Slots -> Jobs]
    /\ \A s \in Slots : /\ At(s, "upsert") => job[s].q \in Quotas
                        /\ job[s].pc \in {"take", "count", "peek"} => job[s].limit \in Limits
                        /\ At(s, "count") => job[s].t \in Tests
    /\ allowed \in Limits
    /\ lapped \in BOOLEAN /\ raced \in BOOLEAN

QuotasInit ==
    /\ quota = [f \in Fields |-> Default] /\ asked = quota
    /\ usage = 0
    /\ test = [t \in Tests |-> "none"]
    /\ job = [s \in Slots |-> Free]
    /\ allowed = Default
    /\ lapped = FALSE /\ raced = FALSE /\ revived = {}

Take(s, new) == job' = [job EXCEPT ![s] = new]
Answer(s) == Take(s, Free)
Upper(m, n) == IF m > n THEN m ELSE n

-----------------------------------------------------------------------------
\* PUT /teams/:id/quotas with a value for some of the limits ...
PutQuotas(s, set) ==
    /\ At(s, "free") /\ set # Nobody
    /\ Take(s, [Free EXCEPT !.pc = "merge", !.set = set])
    /\ lapped' = (lapped \/ \E r \in Slots : job[r].pc \in {"merge", "upsert"})
    /\ UNCHANGED <<quota, usage, test, asked, allowed, raced, revived>>

\* ... reads the row, or the defaults ...
ReadLimits(s) ==
    /\ At(s, "merge")
    /\ job' = [job EXCEPT ![s].pc = "upsert", ![s].q = quota]
    /\ UNCHANGED <<quota, usage, test, asked, lapped, allowed, raced, revived>>

\* Mutant: the spread in the other order.
MergedBackwards(q, set) == q

\* { ...current, ...updates }
Merged(q, set) == [f \in Fields |-> IF set[f] # 0 THEN set[f] ELSE q[f]]

\* ... and writes all of it.
Upsert(s) ==
    /\ At(s, "upsert")
    /\ quota' = Merged(job[s].q, job[s].set)
    /\ asked' = IF lapped THEN quota' ELSE [f \in Fields |-> IF job[s].set[f] # 0 THEN job[s].set[f] ELSE asked[f]]
    /\ allowed' = Upper(allowed, quota'["maxGeminiCallsPerDay"])
    /\ raced' = (raced \/ quota'["maxConcurrentTests"] < quota["maxConcurrentTests"])
    /\ Answer(s)
    /\ UNCHANGED <<usage, test, lapped, revived>>

-----------------------------------------------------------------------------
\* An AI request reads the limit first.  ai-service's come over
\* /internal/gemini-usage, everybody else's from the /ai routes.
AskAI(s) ==
    /\ At(s, "free")
    /\ Take(s, [Free EXCEPT !.pc = "take", !.limit = quota["maxGeminiCallsPerDay"]])
    /\ UNCHANGED <<quota, usage, test, asked, lapped, allowed, raced, revived>>

\* Mutant: the count is compared before the statement that increments it.
UnderLimitOnce(limit) == TRUE

\* The upsert's INSERT, or its DO UPDATE ... WHERE.
UnderLimit(limit) == usage = 0 \/ usage < limit

\* The counting upsert: without a returned row the answer is 429.
CountCall(s) ==
    /\ At(s, "take")
    /\ usage < MaxUsage
    /\ IF UnderLimit(job[s].limit)
       THEN /\ usage' = usage + 1
            /\ IF usage' > job[s].limit THEN Answer(s) ELSE Take(s, [Free EXCEPT !.pc = "call"])
       ELSE Answer(s) /\ UNCHANGED usage
    /\ UNCHANGED <<quota, test, asked, lapped, allowed, raced, revived>>

\* POST /ai/trend-narrative only looks: checkGeminiQuota, no increment.
AskTrend(s) ==
    /\ At(s, "free")
    /\ Take(s, [Free EXCEPT !.pc = "peek", !.limit = quota["maxGeminiCallsPerDay"]])
    /\ UNCHANGED <<quota, usage, test, asked, lapped, allowed, raced, revived>>

Peek(s) ==
    /\ At(s, "peek")
    /\ IF usage >= job[s].limit THEN Answer(s)
       ELSE Take(s, [Free EXCEPT !.pc = "call"])
    /\ UNCHANGED <<quota, usage, test, asked, lapped, allowed, raced, revived>>

\* The provider has answered, or failed: the call stays counted.
AIAnswered(s) ==
    /\ At(s, "call")
    /\ Answer(s)
    /\ UNCHANGED <<quota, usage, test, asked, lapped, allowed, raced, revived>>

\* CURRENT_DATE changes: a new row of gemini_usage.
Midnight ==
    /\ usage' = 0
    /\ allowed' = CHOOSE n \in Limits :
                    /\ \A s \in Slots : At(s, "take") => job[s].limit <= n
                    /\ quota["maxGeminiCallsPerDay"] <= n
                    /\ \/ n = quota["maxGeminiCallsPerDay"]
                       \/ \E s \in Slots : At(s, "take") /\ n = job[s].limit
    /\ UNCHANGED <<quota, test, job, asked, lapped, raced, revived>>

-----------------------------------------------------------------------------
\* POST /tests: the limits are read ...
SubmitTest(s, t) ==
    /\ At(s, "free")
    /\ test[t] = "none"
    /\ \A r \in Slots : job[r].t # t
    /\ Take(s, [Free EXCEPT !.pc = "count", !.limit = quota["maxConcurrentTests"], !.t = t])
    /\ UNCHANGED <<quota, usage, test, asked, lapped, allowed, raced, revived>>

Active == {t \in Tests : test[t] = "active"}

AtLimit(n, limit) == n >= limit

\* ... the active tests counted: 429, or a test whose row is on its way.
CountTests(s) ==
    /\ At(s, "count")
    /\ raced' = (raced \/ (\E t \in Tests : test[t] = "submitted")
                       \/ job[s].limit # quota["maxConcurrentTests"])
    /\ IF AtLimit(Cardinality(Active), job[s].limit)
       THEN UNCHANGED test
       ELSE test' = [test EXCEPT ![job[s].t] = "submitted"]
    /\ Answer(s)
    /\ UNCHANGED <<quota, usage, asked, lapped, allowed, revived>>

\* /results/pending, which POST /tests does not await, inserts the row.  A /fail or
\* a cancellation that came before it has found no row and changed nothing.
PendingArrives(t) ==
    /\ test[t] = "submitted"
    /\ test' = [test EXCEPT ![t] = "active"]
    /\ UNCHANGED <<quota, usage, job, asked, lapped, allowed, raced, revived>>

\* It is lost, and the test runs without a row.
PendingLost(t) ==
    /\ test[t] = "submitted"
    /\ test' = [test EXCEPT ![t] = "lost"]
    /\ UNCHANGED <<quota, usage, job, asked, lapped, allowed, raced, revived>>

\* The row says completed, failed or cancelled.  A test without a row gets one
\* with its result, and a /results/pending that comes later leaves it alone.
EndTest(t) ==
    /\ test[t] \in {"submitted", "lost", "active"}
    /\ test' = [test EXCEPT ![t] = "ended"]
    /\ revived' = revived \ {t}
    /\ UNCHANGED <<quota, usage, job, asked, lapped, allowed, raced>>

\* /results/:testId/running sets any row running: that of an attempt that failed
\* and is retried, of a test delivered again, or of one that ended before a call
\* that was late.
RunningArrives(t) ==
    /\ test[t] = "ended"
    /\ test' = [test EXCEPT ![t] = "active"]
    /\ revived' = revived \cup {t}
    /\ UNCHANGED <<quota, usage, job, asked, lapped, allowed, raced>>

\* A statement fails or the process ends.
Fail(s) ==
    /\ ~At(s, "free")
    /\ Answer(s)
    /\ UNCHANGED <<quota, usage, test, asked, lapped, allowed, raced, revived>>

QuotasNext ==
    \/ \E s \in Slots :
          \/ \E set \in [Fields -> Limits \cup {0}] : PutQuotas(s, set)
          \/ ReadLimits(s) \/ Upsert(s)
          \/ AskAI(s) \/ CountCall(s) \/ AskTrend(s) \/ Peek(s) \/ AIAnswered(s)
          \/ \E t \in Tests : SubmitTest(s, t)
          \/ CountTests(s) \/ Fail(s)
    \/ \E t \in Tests : PendingArrives(t) \/ PendingLost(t) \/ EndTest(t) \/ RunningArrives(t)
    \/ Midnight

QuotasSpec == QuotasInit /\ [][QuotasNext]_qvars

-----------------------------------------------------------------------------
\* The AI calls counted in a day never pass the limit, however many requests are
\* let through at the same time: the greatest limit of that day when it was
\* changed, for a request may still hold the one it read (quotas.ts 83-125).
CallsWithinLimit == usage <= allowed

\* A team has no more rows pending or running than its limit, unless two requests
\* overlapped between the count and the row that it counts, or the limit was
\* lowered under running tests.  Rows that had ended and were set running again
\* are not among them: their place may have been given to another test meanwhile,
\* and nothing counts again (api-service quotas.ts 61-68, index.ts 272-287;
\* results.ts 110-119).
TestsWithinLimit ==
    raced \/ Cardinality(Active \ revived) <= quota["maxConcurrentTests"]

\* Each limit has the value the last request gave it, whatever was set of the
\* others, unless two updates overlapped (quotas.ts 26-40).
LimitsAsAsked == lapped \/ quota = asked
=============================================================================
