---------------------------- MODULE VerdictClaims ----------------------------
(***************************************************************************)
(* What the API's documentation says of baselines.                         *)
(***************************************************************************)
EXTENDS Integers

CONSTANTS MaxTests, Setters, AskedKinds, MaxTries, MaxEvents

VARIABLES kind, result, tries, outcome, order, handling, setting, chosen, contested, announced, events

BackendMeasures == {[p95 |-> 400, rps |-> 50, errors |-> 0]}
ClientMeasures == {[lcp |-> 1000, performance |-> 90]}
SLOs == {<<>>}

INSTANCE Verdicts

\* "Mark a completed test as the baseline for future regression comparisons against
\* the same URL + type" (docs/api.md 728): the result of a test asked for as a type
\* is compared with the baseline of that type, if there was one it could be
\* compared with.
EveryKind ==
    handling # NoJob /\ handling.step = "saving" /\ handling.asked \notin {NoTest, handling.test}
        => handling.against = handling.asked
=============================================================================
