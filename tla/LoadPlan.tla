------------------------------- MODULE LoadPlan -------------------------------
(***************************************************************************)
(* The load of a backend or flow test, from the request to the options of  *)
(* its script.  A script is written by the AI as generator.ts tells it to, *)
(* or comes from the cache; the options of a cached backend script are     *)
(* replaced by buildK6Options if they can be found in it, those of a flow  *)
(* are kept.  A load shape that the description of a backend test states   *)
(* goes before the parameters, which are a fallback then.                  *)
(*                                                                         *)
(* Levels are VUs, or requests per second; their durations and the         *)
(* thresholds are left out.  The AI does what it is told.                  *)
(***************************************************************************)
EXTENDS Integers, SequencesExt

CONSTANTS
    Percents, \* values of userPercent, Unset for none
    Unset,
    MaxSteps, \* bound on the steps of a flow
    Vus,      \* values of options.vus
    Peaks,    \* values of options.peakVus, Unset for none
    Shapes,   \* the levels a description can state, <<>> for none
    Limit     \* maxVusPerTest of the team

LoadPlanAssumption ==
    /\ MaxSteps \in Nat \ {0} /\ Vus \subseteq Nat \ {0} /\ Limit \in Nat
    /\ Unset \in Percents \cap Peaks /\ Percents \subseteq Int /\ Peaks \ {Unset} \subseteq Nat
    /\ Shapes \subseteq Seq(Nat) /\ <<>> \in Shapes

VARIABLES
    plan,   \* the request
    pc,     \* "asked", "refused", "runs"
    origin, \* of the script: written for the test, from the cache with other options, or as it was
    script  \* its scenarios, of each its first so many steps: [levels, pool]

lvars == <<plan, pc, origin, script>>

Profiles == {"load", "spike", "capacity", "soak", "realistic"}
Larger(a, b) == IF a > b THEN a ELSE b

LoadPlanTypeOK ==
    /\ plan.percents \in BoundedSeq(Percents, MaxSteps) /\ plan.vus \in Vus /\ plan.peak \in Peaks
    /\ plan.profile \in Profiles /\ plan.shape \in Shapes
    /\ pc \in {"asked", "refused", "runs"} /\ origin \in {"generated", "injected", "kept"}
    /\ DOMAIN script \subseteq 0..MaxSteps
    /\ \A n \in DOMAIN script : script[n].levels \in Seq(Nat) /\ script[n].pool \in Nat

\* A backend test has no steps.
LoadPlanInit ==
    /\ plan \in [percents : BoundedSeq(Percents, MaxSteps), vus : Vus, peak : Peaks, profile : Profiles, shape : Shapes]
    /\ pc = "asked" /\ origin = "generated" /\ script = <<>>

-----------------------------------------------------------------------------
\* A step without a percent has that of the step before, the first one 100.
Effective(ps) ==
    [i \in DOMAIN ps |-> LET given == {k \in 1..i : ps[k] # Unset}
                         IN IF given = {} THEN 100 ELSE ps[CHOOSE k \in given : \A j \in given : j <= k]]

\* validateStepPercents: from 0 to 100, and never rising.
ValidPercents(ps) ==
    \A i \in DOMAIN ps : /\ Effective(ps)[i] \in 0..100
                         /\ i > 1 => Effective(ps)[i] <= Effective(ps)[i - 1]

\* The steps after which some users leave, and the percent that does.
RunEnds(eff) == {i \in DOMAIN eff : i = Len(eff) \/ eff[i + 1] # eff[i]}
Leaving(eff) == [i \in RunEnds(eff) |-> eff[i] - (IF i = Len(eff) THEN 0 ELSE eff[i + 1])]

\* Mutant: the VUs left over by rounding down go to nobody.
SplitDown(first, leaving, total) == [i \in DOMAIN leaving |-> (leaving[i] * total) \div first]

\* VUs in proportion, rounded down; those left over go where most was cut off.
Split(first, leaving, total) ==
    LET cutOff(i) == (leaving[i] * total) % first
        down      == [i \in DOMAIN leaving |-> (leaving[i] * total) \div first]
        ahead(i)  == {j \in DOMAIN leaving : \/ cutOff(j) > cutOff(i)
                                             \/ cutOff(j) = cutOff(i) /\ j < i}
        remainder == total - SumFunction(down)
    IN [i \in DOMAIN leaving |-> down[i] + (IF Cardinality(ahead(i)) < remainder THEN 1 ELSE 0)]

\* computeJourneys: the VUs that make the first so many steps, if there are any; when
\* nobody leaves before the end they are not split.
WithUsers(vus) == [i \in {i \in DOMAIN vus : vus[i] > 0} |-> vus[i]]
JourneysOf(eff, total) ==
    IF RunEnds(eff) = {Len(eff)} THEN [i \in {Len(eff)} |-> total]
    ELSE WithUsers(Split(eff[1], Leaving(eff), total))
Journeys(ps, total) == JourneysOf(Effective(ps), total)

-----------------------------------------------------------------------------
Peak(p) == IF p.peak = Unset THEN p.vus * 10 ELSE p.peak

\* An arrival rate has a pool of VUs, anything else as many as its levels say.
Pool(rate) == Larger(rate, 10) * 10
Scenario(profile, vus, levels) ==
    [levels |-> levels, pool |-> IF profile = "realistic" THEN Pool(vus) ELSE Max(Range(levels))]

\* profileInstructions, for the whole test, ...
Instructed(p) ==
    CASE p.profile = "spike"    -> <<p.vus, p.vus, Peak(p), Peak(p), p.vus, 0>>
      [] p.profile = "capacity" -> <<Peak(p)>>
      [] p.profile \in {"soak", "realistic"} -> <<p.vus, p.vus, 0>>
      [] p.profile = "load"     -> <<p.vus>>

\* ... and journeyScenarioBlock, for one of several journeys.
ScaledPeak(p, vus) == Larger(1, (2 * Peak(p) * vus + p.vus) \div (2 * p.vus))
InstructedFor(p, vus) ==
    CASE p.profile = "spike"    -> <<vus, vus, ScaledPeak(p, vus), ScaledPeak(p, vus), vus, 0>>
      [] p.profile = "capacity" -> <<ScaledPeak(p, vus)>>
      [] p.profile \in {"soak", "realistic"} -> <<vus, vus, 0>>
      [] p.profile = "load"     -> <<vus>>

\* With one journey the prompt has all the steps.
Whole(p, levels) == [n \in {Len(p.percents)} |-> Scenario(p.profile, p.vus, levels)]
GeneratedFor(p, js) ==
    IF Cardinality(DOMAIN js) <= 1 THEN Whole(p, Instructed(p))
    ELSE [n \in DOMAIN js |-> Scenario(p.profile, js[n], InstructedFor(p, js[n]))]

\* BACKEND_PROMPT: exactly what the description says, the parameters only when it
\* says nothing of the load.  FLOW_PROMPT has no such rule.
Stated(p) == p.percents = <<>> /\ p.shape # <<>>
Described(p) == [n \in {0} |-> [levels |-> p.shape, pool |-> Max(Range(p.shape))]]
Fallback(p) == Whole(p, Instructed(p))
Generated(p) ==
    IF Stated(p) THEN Described(p)
    ELSE IF p.percents = <<>> THEN Fallback(p)
    ELSE GeneratedFor(p, Journeys(p.percents, p.vus))

\* buildK6Options, put in the place of the options a backend script came with,
\* whatever the description says.
Injected(p) ==
    Whole(p, CASE p.profile = "spike"    -> <<p.vus, p.vus, Peak(p), Peak(p), p.vus, 0>>
               [] p.profile = "capacity" -> <<Peak(p), 0>>
               [] OTHER                  -> <<p.vus, p.vus, 0>>)

\* What checkTestQuota counts.
Counted(p) == CASE p.profile = "realistic" -> Pool(p.vus)
                [] p.profile # "realistic" /\ p.peak # Unset -> p.peak
                [] OTHER -> p.vus

-----------------------------------------------------------------------------
\* POST /tests: 400 for the percents, 429 for the quota.
Refuse ==
    /\ pc = "asked" /\ (~ValidPercents(plan.percents) \/ Counted(plan) > Limit)
    /\ pc' = "refused"
    /\ UNCHANGED <<plan, origin, script>>

Accepted == pc = "asked" /\ ValidPercents(plan.percents) /\ Counted(plan) <= Limit /\ pc' = "runs" /\ UNCHANGED plan

Generate == Accepted /\ script' = Generated(plan) /\ origin' = "generated"

\* replaceK6Options found "export const options" and the end of its braces.
Inject == Accepted /\ plan.percents = <<>> /\ script' = Injected(plan) /\ origin' = "injected"

\* A flow, or a script the options are not found in: what an earlier test for the
\* same target or with the same steps was given.
Keep ==
    /\ Accepted /\ origin' = "kept"
    /\ \E vus \in Vus, shape \in Shapes : script' = Generated([plan EXCEPT !.vus = vus, !.shape = shape])

LoadPlanNext == Refuse \/ Generate \/ Inject \/ Keep

LoadPlanSpec == LoadPlanInit /\ [][LoadPlanNext]_lvars

-----------------------------------------------------------------------------
IsFlow == plan.percents # <<>>
Ceiling(s) == SumFunction([n \in DOMAIN s |-> s[n].pool])
Reaching(i) == SumFunction([n \in {n \in DOMAIN script : n >= i} |-> script[n].levels[1]])
Scenarios == Cardinality(DOMAIN script)

\* Of several journeys: all the VUs are in one of them, and a step has the share
\* of them its percent says, but for one VU each.
FunnelKept ==
    Scenarios > 1 /\ plan.profile \in {"load", "soak", "realistic"} =>
        LET ps == Effective(plan.percents) IN
        /\ Reaching(1) = plan.vus
        /\ \A i \in DOMAIN ps : /\ ps[i] = 0 => Reaching(i) = 0
                                /\ Reaching(i) * ps[1] - ps[i] * plan.vus \in (-ps[1] * Scenarios)..(ps[1] * Scenarios)

\* A backend test that is to run with its parameters has the same highest load
\* whether its script was written for it or got new options.
SameCeiling == ~IsFlow => Ceiling(script) = Ceiling(Fallback(plan))

\* The VUs are no more than were counted, unless the peak is the default one or
\* less than the VUs, or the arrivals are those of several journeys.
WithinCounted ==
    \/ plan.profile \in {"spike", "capacity"} /\ plan.peak = Unset
    \/ plan.profile # "realistic" /\ plan.peak # Unset /\ plan.peak < plan.vus
    \/ plan.profile \in {"spike", "capacity", "realistic"} /\ Scenarios > 1
    \/ Ceiling(script) <= Counted(plan)

\* The load a test runs with is the one its parameters ask for, except that a
\* script written for a description that states a load has that one, which nobody
\* counted (generator.ts 220-222), and a flow from the cache, or a script whose
\* options were not found (options.ts 145-148, 169), keeps the load it was written
\* for.
LoadAsAsked ==
    pc = "runs" /\ origin # "kept" /\ ~(origin = "generated" /\ Stated(plan)) =>
        FunnelKept /\ SameCeiling /\ WithinCounted
=============================================================================
