------------------------------ MODULE AiRoutes ------------------------------
(***************************************************************************)
(* The routes of results-service that ask an AI provider on the spot.  A   *)
(* route is a sequence of steps: the body is looked at, a row is looked    *)
(* up, the setting must have a provider with a key, the team's calls of    *)
(* the day are counted, the provider is called, and its answer is checked  *)
(* field by field before it goes to the page.  The order differs.          *)
(*                                                                         *)
(* Which provider is called is in AiCalls; what counting does when the     *)
(* limits change, in TeamQuotas.  Here one team makes its calls of a day.  *)
(***************************************************************************)
EXTENDS Naturals, FiniteSets, Sequences

CONSTANTS
    Slots,       \* requests under way at a time
    Allowance,   \* the team's maxGeminiCallsPerDay
    MaxAiAsked   \* bound on the requests of a behaviour

AiRoutesAssumption == {Allowance, MaxAiAsked} \subseteq Nat

VARIABLES
    used,   \* gemini_calls_today
    called, \* calls made, those of the trend narrative apart
    routed, \* requests so far
    ask     \* the requests

asvars == <<used, called, routed, ask>>

-----------------------------------------------------------------------------
(* The steps of each route. *)

Cron              == <<"body", "provider", "charge", "call">>
TrendNarrative    == <<"body", "provider", "peek", "call">>
SuggestSettings   == <<"body", "provider", "charge", "history", "call">>
WebhookNoise      == <<"body", "provider", "charge", "history", "call">>
PresetName        == <<"provider", "charge", "call">>
ParamSuggestions  == <<"body", "provider", "charge", "call">>
Translate         == <<"body", "provider", "charge", "call">>
SuggestThresholds == <<"body", "provider", "charge", "history", "call">>
Diagnose          == <<"provider", "charge", "row", "metrics", "errors", "call">>
ParseChat         == <<"body", "provider", "charge", "attach", "call">>

\* Mutant: the script is looked up once the call is paid.
EditScriptLate    == <<"body", "provider", "charge", "row", "call">>
EditScript        == <<"body", "row", "provider", "charge", "call">>

Steps ==
    [cron |-> Cron, trend |-> TrendNarrative, settings |-> SuggestSettings, noise |-> WebhookNoise,
     preset |-> PresetName, params |-> ParamSuggestions, translate |-> Translate,
     thresholds |-> SuggestThresholds, diagnose |-> Diagnose, chat |-> ParseChat, edit |-> EditScript]
Routes == DOMAIN Steps

\* GET /results/:testId/diagnose answers a row without errors itself, and
\* POST /ai/webhook-noise a team without runs; thresholds need two runs.
Alone(route, step) == \/ route = "noise" /\ step = "history"
                      \/ route = "diagnose" /\ step = "errors"
Refusals(route, step) ==
    CASE step = "body" -> {400}
      [] step = "row" -> {404}
      [] step = "provider" -> {503}
      [] step = "history" /\ route = "thresholds" -> {422}
      [] OTHER -> {}

-----------------------------------------------------------------------------
(* Answers of a provider: the fields a route needs, each with what it must   *)
(* be, and the kinds of values a provider puts there.                        *)

Needs(status) ==
    CASE status = "cron"       -> [cron |-> "text", preview |-> "text"]
      [] status = "trend"      -> [narrative |-> "text"]
      [] status = "settings"   -> [vus |-> "number", duration |-> "text", profile |-> "choice", reasoning |-> "string"]
      [] status = "noise"      -> [level |-> "choice", message |-> "string"]
      [] status = "preset"     -> [name |-> "text", tags |-> "list"]
      [] status = "params"     -> [columns |-> "some", reasoning |-> "string"]
      [] status = "translate"  -> [k6Script |-> "text"]
      [] status = "thresholds" -> [p95 |-> "number", avg |-> "number", errorRate |-> "number", reasoning |-> "string"]
      [] status = "diagnose"   -> [category |-> "choice", count |-> "count", likelyCause |-> "string", nextStep |-> "string"]
      [] status = "needsClarification"    -> [question |-> "text"]
      [] status = "redirectToFlowBuilder" -> [reason |-> "text"]
      [] status = "editReady"  -> [editedScript |-> "text", summary |-> "text"]
      [] status = "ready"      -> [type |-> "choice", targetUrl |-> "url", description |-> "string",
                                   options |-> "object", thresholds |-> "budget"]
      [] status = "flowReady"  -> [steps |-> "some", targetUrl |-> "text", description |-> "string",
                                   options |-> "object", thresholds |-> "budget"]

\* Answers that a route tells apart, by their status if they have one.
Statuses(route) ==
    CASE route = "chat" -> {"needsClarification", "redirectToFlowBuilder", "ready", "flowReady"}
      [] route = "edit" -> {"needsClarification", "editReady"}
      [] OTHER          -> {route}

\* What a field of a need may hold, the value as it should be first; the rest is
\* something else altogether.
Values(need) ==
    CASE need = "text"   -> <<"text", "empty">>
      [] need = "string" -> <<"text", "empty">>
      [] need = "choice" -> <<"text">>
      [] need = "number" -> <<"number", "numeral">>
      [] need = "count"  -> <<"number", "numeral">>
      [] need = "list"   -> <<"list", "empty">>
      [] need = "some"   -> <<"list", "empty">>
      [] need = "url"    -> <<"url", "domain", "empty">>
      [] need = "object" -> <<"object">>
      [] need = "budget" -> <<"numbers", "numerals", "none">>

Accepted(need, value) ==
    CASE need \in {"text", "some", "url"} -> value \notin {"empty", "other"}
      [] need = "count"                   -> value = "number"
      [] OTHER                            -> value # "other"

\* The validators write the numbers they read out of strings back, and the scheme
\* they put before a bare domain.
Normal(need, value) ==
    CASE value = "numeral" /\ need = "number" -> "number"
      [] value = "numerals" -> "numbers"
      [] value = "domain"   -> "url"
      [] OTHER              -> value

\* An answer with one field off at most, or no JSON at all.
NoJson == [status |-> "none", fields |-> [x \in {} |-> "other"]]
AsNeeded(status) == [f \in DOMAIN Needs(status) |-> Head(Values(Needs(status)[f]))]
Replies(route) ==
    {NoJson} \cup
    {[status |-> s, fields |-> AsNeeded(s)] : s \in Statuses(route)} \cup
    UNION {UNION {{[status |-> s, fields |-> [AsNeeded(s) EXCEPT ![f] = v]] :
                      v \in {Values(Needs(s)[f])[n] : n \in DOMAIN Values(Needs(s)[f])} \cup {"other"}} :
                  f \in DOMAIN Needs(s)} : s \in Statuses(route)}

Valid(reply) ==
    /\ reply # NoJson
    /\ \A f \in DOMAIN reply.fields : Accepted(Needs(reply.status)[f], reply.fields[f])
Normalized(reply) ==
    [reply EXCEPT !.fields = [f \in DOMAIN @ |-> Normal(Needs(reply.status)[f], @[f])]]

-----------------------------------------------------------------------------
Idle == [route |-> "cron", at |-> 0, mode |-> "english", steps |-> FALSE, charged |-> FALSE, called |-> FALSE,
         context |-> "none", paths |-> 0, code |-> 0, reply |-> NoJson]

AiRoutesTypeOK ==
    /\ used \in 0..Allowance /\ called \in Nat /\ routed \in 0..MaxAiAsked
    /\ \A s \in Slots :
          /\ ask[s].route \in Routes /\ ask[s].at \in 0..Len(Steps[ask[s].route])
          /\ ask[s].mode \in {"english", "swagger", "context"}
          /\ {ask[s].steps, ask[s].charged, ask[s].called} \subseteq BOOLEAN
          /\ ask[s].context \in {"none", "blank", "spec", "page", "notice", "requests", "text"}
          /\ ask[s].code \in {0, 200, 400, 404, 422, 429, 500, 503}

AiRoutesInit == used = 0 /\ called = 0 /\ routed = 0 /\ ask = [s \in Slots |-> Idle]

Under(s)      == ask[s].at > 0 /\ ask[s].code = 0
Step(s)       == Steps[ask[s].route][ask[s].at]
At(s, step)   == Under(s) /\ ask[s].paths = 0 /\ Step(s) = step
Passed(r)     == [r EXCEPT !.at = @ + 1]
Becomes(s, r) == ask' = [ask EXCEPT ![s] = r]
Answer(r, code) == [r EXCEPT !.code = code]

\* Only a conversation has a mode, and may be about several steps in its last
\* CHAT_HISTORY_LIMIT messages (MULTI_STEP_INTENT_RE).
Request(s, route) ==
    /\ ask[s] = Idle /\ routed < MaxAiAsked
    /\ \E mode \in IF route = "chat" THEN {"english", "swagger", "context"} ELSE {"english"},
          multi \in IF route = "chat" THEN BOOLEAN ELSE {FALSE} :
          Becomes(s, [Idle EXCEPT !.route = route, !.at = 1, !.mode = mode, !.steps = multi])
    /\ routed' = routed + 1
    /\ UNCHANGED <<used, called>>

\* The steps that write nothing: all is well, or the request is refused; a lookup
\* may fail, and so does a diagnosis of a row that has no metrics yet.
Check(s) ==
    /\ Under(s) /\ ask[s].paths = 0 /\ Step(s) \in {"body", "row", "provider", "history", "metrics", "errors"}
    /\ \/ Becomes(s, Passed(ask[s]))
       \/ \E code \in Refusals(ask[s].route, Step(s)) : Becomes(s, Answer(ask[s], code))
       \/ Alone(ask[s].route, Step(s)) /\ Becomes(s, Answer(ask[s], 200))
       \/ Step(s) \in {"row", "provider", "history", "errors"} /\ Becomes(s, Answer(ask[s], 500))
    /\ UNCHANGED <<used, called, routed>>

\* checkAndIncrementGeminiUsage, a single statement, or its failure.
Charge(s) ==
    /\ At(s, "charge")
    /\ \/ used < Allowance /\ used' = used + 1 /\ Becomes(s, [Passed(ask[s]) EXCEPT !.charged = TRUE])
       \/ used >= Allowance /\ UNCHANGED used /\ Becomes(s, Answer(ask[s], 429))
       \/ UNCHANGED used /\ Becomes(s, Answer(ask[s], 500))
    /\ UNCHANGED <<called, routed>>

\* checkGeminiQuota: the trend narrative is refused at the limit, never counted.
Peek(s) ==
    /\ At(s, "peek")
    /\ \/ Becomes(s, IF used < Allowance THEN Passed(ask[s]) ELSE Answer(ask[s], 429))
       \/ Becomes(s, Answer(ask[s], 500))
    /\ UNCHANGED <<used, called, routed>>

\* processAttachments: what the prompt is given of a file (none of it empties it),
\* or the specification behind a URL, which is fetched.
SpecPaths == 5  \* SPEC_DISCOVERY_PATHS
SummarizeHar == {"requests", "notice"}
Attach(s) ==
    /\ At(s, "attach")
    /\ \/ \E c \in {"none", "blank", "text"} \cup SummarizeHar : Becomes(s, [Passed(ask[s]) EXCEPT !.context = c])
       \/ \E paths \in {1, SpecPaths + 1} : Becomes(s, [ask[s] EXCEPT !.paths = paths])
    /\ UNCHANGED <<used, called, routed>>

\* fetchAndSummarizeSwagger: behind the page of a viewer, the usual paths in turn;
\* then the URL itself, whatever it is.  No failure fails the request.
SummarizeSpec == {"spec", "notice"}
FetchSpec(s) ==
    /\ Under(s) /\ ask[s].paths > 0
    /\ \/ /\ ask[s].paths <= SpecPaths
          /\ \/ Becomes(s, [ask[s] EXCEPT !.paths = @ + 1])
             \/ Becomes(s, [Passed(ask[s]) EXCEPT !.paths = 0, !.context = "spec"])
       \/ /\ ask[s].paths > SpecPaths
          /\ \E c \in SummarizeSpec \cup {"page"} : Becomes(s, [Passed(ask[s]) EXCEPT !.paths = 0, !.context = c])
    /\ UNCHANGED <<used, called, routed>>

-----------------------------------------------------------------------------
Clarify  == [status |-> "needsClarification", fields |-> AsNeeded("needsClarification")]
Redirect == [status |-> "redirectToFlowBuilder", fields |-> AsNeeded("redirectToFlowBuilder")]

\* A chat answer is saved where it can be: a flow or redirection gone wrong is
\* asked about or sent to the FlowBuilder, and so is a single request made of
\* several steps.
ChatReply(r, reply) ==
    LET broken == ~Valid(reply) /\ reply.status \in {"flowReady", "redirectToFlowBuilder"}
        single == Valid(reply) /\ reply.status = "ready" /\ r.mode = "english" /\ r.steps IN
    IF broken /\ r.mode # "english" THEN Clarify
    ELSE IF broken \/ single THEN Redirect
    ELSE IF Valid(reply) THEN Normalized(reply) ELSE NoJson

\* Two routes answer without the AI what they cannot use.
Checked(r, reply) ==
    LET checked == IF r.route = "chat" THEN ChatReply(r, reply)
                   ELSE IF Valid(reply) THEN Normalized(reply) ELSE NoJson IN
    [r EXCEPT !.reply = checked, !.called = TRUE,
              !.code = IF checked # NoJson \/ r.route \in {"noise", "diagnose"} THEN 200 ELSE 500]

\* The provider is called, with a prompt of the request and its context, and fails
\* or answers.
Call(s) ==
    /\ At(s, "call")
    /\ called' = IF ask[s].route = "trend" THEN called ELSE called + 1
    /\ \/ Becomes(s, Answer([ask[s] EXCEPT !.called = TRUE], 500))
       \/ \E reply \in Replies(ask[s].route) : Becomes(s, Checked(ask[s], reply))
    /\ UNCHANGED <<used, routed>>

Answered(s) == ask[s].code # 0 /\ Becomes(s, Idle) /\ UNCHANGED <<used, called, routed>>

\* POST /internal/gemini-usage: ai-service counts a call it is about to make, and
\* then makes it or not.
CountFor ==
    /\ routed < MaxAiAsked /\ routed' = routed + 1
    /\ used' = IF used < Allowance THEN used + 1 ELSE used
    /\ UNCHANGED <<called, ask>>

AiRoutesNext ==
    \/ \E s \in Slots :
          \/ \E route \in Routes : Request(s, route)
          \/ Check(s) \/ Charge(s) \/ Peek(s) \/ Attach(s) \/ FetchSpec(s) \/ Call(s) \/ Answered(s)
    \/ CountFor

AiRoutesSpec == AiRoutesInit /\ [][AiRoutesNext]_asvars

-----------------------------------------------------------------------------
\* The calls of a day stay within the allowance, those of the trend narrative
\* apart, and a refused request has cost nothing; except that thresholds and a
\* diagnosis look for their rows after they are paid for (ai.ts 304-318, 405-413).
PaidFor ==
    /\ called <= used
    /\ \A s \in Slots : ask[s].charged /\ ask[s].code \in {400, 404, 422, 429, 503}
                           => ask[s].route \in {"thresholds", "diagnose"}

\* Whatever a provider answers, the page is given fields it can use, and in
\* English mode no single request in place of several steps.
Usable(r) ==
    /\ \A f \in DOMAIN r.reply.fields :
          /\ r.reply.fields[f] \notin {"other", "numerals", "domain"}
          /\ Needs(r.reply.status)[f] \in {"number", "count"} => r.reply.fields[f] = "number"
          /\ Needs(r.reply.status)[f] \in {"text", "some", "url"} => r.reply.fields[f] # "empty"
    /\ r.mode = "english" /\ r.steps => r.reply.status # "ready"
SoundAnswers == PaidFor /\ \A s \in Slots : ask[s].code = 200 => Usable(ask[s])
=============================================================================
