------------------------------- MODULE Capture -------------------------------
(***************************************************************************)
(* What recorder-service makes of the traffic of a browser: the exchanges  *)
(* it captures, the steps of the flow, and the variables the AI finds in   *)
(* them ("correlations").                                                  *)
(*                                                                         *)
(* The page sends its requests in the order of their numbers; a response   *)
(* gives a token, and a later request may carry one, in its body or in a   *)
(* header a step does not keep (Cookie, Authorization).  A redirect is the *)
(* request it ends at.  The AI names its variables apart.                  *)
(***************************************************************************)
EXTENDS Naturals, Sequences, FiniteSets, Functions

CONSTANTS
    MaxRequests, \* bound on the requests of the page
    MaxDropped,  \* bound on those that become no step of the flow
    FlowStepsCap, \* FLOW_STEPS_CAP
    MaxEntries   \* bound on the correlations of one AI answer

CaptureAssumption == {MaxRequests, MaxDropped, FlowStepsCap, MaxEntries} \subseteq Nat

VARIABLES
    net,       \* the exchanges, in the order they were sent
    completed, \* the captured ones, in the order they were complete
    phase,     \* "recording", "detached", "flow"
    steps,     \* the flow
    entries    \* correlations applied

cvars == <<net, completed, phase, steps, entries>>

Nowhere   == 0
Exchange(kind, ok, token, place) ==
    [kind |-> kind, ok |-> ok, token |-> token, place |-> place, pc |-> "sent", body |-> FALSE]
Exchanges == [kind : {"skipped", "noise", "text", "json"}, ok : BOOLEAN, token : 0..MaxRequests,
              place : {"none", "body", "header"},
              pc : {"sent", "ignored", "answered", "reading", "captured"}, body : BOOLEAN]
Step(id)  == [id |-> id, extract |-> {}, holes |-> {}]

CaptureTypeOK ==
    /\ net \in Seq(Exchanges) /\ Len(net) <= MaxRequests
    /\ completed \in Seq(1..MaxRequests)
    /\ phase \in {"recording", "detached", "flow"}
    /\ \A s \in Range(steps) : s.id \in 1..Len(net)
    /\ entries \in 0..MaxEntries

CaptureInit ==
    net = <<>> /\ completed = <<>> /\ phase = "recording" /\ steps = <<>> /\ entries = 0

-----------------------------------------------------------------------------
\* A token is carried once the page has the response that gives it.
Loaded(id)   == net[id].pc \in {"reading", "captured"}
Goes(id, pc) == net' = [net EXCEPT ![id].pc = pc]
Heard(id)    == phase = "recording" /\ id \in DOMAIN net

\* Network.requestWillBeSent: an asset or an ignored URL is not kept.  What a
\* request that will fail carries does not matter, as it becomes no step.
RequestWillBeSent ==
    /\ phase = "recording" /\ Len(net) < MaxRequests
    /\ \/ net' = Append(net, [Exchange("skipped", TRUE, Nowhere, "none") EXCEPT !.pc = "ignored"])
       \/ net' = Append(net, Exchange("noise", TRUE, Nowhere, "none"))
       \/ \E kind \in {"text", "json"} :
             \/ \E ok \in BOOLEAN : net' = Append(net, Exchange(kind, ok, Nowhere, "none"))
             \/ \E token \in 1..Len(net), place \in {"body", "header"} :
                   Loaded(token) /\ net' = Append(net, Exchange(kind, TRUE, token, place))
    /\ Cardinality({id \in DOMAIN net' : net'[id].kind \in {"skipped", "noise"} \/ ~net'[id].ok}) <= MaxDropped
    /\ UNCHANGED <<completed, phase, steps, entries>>

\* Network.responseReceived: a style, script, font or image is dropped.
ResponseReceived(id) ==
    /\ Heard(id) /\ net[id].pc = "sent"
    /\ Goes(id, IF net[id].kind = "noise" THEN "ignored" ELSE "answered")
    /\ UNCHANGED <<completed, phase, steps, entries>>

\* Network.loadingFinished: a JSON body is read before the exchange is kept.
LoadingFinished(id) ==
    /\ Heard(id) /\ net[id].pc = "answered"
    /\ IF net[id].kind = "json"
       THEN Goes(id, "reading") /\ UNCHANGED completed
       ELSE Goes(id, "captured") /\ completed' = Append(completed, id)
    /\ UNCHANGED <<phase, steps, entries>>

\* Network.getResponseBody answers, or fails: always after the session is detached.
BodyRead(id) ==
    /\ id \in DOMAIN net /\ net[id].pc = "reading"
    /\ \E got \in {phase = "recording", FALSE} :
          net' = [net EXCEPT ![id] = [@ EXCEPT !.pc = "captured", !.body = got]]
    /\ completed' = Append(completed, id)
    /\ UNCHANGED <<phase, steps, entries>>

\* stopSession: no more events, and the reads under way fail.
Detach ==
    /\ phase = "recording"
    /\ phase' = "detached"
    /\ UNCHANGED <<net, completed, steps, entries>>

-----------------------------------------------------------------------------
\* toFlowSteps: the exchanges that are kept, in their order, and no more than the cap.
Kept(id)  == net[id].ok
KeptAt    == {k \in DOMAIN completed : Kept(completed[k])}
Nth(k)    == Cardinality({j \in KeptAt : j <= k})
Capped(n) == IF n < FlowStepsCap THEN n ELSE FlowStepsCap
FlowSteps == [n \in 1..Capped(Cardinality(KeptAt)) |-> Step(completed[CHOOSE k \in KeptAt : Nth(k) = n])]

ToFlowSteps ==
    /\ phase = "detached" /\ \A id \in DOMAIN net : net[id].pc # "reading"
    /\ steps' = FlowSteps
    /\ phase' = "flow"
    /\ UNCHANGED <<net, completed, entries>>

\* Mutant: the indices of the AI are those of the steps.
StepOfDirectly(n) == n

\* buildIndexMap and toFilteredIdx: the AI was shown all the exchanges, the steps
\* are some of them.  An index that is none of theirs becomes 0.
StepOf(n) ==
    IF Len(completed) = Len(steps) THEN n
    ELSE IF n \in KeptAt /\ Nth(n) <= Len(steps) THEN Nth(n) ELSE 0

\* extractValue: the token of a response is in its body when that is JSON, in a
\* header otherwise.
ValueAt(n) == LET id == completed[n] IN IF net[id].kind = "json" => net[id].body THEN id ELSE Nowhere

\* substituteValue: the body of the step, and the headers of the request that the
\* step left out.
Substituted(step, n, value, var) ==
    LET holds == \/ net[step.id].place = "body" /\ net[step.id].token = value
                 \/ /\ n \in DOMAIN completed
                    /\ net[completed[n]].place = "header" /\ net[completed[n]].token = value
    IN IF holds THEN [step EXCEPT !.holes = @ \cup {[var |-> var, value |-> value]}] ELSE step

\* detectCorrelations, with two exchanges or more: the answer has any number of
\* entries, none without a provider, when the call fails (429 marks the service as
\* rate limited for a minute) or the answer is no JSON.  One entry: where the value
\* is from, and the steps said to use it; any index may be out of range.  A wrong
\* expression finds nothing, as if no step used the value.
ApplyCorrelation(source, used) ==
    LET from  == StepOf(source)
        value == ValueAt(source)
        ruled == [steps EXCEPT ![from].extract = @ \cup {entries}]
        users == [m \in DOMAIN steps |-> {n \in used : StepOf(n) = m /\ m # from}]
    IN  /\ phase = "flow" /\ Len(completed) >= 2 /\ entries < MaxEntries
        /\ entries' = entries + 1
        /\ steps' =
             IF source \notin DOMAIN completed \/ from \notin DOMAIN steps THEN steps
             ELSE IF value = Nowhere THEN ruled
             ELSE [m \in DOMAIN steps |->
                     IF users[m] = {} THEN ruled[m]
                     ELSE Substituted(ruled[m], CHOOSE n \in users[m] : TRUE, value, entries)]
        /\ UNCHANGED <<net, completed, phase>>

CaptureNext ==
    \/ RequestWillBeSent \/ Detach \/ ToFlowSteps
    \/ \E id \in 1..MaxRequests : ResponseReceived(id) \/ LoadingFinished(id) \/ BodyRead(id)
    \/ \E source \in 1..MaxRequests, used \in SUBSET (1..MaxRequests) : ApplyCorrelation(source, used)

CaptureSpec == CaptureInit /\ [][CaptureNext]_cvars

-----------------------------------------------------------------------------
\* Whatever was filtered, capped or made up by the AI: a step has a variable only
\* where the browser sent a token, and another step, recorded from the response
\* that gave this token, extracts the variable.
WiredToItsSource ==
    \A s \in Range(steps) : \A h \in s.holes :
        /\ net[s.id].token = h.value
        /\ \E t \in Range(steps) : t.id = h.value /\ t # s /\ h.var \in t.extract
=============================================================================
