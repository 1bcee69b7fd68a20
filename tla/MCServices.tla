----------------------------- MODULE MCServices -----------------------------
(***************************************************************************)
(* The components that share no state with BackendPipeline, on small       *)
(* instances for TLC.  A behaviour is one of one of them: 'part' says      *)
(* which, and the others keep their initial state.  ScriptPipeline is two  *)
(* parts: scripts made and lost with faults, and scripts edited without.   *)
(***************************************************************************)
EXTENDS Integers, Sequences, Bags, FiniteSetsExt

CONSTANTS
    Tests, Editors, Slots, MaxRetries, MaxRows, MaxFaults,       \* ScriptPipeline
    Recordings, NoRecording, MaxRecAsked,                        \* Recorder
    Replicas, Nobody, MaxEnds,                                   \* Migrations
    MaxRequests, MaxDropped, FlowStepsCap, MaxEntries,           \* Capture
    Configured, NoSetting, CacheTicks, FetchTicks, MaxPuts, MaxFailing, \* AiCalls
    Chats, Saved, NoScript, MaxCards, MaxAsked,                  \* Chat
    MaxSteps, Vus, Limit,                                        \* LoadPlan
    Readers, Closer, MaxLines,                                   \* LiveMetrics
    Streams, MaxKept, MaxBatch, MaxPrinted,                      \* RunLog
    None, MaxWrites, MaxViewAsked,                               \* ResultView
    Allowance, MaxAiAsked,                                       \* AiRoutes
    MaxTests, Setters, AskedKinds, MaxTries, MaxEvents           \* Verdicts

VARIABLES
    part,
    want, request, scriptRow, versions, nextId, ai, job, work, fresh, lost, ended, edit, compares,
    faults,
    session, finishing, deleting, starting, completed, rec, saved, mounted, callback, viewer,
    recAsked, imported, finished, gone,
    schema, applied, locked, replica, ends,
    net, captured, recPhase, steps, entries,
    setting, left, cache, call, puts,
    mode, chat, cards, thinking, editing, history, chatAsked, made, holds,
    plan, pc, origin, script,
    k6, written, measures, offset, partial, read, windows, result, overlap,
    running, half, printed, kept, pending, timer, sent, viewed,
    row, unsent, events, connected, shown, asked, unread,
    used, called, routed, ask,
    kindOf, due, tries, outcome, order, handling, choosing, chosen, contested, announced, happened

-----------------------------------------------------------------------------
\* A test that wants a script with a description, without one, or has its own;
\* rows with the same, another and no description, and one of another team.
Before == [kind |-> "generated", by |-> "before"]
Wants == {[desc |-> "d1", custom |-> FALSE, team |-> "A"], [desc |-> "none", custom |-> FALSE, team |-> "A"],
          [desc |-> "d1", custom |-> TRUE, team |-> "A"]}
Stored == {[text |-> Before, desc |-> d, team |-> "A"] : d \in {"none", "d1", "d2"}}
          \cup {[text |-> Before, desc |-> "d1", team |-> "B"]}
\* An empty database, and one from before the registry of migrations.
Legacy == {{}, {<<"test_templates">>, <<"test_scripts">>}}
\* A provider without a key first, and one with a key alone.
Settings == {<<"gemini">>, <<"openai", "gemini">>}
Default == <<"gemini">>
Unset == -1
Percents == {Unset, 0, 30, 100}
Peaks == {Unset, 5}
\* No load in the description, and one with more users than any parameter asks for.
Shapes == {<<>>, <<200, 0>>}
\* A run and one with fewer requests; a page that is slow.
BackendMeasures == {[p95 |-> 400, rps |-> 50, errors |-> 0], [p95 |-> 400, rps |-> 30, errors |-> 0]}
ClientMeasures == {[lcp |-> 3000, performance |-> 90]}
SLOs == {<<>>}

SP == INSTANCE ScriptPipeline WITH row <- scriptRow
RC == INSTANCE Recorder WITH asked <- recAsked, Ids <- Recordings, NoId <- NoRecording, MaxAsked <- MaxRecAsked
MG == INSTANCE Migrations
CP == INSTANCE Capture WITH completed <- captured, phase <- recPhase
AI == INSTANCE AiCalls WITH row <- setting, NoRow <- NoSetting
CH == INSTANCE Chat WITH Sessions <- Chats, Scripts <- Saved, shown <- chat, asked <- chatAsked
LP == INSTANCE LoadPlan
LM == INSTANCE LiveMetrics WITH phase <- k6
RL == INSTANCE RunLog WITH MaxLines <- MaxPrinted
RV == INSTANCE ResultView WITH MaxAsked <- MaxViewAsked
AR == INSTANCE AiRoutes
VD == INSTANCE Verdicts WITH kind <- kindOf, result <- due, setting <- choosing, events <- happened

ASSUME Assumptions ==
    /\ SP!ScriptsAssumption /\ RC!RecorderAssumption /\ MG!MigrationsAssumption /\ CP!CaptureAssumption
    /\ AI!AiCallsAssumption /\ CH!ChatAssumption /\ LP!LoadPlanAssumption /\ LM!LiveAssumption
    /\ RL!RunLogAssumption /\ RV!ResultViewAssumption /\ AR!AiRoutesAssumption /\ VD!VerdictsAssumption

\* The migrations and the old databases are those above: this is computed.
ASSUME SchemaAssumption == MG!Replayable

spvars == <<want, request, scriptRow, versions, nextId, ai, job, work, fresh, lost, ended, edit, compares, faults>>
rcvars == <<session, finishing, deleting, starting, completed, rec, saved, mounted, callback, viewer,
            recAsked, imported, finished, gone>>
mgvars == <<schema, applied, locked, replica, ends>>
cpvars == <<net, captured, recPhase, steps, entries>>
aivars == <<setting, left, cache, call, puts>>
chvars == <<mode, chat, cards, thinking, editing, history, chatAsked, made, holds>>
lpvars == <<plan, pc, origin, script>>
lmvars == <<k6, written, measures, offset, partial, read, windows, result, overlap>>
rlvars == <<running, half, printed, kept, pending, timer, sent, viewed>>
rvvars == <<row, unsent, events, connected, shown, asked, unread>>
arvars == <<used, called, routed, ask>>
vdvars == <<kindOf, due, tries, outcome, order, handling, choosing, chosen, contested, announced, happened>>
allvars == <<part, spvars, rcvars, mgvars, cpvars, aivars, chvars, lpvars, lmvars, rlvars, rvvars, arvars, vdvars>>

\* The choices of the initial states of one part are made once for the others.
Init ==
    /\ part \in {"scripts", "edits", "recorder", "schema", "capture", "calls", "chat", "plan", "live", "log", "view",
               "routes", "verdicts"}
    /\ part \notin {"scripts", "edits"} => scriptRow = SP!NoRow
    /\ part # "scripts" => want = [t \in Tests |-> CHOOSE w \in Wants : w.custom]
    /\ part # "schema" => schema = {}
    /\ part # "plan" => plan = [percents |-> <<>>, vus |-> Min(Vus), peak |-> Unset, profile |-> "load", shape |-> <<>>]
    /\ part # "view" => row = <<>> /\ shown = None
    /\ SP!ScriptsInit /\ RC!RecorderInit /\ MG!SchemaInit /\ CP!CaptureInit /\ AI!AiCallsInit
    /\ IF part = "chat" THEN CH!ChatInit
       ELSE mode = "" /\ chat = NoScript /\ cards = {} /\ thinking = FALSE /\ editing = NoScript
            /\ history = <<>> /\ chatAsked = {} /\ made = 0 /\ holds = <<>>
    /\ LP!LoadPlanInit /\ LM!LiveInit /\ RL!RunLogInit /\ RV!ViewInit
    /\ AR!AiRoutesInit /\ VD!VerdictsInit

Scr(A) == part = "scripts" /\ A /\ UNCHANGED <<part, rcvars, mgvars, cpvars, aivars, chvars, lpvars, lmvars, rlvars, rvvars, arvars, vdvars>>
Edi(A) == part = "edits" /\ A /\ UNCHANGED <<part, faults, rcvars, mgvars, cpvars, aivars, chvars, lpvars, lmvars, rlvars, rvvars, arvars, vdvars>>
Rec(A) == part = "recorder" /\ A /\ UNCHANGED <<part, spvars, mgvars, cpvars, aivars, chvars, lpvars, lmvars, rlvars, rvvars, arvars, vdvars>>
Sch(A) == part = "schema" /\ A /\ UNCHANGED <<part, spvars, rcvars, cpvars, aivars, chvars, lpvars, lmvars, rlvars, rvvars, arvars, vdvars>>
Cap(A) == part = "capture" /\ A /\ UNCHANGED <<part, spvars, rcvars, mgvars, aivars, chvars, lpvars, lmvars, rlvars, rvvars, arvars, vdvars>>
Cal(A) == part = "calls" /\ A /\ UNCHANGED <<part, spvars, rcvars, mgvars, cpvars, chvars, lpvars, lmvars, rlvars, rvvars, arvars, vdvars>>
Cha(A) == part = "chat" /\ A /\ UNCHANGED <<part, spvars, rcvars, mgvars, cpvars, aivars, lpvars, lmvars, rlvars, rvvars, arvars, vdvars>>
Pla(A) == part = "plan" /\ A /\ UNCHANGED <<part, spvars, rcvars, mgvars, cpvars, aivars, chvars, lmvars, rlvars, rvvars, arvars, vdvars>>
Liv(A) == part = "live" /\ A /\ UNCHANGED <<part, spvars, rcvars, mgvars, cpvars, aivars, chvars, lpvars, rlvars, rvvars, arvars, vdvars>>
Log(A) == part = "log" /\ A /\ UNCHANGED <<part, spvars, rcvars, mgvars, cpvars, aivars, chvars, lpvars, lmvars, rvvars, arvars, vdvars>>
Vie(A) == part = "view" /\ A /\ UNCHANGED <<part, spvars, rcvars, mgvars, cpvars, aivars, chvars, lpvars, lmvars, rlvars, arvars, vdvars>>
Rou(A) == part = "routes" /\ A /\ UNCHANGED <<part, spvars, rcvars, mgvars, cpvars, aivars, chvars, lpvars, lmvars, rlvars, rvvars, vdvars>>
Ver(A) == part = "verdicts" /\ A /\ UNCHANGED <<part, spvars, rcvars, mgvars, cpvars, aivars, chvars, lpvars, lmvars, rlvars, rvvars, arvars>>

Scripts ==
    \/ \E t \in Tests : Scr(SP!SubmitCustom(t)) \/ Scr(SP!Lookup(t)) \/ Scr(SP!Publish(t)) \/ Scr(SP!PublishFails(t))
    \/ \E s \in Slots :
          \/ \E m \in BagToSet(ai) : Scr(SP!Deliver(s, m))
          \/ Scr(SP!Charge(s)) \/ Scr(SP!Compare(s)) \/ Scr(SP!Generate(s)) \/ Scr(SP!Route(s))
          \/ Scr(SP!Retry(s)) \/ Scr(SP!Bury(s)) \/ Scr(SP!Ack(s)) \/ Scr(SP!Throw(s))
    \/ Scr(SP!Disconnect) \/ Scr(SP!BrokerCrash) \/ Scr(SP!Crash) \/ Scr(SP!Delete)
    \/ \E x \in BagToSet(fresh) : Scr(SP!Persist(x))
    \/ \E m \in BagToSet(work) : Scr(SP!SaveScript(m)) \/ Scr(SP!NotRun(m))

Edits ==
    \/ \E t \in Tests : Edi(SP!SubmitCustom(t)) \/ Edi(SP!Publish(t))
    \/ \E m \in BagToSet(work) : Edi(SP!SaveScript(m))
    \/ \E u \in Editors :
          \/ \E text \in versions \cup {[kind |-> "edited", by |-> u]} : Edi(SP!BeginEdit(u, text))
          \/ Edi(SP!LockRow(u)) \/ Edi(SP!Archive(u)) \/ Edi(SP!Overwrite(u)) \/ Edi(SP!Rollback(u))
    \/ Edi(SP!Delete)

Recorder ==
    \/ \E q \in recAsked :
          \/ Rec(RC!Start(q)) \/ Rec(RC!Started(q)) \/ Rec(RC!RefuseUrl(q)) \/ Rec(RC!ServeGet(q))
          \/ Rec(RC!ServeStop(q)) \/ Rec(RC!Launched(q)) \/ Rec(RC!Ignored(q)) \/ Rec(RC!PollAnswered(q))
          \/ Rec(RC!StopAnswered(q)) \/ Rec(RC!ViewerAnswered(q))
    \/ \E i \in Recordings :
          \/ Rec(RC!Capture(i)) \/ Rec(RC!Sweep(i)) \/ Rec(RC!Closed(i)) \/ Rec(RC!Finish(i)) \/ Rec(RC!Expire(i))
          \/ Rec(RC!Delete(i)) \/ Rec(RC!Deleted(i))
          \/ Rec(RC!StartRecording(i)) \/ Rec(RC!ViewerPoll(i)) \/ Rec(RC!ViewerStop(i))
    \/ Rec(RC!Restart) \/ Rec(RC!StopRecording) \/ Rec(RC!Poll) \/ Rec(RC!Unmount) \/ Rec(RC!Mount)

Schema ==
    \E r \in Replicas :
        \/ Sch(MG!StartUp(r)) \/ Sch(MG!Acquire(r)) \/ Sch(MG!ReadApplied(r)) \/ Sch(MG!Execute(r))
        \/ Sch(MG!Record(r)) \/ Sch(MG!Unlock(r)) \/ Sch(MG!End(r))

Capture ==
    \/ Cap(CP!RequestWillBeSent) \/ Cap(CP!Detach) \/ Cap(CP!ToFlowSteps)
    \/ \E id \in 1..MaxRequests : Cap(CP!ResponseReceived(id)) \/ Cap(CP!LoadingFinished(id)) \/ Cap(CP!BodyRead(id))
    \/ Cap(\E source \in 1..MaxRequests, there \in SUBSET (1..MaxRequests) : CP!ApplyCorrelation(source, there))

Calls ==
    \/ \E s \in Slots :
          \/ Cal(\E kind \in AI!Kinds : AI!Ask(s, kind))
          \/ Cal(AI!AskRoute(s)) \/ Cal(AI!ReadTeam(s)) \/ Cal(AI!ReadGlobal(s)) \/ Cal(AI!Fetched(s))
          \/ Cal(AI!FetchFails(s)) \/ Cal(AI!Provides(s)) \/ Cal(AI!ProviderFails(s)) \/ Cal(AI!Failed(s))
          \/ Cal(AI!Retry(s)) \/ Cal(AI!Deadline(s))
    \/ Cal(\E r \in AI!Rows, v \in Settings \cup {NoSetting} : AI!Put(r, v))
    \/ Cal(AI!Tick)

Chat ==
    \/ Cha(CH!StartNewChat) \/ Cha(CH!ChangeMode) \/ Cha(CH!Send) \/ Cha(CH!EditTurn)
    \/ \E c \in Chats : Cha(CH!LoadSession(c)) \/ Cha(CH!RemoveSession(c))
    \/ \E s \in Saved : Cha(CH!PickScript(s))
    \/ \E q \in chatAsked : \/ Cha(CH!Fetched(q)) \/ Cha(CH!TurnAnswered(q)) \/ Cha(CH!RunAnswered(q))
                            \/ Cha(CH!SaveAnswered(q)) \/ Cha(CH!ScriptAnswered(q))
    \/ \E c \in cards : \/ Cha(CH!KeepChatting(c)) \/ Cha(CH!RunTest(c)) \/ Cha(CH!SaveScriptEdit(c))
                        \/ Cha(CH!StatusArrives(c))

Plan == Pla(LP!Refuse) \/ Pla(LP!Generate) \/ Pla(LP!Inject) \/ Pla(LP!Keep)

Live ==
    \/ Liv(LM!Writes) \/ Liv(LM!Closes) \/ Liv(LM!SpawnFails)
    \/ \E r \in Readers : Liv(LM!Stat(r)) \/ Liv(LM!Begin(r)) \/ Liv(LM!Finish(r)) \/ Liv(LM!ReadFails(r))

ExecutionLog ==
    \/ \E s \in Streams : Log(RL!Chunk(s)) \/ Log(RL!Line(s))
    \/ Log(RL!TimerFires) \/ Log(RL!Ends)
    \/ \E b \in sent : Log(RL!BatchArrives(b))

View ==
    \/ Vie(RV!Pending) \/ Vie(RV!Running) \/ Vie(RV!Fail) \/ Vie(RV!Cancel) \/ Vie(RV!Result)
    \/ \E n \in unsent : Vie(RV!Broadcast(n))
    \/ Vie(RV!Disconnect) \/ Vie(RV!Reconnect) \/ Vie(RV!Poll) \/ Vie(RV!PointArrives) \/ Vie(RV!Answered)
    \/ Vie(RV!Button) \/ Vie(RV!Load)
    \/ \E s \in events : Vie(RV!StatusArrives(s))

Asking ==
    \/ \E s \in Slots :
          \/ Rou(\E route \in AR!Routes : AR!Request(s, route))
          \/ Rou(AR!Check(s)) \/ Rou(AR!Charge(s)) \/ Rou(AR!Peek(s)) \/ Rou(AR!Attach(s)) \/ Rou(AR!FetchSpec(s))
          \/ Rou(AR!Call(s)) \/ Rou(AR!Answered(s))
    \/ Rou(AR!CountFor)

Judging ==
    \/ \E t \in VD!Runs :
          \/ Ver(\E k \in AskedKinds : VD!PendingArrives(t, k)) \/ Ver(\E k \in AskedKinds : VD!PendingLost(t, k))
          \/ Ver(VD!Delete(t)) \/ Ver(VD!Lookup(t)) \/ Ver(VD!ClearBaseline(t))
          \/ \E u \in Setters : Ver(VD!FindRun(u, t))
    \/ Ver(VD!Analyse) \/ Ver(VD!Save) \/ Ver(VD!Announce) \/ Ver(VD!Throw) \/ Ver(VD!Crash)
    \/ \E u \in Setters : Ver(VD!ClearBaselines(u)) \/ Ver(VD!MarkBaseline(u)) \/ Ver(VD!SetFails(u))

Next ==
    \/ Scripts \/ Edits \/ Recorder \/ Schema \/ Capture \/ Calls \/ Chat \/ Plan \/ Live \/ ExecutionLog \/ View
    \/ Asking \/ Judging

Spec == Init /\ [][Next]_allvars

\* What tells two states of a behaviour apart: the other parts never change.
OfPart ==
    <<part, CASE part \in {"scripts", "edits"} -> spvars
              [] part = "recorder" -> rcvars
              [] part = "schema"   -> mgvars
              [] part = "capture"  -> cpvars
              [] part = "calls"    -> aivars
              [] part = "chat"     -> chvars
              [] part = "plan"     -> lpvars
              [] part = "live"     -> lmvars
              [] part = "log"      -> rlvars
              [] part = "view"     -> rvvars
              [] part = "routes"   -> arvars
              [] part = "verdicts" -> vdvars>>

\* Only safety is checked, and no definition tells these values apart.  Slots,
\* Chats and Setters are the same values, as no part has two of them.
Symmetry == Permutations(Slots) \cup Permutations(Saved)

\* Every variable of the components keeps its type.
TypeOK ==
    CASE part \in {"scripts", "edits"} -> SP!ScriptsTypeOK
      [] part = "recorder" -> RC!RecorderTypeOK
      [] part = "schema"   -> MG!SchemaTypeOK
      [] part = "capture"  -> CP!CaptureTypeOK
      [] part = "calls"    -> AI!AiCallsTypeOK
      [] part = "chat"     -> CH!ChatTypeOK
      [] part = "plan"     -> LP!LoadPlanTypeOK
      [] part = "live"     -> LM!LiveTypeOK
      [] part = "log"      -> RL!RunLogTypeOK
      [] part = "view"     -> RV!ViewTypeOK
      [] part = "routes"   -> AR!AiRoutesTypeOK
      [] part = "verdicts" -> VD!VerdictsTypeOK
\* An accepted test is never lost on its way through ai-service, unless the broker
\* loses a message it has not written yet (ScriptPipeline).
Accounted == part \in {"scripts", "edits"} => SP!Accounted
\* A retry does not compare the descriptions again (ScriptPipeline).
ComparedOnce == part \in {"scripts", "edits"} => SP!ComparedOnce
\* An edit overwrites the very text it archived (ScriptPipeline).
ArchivesWhatItOverwrites == part \in {"scripts", "edits"} => SP!ArchivesWhatItOverwrites
\* A recording is correlated once at most, and kept until it may be forgotten (Recorder).
RecordingKeptOnce == part = "recorder" => RC!FinishedOnce /\ RC!NeverForgotten
\* Replicas that start together all end up with the whole schema (Migrations).
StartsAndServes == part = "schema" => MG!StartsAndServes
\* A variable of a flow is extracted where the browser got its value (Capture).
WiredToItsSource == part = "capture" => CP!WiredToItsSource
\* No call is made with a provider replaced too long ago (AiCalls).
FreshSetting == part = "calls" => AI!FreshSetting
\* An edited script is only saved over the script it was made from (Chat).
EditsOfItself == part = "chat" => CH!EditsOfItself
\* The load of a test is the one its parameters ask for and that was counted,
\* unless its description states one or its script was kept as it is (LoadPlan).
LoadAsAsked == part = "plan" => LP!LoadAsAsked
\* What k6 writes and prints is counted once and sent once (LiveMetrics, RunLog).
OutputCounted == (part = "live" => LM!LinesCounted) /\ (part = "log" => RL!LogSentOnce)
\* A page that shows a stale status is going to learn better (ResultView).
StaleHeals == part = "view" => RV!StaleHeals
\* Calls are counted before they are made, and answers checked before they are shown (AiRoutes).
SoundAnswers == part = "routes" => AR!SoundAnswers
\* A result is compared with the one baseline there is, and a bad one announced (Verdicts).
BaselineCounts == part = "verdicts" => VD!BaselineCounts
=============================================================================
