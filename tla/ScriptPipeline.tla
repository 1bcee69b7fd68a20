--------------------------- MODULE ScriptPipeline ---------------------------
(***************************************************************************)
(* Where the k6 script of a test comes from and where it goes: POST /tests *)
(* looks one up in test_scripts, ai-service reuses or generates one, the   *)
(* worker stores it when the run is over, and users edit and delete it     *)
(* meanwhile.  One key of the cache (a target URL, or the hash of a flow's *)
(* steps), so one row.                                                     *)
(*                                                                         *)
(* The run itself is BackendPipeline's, the count of AI calls TeamQuotas'. *)
(* A text is told apart by who made it.  used_count is left out.           *)
(***************************************************************************)
EXTENDS Naturals, Bags

CONSTANTS
    Tests,      \* tests submitted for the key
    Editors,    \* users who save or restore a script
    Slots,      \* ai-requests that can be worked on at a time
    MaxRetries, \* MAX_RETRIES
    Wants,      \* the requests: [desc, custom, team]
    Stored,     \* the rows earlier tests and users can have left: [text, desc, team]
    MaxRows,    \* bound on the rows ever inserted for the key
    MaxFaults   \* bound on lost connections, crashes and restarts of the broker

NoDesc == "none"
ScriptsAssumption ==
    /\ MaxRetries \in Nat /\ MaxRows \in Nat /\ MaxFaults \in Nat
    /\ \A w \in Wants : DOMAIN w = {"desc", "custom", "team"} /\ w.custom \in BOOLEAN

VARIABLES
    want,     \* what each test asks for
    request,  \* POST /tests: "new", "send", "accepted" or "refused", and the message
    row,      \* the row of test_scripts; id 0 when there is none
    versions, \* test_script_versions of that row
    nextId,   \* the id the next row gets
    ai,       \* ready in ai-requests
    job,      \* ai-requests being worked on
    work,     \* ready in backend-tests
    fresh,    \* sent by ai-service and not yet persisted: [to, m]
    lost,     \* tests whose last message a broker crash dropped
    ended,    \* tests that were run, or are in a dead letter queue
    edit,     \* PUT and restore under way
    compares, \* comparisons an AI provider was asked for
    faults

scvars == <<want, request, row, versions, nextId, ai, job, work, fresh, lost, ended, edit, compares, faults>>

Texts == [kind : {"generated", "custom"}, by : Tests] \cup [kind : {"edited"}, by : Editors]
         \cup {r.text : r \in Stored}
NoText == [kind |-> "no", by |-> "text"]
NoRow  == [id |-> 0, text |-> NoText, desc |-> NoDesc, team |-> NoDesc]
\* A message about a test: the cached script that came with it, if any, and the
\* text to run once that is decided.
Blank(t) == [t |-> t, cached |-> NoText, cachedDesc |-> NoDesc, text |-> NoText, id |-> 0, tries |-> 0]
Cleared(m) == [m EXCEPT !.cached = NoText, !.cachedDesc = NoDesc, !.id = 0]
Messages == [t : Tests, cached : Texts \cup {NoText}, cachedDesc : {w.desc : w \in Wants \cup Stored} \cup {NoDesc},
             text : Texts \cup {NoText}, id : 0..MaxRows, tries : 0..MaxRetries]

\* A message on its way: to backend-tests, back to ai-requests, or to the dead letters.
Envelopes == [to : {"work", "ai", "dlq"}, m : Messages]

Idle == [pc |-> "idle", m |-> NoText, from |-> NoText, live |-> FALSE]
NoEdit == [pc |-> "idle", text |-> NoText, copy |-> NoText]

ScriptsTypeOK ==
    /\ request \in [Tests -> [pc : {"new", "send", "accepted", "refused"}, dest : {"ai", "work"},
                              m : Messages]]
    /\ row.id \in 0..MaxRows /\ row.text \in Texts \cup {NoText}
    /\ row.id = 0 <=> row = NoRow
    /\ versions \subseteq Texts /\ nextId \in 1..(MaxRows + 1)
    /\ \A b \in {ai, work} : IsABag(b) /\ BagToSet(b) \subseteq Messages
    /\ IsABag(fresh) /\ BagToSet(fresh) \subseteq Envelopes
    /\ ended \subseteq Tests /\ lost \subseteq Tests
    /\ \A s \in Slots : job[s].pc # "idle" => {job[s].m, job[s].from} \subseteq Messages
    /\ compares \in [Tests -> Nat] /\ faults \in 0..MaxFaults

ScriptsInit ==
    /\ want \in [Tests -> Wants]
    /\ request = [t \in Tests |-> [pc |-> "new", dest |-> "ai", m |-> Blank(t)]]
    /\ \/ row = NoRow /\ nextId = 1
       \/ \E r \in Stored : /\ row = [id |-> 1, text |-> r.text, desc |-> r.desc, team |-> r.team]
                            /\ nextId = 2
    /\ versions = {}
    /\ ai = EmptyBag /\ work = EmptyBag /\ fresh = EmptyBag
    /\ job = [s \in Slots |-> Idle]
    /\ ended = {} /\ lost = {}
    /\ edit = [u \in Editors |-> NoEdit]
    /\ compares = [t \in Tests |-> 0]
    /\ faults = 0

Put(b, m)  == b (+) SetToBag({m})
Drop(b, m) == b (-) SetToBag({m})
At(s, pc)  == job[s].pc = pc
Goto(s, pc) == job' = [job EXCEPT ![s].pc = pc]

-----------------------------------------------------------------------------
\* POST /tests.  A custom script is sent as it is.
SubmitCustom(t) ==
    /\ request[t].pc = "new" /\ want[t].custom
    /\ request' = [request EXCEPT ![t].pc = "send", ![t].dest = "work",
                                  ![t].m.text = [kind |-> "custom", by |-> t]]
    /\ UNCHANGED <<want, row, versions, nextId, ai, job, work, ended, edit, compares, faults, fresh, lost>>

\* findExistingScript sees the rows of the caller's team only.  Without one the
\* script is to be generated; with one and no description (or a flow) it is
\* reused; otherwise ai-service is to compare the descriptions.
Lookup(t) ==
    LET found == row.id # 0 /\ row.team = want[t].team IN
    /\ request[t].pc = "new" /\ ~want[t].custom
    /\ request' = [request EXCEPT ![t] =
         CASE ~found -> [pc |-> "send", dest |-> "ai", m |-> Blank(t)]
           [] found /\ want[t].desc = NoDesc ->
                [pc |-> "send", dest |-> "work", m |-> [Blank(t) EXCEPT !.text = row.text, !.id = row.id]]
           [] OTHER ->
                [pc |-> "send", dest |-> "ai",
                 m |-> [Blank(t) EXCEPT !.cached = row.text, !.cachedDesc = row.desc, !.id = row.id]]]
    /\ UNCHANGED <<want, row, versions, nextId, ai, job, work, ended, edit, compares, faults, fresh, lost>>

Answered(t, pc) == [pc |-> pc, dest |-> "ai", m |-> Blank(t)]
Sent(t) == IF request[t].dest = "ai"
           THEN ai' = Put(ai, request[t].m) /\ UNCHANGED work
           ELSE work' = Put(work, request[t].m) /\ UNCHANGED ai

\* publishTest: sent and confirmed.
Publish(t) ==
    /\ request[t].pc = "send"
    /\ Sent(t)
    /\ request' = [request EXCEPT ![t] = Answered(t, "accepted")]
    /\ UNCHANGED <<want, row, versions, nextId, job, ended, edit, compares, faults, fresh, lost>>

\* No channel, or no confirm: 500, and the broker may have the message.
PublishFails(t) ==
    /\ request[t].pc = "send"
    /\ Sent(t) \/ UNCHANGED <<ai, work>>
    /\ request' = [request EXCEPT ![t] = Answered(t, "refused")]
    /\ UNCHANGED <<want, row, versions, nextId, job, ended, edit, compares, faults, fresh, lost>>

-----------------------------------------------------------------------------
\* ai-service.  A message with a cached script and a description starts with
\* the comparison: not at all without a stored description, without a call
\* when the two are the same.
Start(m) ==
    LET d == want[m.t].desc IN
    IF m.cached = NoText \/ d = NoDesc THEN [pc |-> "charge", m |-> m]
    ELSE IF m.cachedDesc = NoDesc THEN [pc |-> "charge", m |-> Cleared(m)]
    ELSE IF d = m.cachedDesc THEN [pc |-> "send", m |-> [m EXCEPT !.text = m.cached]]
    ELSE [pc |-> "chargeCompare", m |-> m]

Deliver(s, m) ==
    /\ At(s, "idle") /\ BagIn(m, ai)
    /\ ai' = Drop(ai, m)
    /\ job' = [job EXCEPT ![s] = [pc |-> Start(m).pc, m |-> Start(m).m, from |-> m, live |-> TRUE]]
    /\ UNCHANGED <<want, request, row, versions, nextId, work, ended, edit, compares, faults, fresh, lost>>

\* checkAndIncrementGeminiUsage: allowed, or not reachable; or over the quota.
Charge(s) ==
    /\ job[s].pc \in {"chargeCompare", "charge"}
    /\ Goto(s, IF At(s, "charge") THEN "generate" ELSE "compare") \/ Goto(s, "bury")
    /\ UNCHANGED <<want, request, row, versions, nextId, ai, work, ended, edit, compares, faults, fresh, lost>>

\* compareDescriptions: every error is REGENERATE.
Compare(s) ==
    LET m == job[s].m IN
    /\ At(s, "compare")
    /\ compares' = [compares EXCEPT ![m.t] = @ + 1]
    /\ job' \in {[job EXCEPT ![s].pc = "send", ![s].m.text = m.cached],
                 [job EXCEPT ![s].pc = "charge", ![s].m = Cleared(m)]}
    /\ UNCHANGED <<want, request, row, versions, nextId, ai, work, ended, edit, faults, fresh, lost>>

\* generateScript, which retries rate limits itself before it gives up.
Generate(s) ==
    LET m == job[s].m IN
    /\ At(s, "generate")
    /\ job' \in {[job EXCEPT ![s].pc = "send", ![s].m.text = [kind |-> "generated", by |-> m.t]],
                 [job EXCEPT ![s].pc = IF m.tries < MaxRetries THEN "retry" ELSE "bury"]}
    /\ UNCHANGED <<want, request, row, versions, nextId, ai, work, ended, edit, compares, faults, fresh, lost>>

\* The channel has no confirms (createChannel): what is sent is not yet safe.
Sends(to, m) == fresh' = Put(fresh, [to |-> to, m |-> m])

\* Mutant: the message is acknowledged first and sent to backend-tests afterwards.
AckThenRoute(s) ==
    /\ At(s, "send")
    /\ IF job[s].live THEN job' = [job EXCEPT ![s].live = FALSE] /\ UNCHANGED fresh
       ELSE job' = [job EXCEPT ![s] = Idle] /\ Sends("work", job[s].m)
    /\ UNCHANGED <<want, request, row, versions, nextId, ai, work, ended, edit, compares, faults, lost>>

Route(s) ==
    /\ At(s, "send") /\ job[s].live
    /\ Sends("work", job[s].m)
    /\ Goto(s, "ack")
    /\ UNCHANGED <<want, request, row, versions, nextId, ai, work, ended, edit, compares, faults, lost>>

\* Mutant: the retry publishes the message as it came.
RetriedAsReceived(j) == [j.from EXCEPT !.tries = @ + 1]

\* The test as the handler has it by now: without the cached script once the
\* comparison is made.
Retried(j) == [j.m EXCEPT !.tries = @ + 1]

Retry(s) ==
    /\ At(s, "retry") /\ job[s].live
    /\ Sends("ai", Retried(job[s]))
    /\ Goto(s, "ack")
    /\ UNCHANGED <<want, request, row, versions, nextId, ai, work, ended, edit, compares, faults, lost>>

\* ai-requests.dlq, after the last retry, or at once when the quota is exhausted.
Bury(s) ==
    /\ At(s, "bury") /\ job[s].live
    /\ Sends("dlq", job[s].m)
    /\ Goto(s, "ack")
    /\ UNCHANGED <<want, request, row, versions, nextId, ai, work, ended, edit, compares, faults, lost>>

Ack(s) ==
    /\ At(s, "ack") /\ job[s].live
    /\ job' = [job EXCEPT ![s] = Idle]
    /\ UNCHANGED <<want, request, row, versions, nextId, ai, work, ended, edit, compares, faults, fresh, lost>>

\* The broker has written the message to disk: it can be delivered, or stays in
\* the dead letters.  On one connection the acknowledgement comes after the
\* message, so that a lost connection loses none that is acknowledged.
Persist(x) ==
    /\ BagIn(x, fresh)
    /\ fresh' = Drop(fresh, x)
    /\ \/ x.to = "work" /\ work' = Put(work, x.m) /\ UNCHANGED <<ai, ended>>
       \/ x.to = "ai"   /\ ai' = Put(ai, x.m)     /\ UNCHANGED <<work, ended>>
       \/ x.to = "dlq"  /\ ended' = ended \cup {x.m.t} /\ UNCHANGED <<ai, work>>
    /\ UNCHANGED <<want, request, row, versions, nextId, job, edit, compares, faults, lost>>

Unacked == {s \in Slots : job[s].live}
Requeued == [m \in {job[s].from : s \in Unacked} |-> 1]

\* The connection is lost: RabbitMQ puts the unacknowledged messages back, and
\* the handlers go on with a channel that is closed.
Severed ==
    /\ ai' = ai (+) Requeued
    /\ job' = [s \in Slots |-> [job[s] EXCEPT !.live = FALSE]]

Disconnect ==
    /\ faults < MaxFaults /\ Unacked # {}
    /\ Severed
    /\ faults' = faults + 1
    /\ UNCHANGED <<want, request, row, versions, nextId, work, ended, edit, compares, fresh, lost>>

\* The broker restarts: every connection is lost, and so is what it had not
\* written, for good where the message it was made from is acknowledged.
BrokerCrash ==
    /\ faults < MaxFaults /\ (Unacked # {} \/ fresh # EmptyBag)
    /\ Severed
    /\ fresh' = EmptyBag
    /\ lost' = lost \cup ({x.m.t : x \in BagToSet(fresh)} \ {job[s].m.t : s \in Unacked})
    /\ faults' = faults + 1
    /\ UNCHANGED <<want, request, row, versions, nextId, work, ended, edit, compares>>

Restarted ==
    /\ ai' = ai (+) Requeued
    /\ job' = [s \in Slots |-> Idle]

\* Sending on a closed channel throws, and throws again in the catch block: the
\* rejection is handled by nobody, and Node ends the process.
Throw(s) ==
    /\ job[s].pc \in {"send", "retry", "bury", "ack"} /\ ~job[s].live
    /\ Restarted
    /\ UNCHANGED <<want, request, row, versions, nextId, work, ended, edit, compares, faults, fresh, lost>>

\* The process is killed, or its drain ends before its handlers.
Crash ==
    /\ faults < MaxFaults /\ Unacked # {}
    /\ Restarted
    /\ faults' = faults + 1
    /\ UNCHANGED <<want, request, row, versions, nextId, work, ended, edit, compares, fresh, lost>>

-----------------------------------------------------------------------------
\* Mutant: the row is read without FOR UPDATE.
UnlockedAlways == TRUE

\* Statements that need the row wait for the transaction that has locked it.
Unlocked == \A u \in Editors : edit[u].pc \in {"idle", "begun"}

\* The run is over (BackendPipeline) and the script is stored.  With an id only
\* its use is counted; without one the row is inserted or overwritten, its team
\* kept.  When the result could not be confirmed the test comes back.
SaveScript(m) ==
    /\ BagIn(m, work)
    /\ m.id # 0 \/ row.id # 0 \/ nextId <= MaxRows
    /\ Unlocked
    /\ IF m.id # 0 THEN UNCHANGED <<row, nextId>>
       ELSE IF row.id # 0
       THEN row' = [row EXCEPT !.text = m.text, !.desc = want[m.t].desc] /\ UNCHANGED nextId
       ELSE /\ row' = [id |-> nextId, text |-> m.text, desc |-> want[m.t].desc, team |-> want[m.t].team]
            /\ nextId' = nextId + 1
    /\ \/ /\ work' = Drop(work, m)
          /\ ended' = ended \cup {m.t}
          /\ UNCHANGED faults
       \/ /\ faults < MaxFaults
          /\ faults' = faults + 1
          /\ UNCHANGED <<work, ended>>
    /\ UNCHANGED <<want, request, versions, ai, job, edit, compares, fresh, lost>>

\* The run was stopped with nothing measured, or failed for the last time.
NotRun(m) ==
    /\ BagIn(m, work)
    /\ work' = Drop(work, m)
    /\ ended' = ended \cup {m.t}
    /\ UNCHANGED <<want, request, row, versions, nextId, ai, job, edit, compares, faults, fresh, lost>>

-----------------------------------------------------------------------------
\* PUT /scripts/:id with a new text, or the restore of a version: BEGIN ...
BeginEdit(u, text) ==
    /\ edit[u].pc = "idle" /\ row.id # 0
    /\ text \in versions \cup {[kind |-> "edited", by |-> u]}
    /\ edit' = [edit EXCEPT ![u] = [NoEdit EXCEPT !.pc = "begun", !.text = text]]
    /\ UNCHANGED <<want, request, row, versions, nextId, ai, job, work, ended, compares, faults, fresh, lost>>

\* ... SELECT ... FOR UPDATE ...
LockRow(u) ==
    /\ edit[u].pc = "begun" /\ row.id # 0 /\ Unlocked
    /\ edit' = [edit EXCEPT ![u].pc = "locked"]
    /\ UNCHANGED <<want, request, row, versions, nextId, ai, job, work, ended, compares, faults, fresh, lost>>

\* ... the current text copied into the versions ...
Archive(u) ==
    /\ edit[u].pc = "locked"
    /\ edit' = [edit EXCEPT ![u].pc = "archived", ![u].copy = row.text]
    /\ UNCHANGED <<want, request, row, versions, nextId, ai, job, work, ended, compares, faults, fresh, lost>>

\* ... the row overwritten, and COMMIT.  The description stays.
Overwrite(u) ==
    /\ edit[u].pc = "archived"
    /\ row' = [row EXCEPT !.text = edit[u].text]
    /\ versions' = versions \cup {edit[u].copy}
    /\ edit' = [edit EXCEPT ![u] = NoEdit]
    /\ UNCHANGED <<want, request, nextId, ai, job, work, ended, compares, faults, fresh, lost>>

\* 404, or ROLLBACK.
Rollback(u) ==
    /\ edit[u].pc # "idle"
    /\ edit' = [edit EXCEPT ![u] = NoEdit]
    /\ UNCHANGED <<want, request, row, versions, nextId, ai, job, work, ended, compares, faults, fresh, lost>>

\* DELETE /scripts/:id, with its versions; results keep a null script_id.
Delete ==
    /\ row.id # 0 /\ Unlocked
    /\ row' = NoRow /\ versions' = {}
    /\ UNCHANGED <<want, request, nextId, ai, job, work, ended, edit, compares, faults, fresh, lost>>

ScriptsNext ==
    \/ \E t \in Tests : SubmitCustom(t) \/ Lookup(t) \/ Publish(t) \/ PublishFails(t)
    \/ \E s \in Slots : \/ \E m \in BagToSet(ai) : Deliver(s, m)
                        \/ Charge(s) \/ Compare(s) \/ Generate(s) \/ Route(s) \/ Retry(s)
                        \/ Bury(s) \/ Ack(s) \/ Throw(s)
    \/ Disconnect \/ BrokerCrash \/ Crash
    \/ \E x \in BagToSet(fresh) : Persist(x)
    \/ \E m \in BagToSet(work) : SaveScript(m) \/ NotRun(m)
    \/ \E u \in Editors : \/ \E text \in versions \cup {[kind |-> "edited", by |-> u]} : BeginEdit(u, text)
                          \/ LockRow(u) \/ Archive(u) \/ Overwrite(u) \/ Rollback(u)
    \/ Delete

ScriptsSpec == ScriptsInit /\ [][ScriptsNext]_scvars

-----------------------------------------------------------------------------
\* A broker crash took the message ai-service had sent for the test, after the one
\* it came from was acknowledged: without confirms nothing can bring it back.
LostUnconfirmed(t) == t \in lost

\* A test that POST /tests accepted is somewhere until it ended: in a queue or on
\* its way there, in the hands of ai-service or of a worker, with a stored result
\* or in a dead letter queue, whatever connections and processes are lost
\* meanwhile (processor.ts 86-145).  The one exception of the code is a message
\* that the broker loses before it has written it.
Accounted ==
    \A t \in Tests : request[t].pc = "accepted" =>
        \/ \E m \in BagToSet(ai) \cup BagToSet(work) : m.t = t
        \/ \E x \in BagToSet(fresh) : x.m.t = t
        \/ \E s \in Slots : job[s].live /\ job[s].m.t = t
        \/ t \in ended
        \/ LostUnconfirmed(t)

\* The descriptions of a test are compared once, and once more for every time
\* the message is redelivered: a retry goes straight to the generation
\* (processor.ts 91-92, 133).  A lost connection redelivers it at once, and
\* again when the handler left behind ends the process.
ComparedOnce == \A t \in Tests : compares[t] <= 1 + 2 * faults

\* What a save or a restore overwrites is the text it has archived, whoever
\* else saves, stores a script after a run or deletes it (results.ts 449-466).
ArchivesWhatItOverwrites ==
    \A u \in Editors : edit[u].pc = "archived" => row.id # 0 /\ edit[u].copy = row.text
=============================================================================
