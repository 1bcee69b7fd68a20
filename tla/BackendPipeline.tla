-------------------------- MODULE BackendPipeline --------------------------
(***************************************************************************)
(* The path of a backend (k6) test from POST /tests to its row in          *)
(* test_results: api-service dispatches it to the backend-tests queue, the *)
(* replicas of worker-backend consume it, results-service consumes what    *)
(* they publish, and HTTP callbacks, the cancel fanout and the stale sweep *)
(* write the same row on the side.                                         *)
(*                                                                         *)
(* A message handler of worker-backend is asynchronous and survives the    *)
(* loss of its connection, so a replica may run a handler whose delivery   *)
(* the broker has already given back (live = FALSE) next to a new one.     *)
(* What each await leaves open to interleaving is a value of pc.           *)
(***************************************************************************)
EXTENDS Naturals, FiniteSets, TestStore

CONSTANTS
    Tests,        \* the tests that clients submit
    NoTest,       \* no test
    Owned,        \* the tests whose row belongs to a team (project_id set)
    Replicas,     \* worker-backend processes
    Slots,        \* message handlers one replica can have under way
    Concurrency,  \* WORKER_CONCURRENCY, the prefetch of one connection
    MaxRetries,   \* MAX_RETRIES
    MaxFaults,    \* how many faults the environment injects in a behaviour
    FaultKinds,   \* which: "crash", "disconnect", "broker", "database"
    CallsMayFail  \* whether best-effort calls and signals can be lost

NoSlot == "none"

ASSUME ConstantsAssumption ==
    /\ NoTest \notin Tests
    /\ NoSlot \notin Slots
    /\ IsFiniteSet(Tests) /\ IsFiniteSet(Replicas) /\ IsFiniteSet(Slots)
    /\ Concurrency \in Nat \ {0}
    /\ MaxRetries \in Nat
    /\ MaxFaults \in Nat
    /\ CallsMayFail \in BOOLEAN

VARIABLES
    row,           \* test_results
    request,       \* api-service: how far POST /tests got
    cancelReq,     \* api-service: how far POST /tests/:id/cancel got
    pendingCall,   \* POST /results/pending calls in flight
    runningCalls,  \* POST /results/:id/running calls in flight, per test
    ready,         \* messages the broker has persisted, per message
    fresh,         \* messages published and not yet persisted
    lost,          \* the unpersisted messages a broker crash dropped
    connected,     \* the replicas with a working connection
    signals,       \* each replica's own cancel queue
    handler,       \* handleTestMessage invocations
    procs,         \* runningTests: the k6 process of each test, by slot
    cancelled,     \* cancelledTests
    consumer,      \* results-service's test-results consumer
    lateSaves,     \* handleResult invocations that outlived their channel
    faults         \* faults injected so far

apiVars    == <<request, cancelReq, pendingCall>>
brokerVars == <<ready, fresh, lost>>
workerVars == <<connected, signals, handler, procs, cancelled>>
resultVars == <<consumer, lateSaves>>
vars == <<row, runningCalls, apiVars, brokerVars, workerVars, resultVars, faults>>

Handlers == Replicas \X Slots

Steps == {"received", "checked", "k6", "exited", "caught", "saving",
          "confirming", "acking", "stopping", "stoppingInCatch",
          "ackingInCatch", "failing", "retrying", "rejected"}

Queues   == {"tests", "results"}
DLQs     == {"tests.dlq", "results.dlq"}
Messages == [q : Queues \cup DLQs, t : Tests, k : 0..MaxRetries]
Msg(q, t, k) == [q |-> q, t |-> t, k |-> k]

IdleHandler  == [pc |-> "idle", t |-> NoTest, k |-> 0,
                 live |-> FALSE, metrics |-> FALSE]
IdleConsumer == [pc |-> "idle", t |-> NoTest, k |-> 0]

HandlerState == [pc : {"idle"} \cup Steps, t : Tests \cup {NoTest},
                 k : 0..MaxRetries, live : BOOLEAN, metrics : BOOLEAN]

HandlersTyped(f) ==
    /\ f \in [Handlers -> HandlerState]
    /\ \A h \in Handlers : f[h].pc # "idle" => f[h].t \in Tests

TypeOK ==
    /\ row \in [Tests -> Row]
    /\ request \in [Tests -> {"new", "posting", "accepted", "rejected"}]
    /\ cancelReq \in [Tests -> {"none", "marked", "signalled"}]
    /\ pendingCall \in [Tests -> BOOLEAN]
    /\ runningCalls \in [Tests -> Nat]
    /\ ready \in [Messages -> Nat]
    /\ fresh \in [Messages -> Nat]
    /\ lost \subseteq Messages
    /\ connected \subseteq Replicas
    /\ signals \in [Replicas -> SUBSET Tests]
    /\ HandlersTyped(handler)
    /\ procs \in [Replicas -> [Tests -> Slots \cup {NoSlot}]]
    /\ cancelled \in [Replicas -> SUBSET Tests]
    /\ consumer \in [pc : {"idle", "saving", "saved"},
                     t : Tests \cup {NoTest}, k : 0..MaxRetries]
    /\ consumer.pc # "idle" => consumer.t \in Tests
    /\ lateSaves \subseteq Tests
    /\ faults \in 0..MaxFaults

Init ==
    /\ row = [t \in Tests |-> NoRow]
    /\ request = [t \in Tests |-> "new"]
    /\ cancelReq = [t \in Tests |-> "none"]
    /\ pendingCall = [t \in Tests |-> FALSE]
    /\ runningCalls = [t \in Tests |-> 0]
    /\ ready = [m \in Messages |-> 0]
    /\ fresh = [m \in Messages |-> 0]
    /\ lost = {}
    /\ connected = Replicas
    /\ signals = [r \in Replicas |-> {}]
    /\ handler = [h \in Handlers |-> IdleHandler]
    /\ procs = [r \in Replicas |-> [t \in Tests |-> NoSlot]]
    /\ cancelled = [r \in Replicas |-> {}]
    /\ consumer = IdleConsumer
    /\ lateSaves = {}
    /\ faults = 0

-----------------------------------------------------------------------------
(* The two bags of messages, and the row *)

Enqueue(bag, m) == [bag EXCEPT ![m] = @ + 1]
Dequeue(bag, m) == [bag EXCEPT ![m] = @ - 1]

Update(t, newRow) == row' = [row EXCEPT ![t] = newRow]

\* A best-effort call: the statement runs, or the call was lost on the way.
BestEffort(t, newRow) ==
    \/ Update(t, newRow)
    \/ CallsMayFail /\ UNCHANGED row

-----------------------------------------------------------------------------
(* api-service *)

\* POST /tests past validation and quota: the /results/pending call is sent
\* and not awaited, the publication of the test is.
Submit(t) ==
    /\ request[t] = "new"
    /\ request' = [request EXCEPT ![t] = "posting"]
    /\ pendingCall' = [pendingCall EXCEPT ![t] = TRUE]
    /\ UNCHANGED <<row, runningCalls, cancelReq, brokerVars, workerVars, resultVars, faults>>

\* publishTest: sendToQueue, waitForConfirms, 200 to the client.
Dispatch(t) ==
    /\ request[t] = "posting"
    /\ request' = [request EXCEPT ![t] = "accepted"]
    /\ ready' = Enqueue(ready, Msg("tests", t, 0))
    /\ UNCHANGED <<row, runningCalls, cancelReq, pendingCall, fresh, lost,
                   workerVars, resultVars, faults>>

\* No channel, or it closed before the confirm: the client gets an error,
\* whether or not the broker kept the message.
DispatchFails(t) ==
    /\ request[t] = "posting" /\ CallsMayFail
    /\ request' = [request EXCEPT ![t] = "rejected"]
    /\ ready' \in {ready, Enqueue(ready, Msg("tests", t, 0))}
    /\ UNCHANGED <<row, runningCalls, cancelReq, pendingCall, fresh, lost,
                   workerVars, resultVars, faults>>

\* POST /tests/:id/cancel by the owner.  A statement that touches no row is a
\* 404 and changes nothing.
Cancel(t) ==
    /\ cancelReq[t] # "marked"
    /\ MarkCancelled(row[t], TRUE) # row[t]
    /\ Update(t, MarkCancelled(row[t], TRUE))
    /\ cancelReq' = [cancelReq EXCEPT ![t] = "marked"]
    /\ UNCHANGED <<runningCalls, request, pendingCall, brokerVars, workerVars,
                   resultVars, faults>>

\* publishCancel: the exchange copies the signal to the cancel queue of every
\* replica that has one now; with no channel it throws and nobody is told.
PublishCancel(t) ==
    /\ cancelReq[t] = "marked"
    /\ cancelReq' = [cancelReq EXCEPT ![t] = "signalled"]
    /\ \/ signals' = [r \in Replicas |->
                        IF r \in connected THEN signals[r] \cup {t} ELSE signals[r]]
       \/ CallsMayFail /\ UNCHANGED signals
    /\ UNCHANGED <<row, runningCalls, request, pendingCall, brokerVars, connected,
                   handler, procs, cancelled, resultVars, faults>>

-----------------------------------------------------------------------------
(* results-service: callbacks and sweep *)

PendingArrives(t) ==
    /\ pendingCall[t]
    /\ pendingCall' = [pendingCall EXCEPT ![t] = FALSE]
    /\ BestEffort(t, InsertPending(row[t]))
    /\ UNCHANGED <<runningCalls, request, cancelReq, brokerVars, workerVars,
                   resultVars, faults>>

\* notifyRunning is not awaited: its call may arrive at any later time.
RunningArrives(t) ==
    /\ runningCalls[t] > 0
    /\ runningCalls' = [runningCalls EXCEPT ![t] = @ - 1]
    /\ BestEffort(t, MarkRunning(row[t]))
    /\ UNCHANGED <<apiVars, brokerVars, workerVars, resultVars, faults>>

\* runStaleCleanup.  The thresholds are settings an administrator edits, and
\* created_at does not move, so a row may be stale whatever its test is doing.
Sweep(t) ==
    /\ row[t].status \in Active
    /\ Update(t, SweepStale(row[t]))
    /\ UNCHANGED <<runningCalls, apiVars, brokerVars, workerVars, resultVars, faults>>

-----------------------------------------------------------------------------
(* worker-backend: handleTestMessage *)

At(h, pc)   == handler[h].pc = pc
Test(h)     == handler[h].t
Goto(h, pc) == handler' = [handler EXCEPT ![h].pc = pc]

\* The broker counts the delivery as unacknowledged.
Holds(h) == handler[h].pc # "idle" /\ handler[h].live

\* channel.ack of the delivery; on a closed channel it throws to 'otherwise'.
AckOr(h, otherwise) ==
    handler' = IF handler[h].live
               THEN [handler EXCEPT ![h] = IdleHandler]
               ELSE [handler EXCEPT ![h].pc = otherwise]

Of(r)     == {h \in Handlers : h[1] = r}
IdleOf(r) == {h \in Of(r) : handler[h].pc = "idle"}

\* Which idle slot takes the delivery makes no difference.
Deliver(r, m) ==
    LET h == CHOOSE g \in IdleOf(r) : TRUE IN
    /\ r \in connected
    /\ IdleOf(r) # {}
    /\ Cardinality({g \in Of(r) : Holds(g)}) < Concurrency
    /\ m.q = "tests" /\ ready[m] > 0
    /\ ready' = Dequeue(ready, m)
    /\ handler' = [handler EXCEPT ![h] = [pc |-> "received", t |-> m.t, k |-> m.k,
                                          live |-> TRUE, metrics |-> FALSE]]
    /\ UNCHANGED <<row, runningCalls, apiVars, fresh, lost, connected, signals,
                   procs, cancelled, resultVars, faults>>

\* SELECT status ... : a cancelled test is acknowledged and dropped.
CheckStatus(h) ==
    /\ At(h, "received")
    /\ IF row[Test(h)].status = "cancelled"
       THEN AckOr(h, "rejected")
       ELSE Goto(h, "checked")
    /\ UNCHANGED <<row, runningCalls, apiVars, brokerVars, connected, signals,
                   procs, cancelled, resultVars, faults>>

\* The run directory cannot be written, or k6 inspect refuses the script.
LaunchFails(h) ==
    /\ At(h, "checked")
    /\ Goto(h, "caught")
    /\ UNCHANGED <<row, runningCalls, apiVars, brokerVars, connected, signals,
                   procs, cancelled, resultVars, faults>>

\* spawn('k6', ...): only now can a cancel find the test.
Spawn(h) ==
    /\ At(h, "checked")
    /\ Goto(h, "k6")
    /\ procs' = [procs EXCEPT ![h[1]][Test(h)] = h[2]]
    /\ runningCalls' = [runningCalls EXCEPT ![Test(h)] = @ + 1]
    /\ UNCHANGED <<row, apiVars, brokerVars, connected, signals, cancelled,
                   resultVars, faults>>

\* Mutant: the 'error' path forgets runningTests.delete.
K6ExitsKeepingEntry(h) ==
    /\ At(h, "k6")
    /\ \/ /\ Goto(h, "caught")
          /\ UNCHANGED procs
       \/ /\ \E requests \in BOOLEAN :
                handler' = [handler EXCEPT ![h].pc = "exited", ![h].metrics = requests]
          /\ procs' = [procs EXCEPT ![h[1]][Test(h)] = NoSlot]
    /\ UNCHANGED <<row, runningCalls, apiVars, brokerVars, connected, signals,
                   cancelled, resultVars, faults>>

\* The process is gone.  The map entry is deleted by test id, whoever owns it.
\* A run is an error only with a bad exit code and no request made.
K6Exits(h) ==
    /\ At(h, "k6")
    /\ procs' = [procs EXCEPT ![h[1]][Test(h)] = NoSlot]
    /\ \/ Goto(h, "caught")
       \/ \E requests \in BOOLEAN :
             handler' = [handler EXCEPT ![h].pc = "exited", ![h].metrics = requests]
    /\ UNCHANGED <<row, runningCalls, apiVars, brokerVars, connected, signals,
                   cancelled, resultVars, faults>>

\* wasStopped: a stopped run without metrics is a cancel, with metrics a result.
RunResolves(h) ==
    LET stopped == Test(h) \in cancelled[h[1]] IN
    /\ At(h, "exited")
    /\ cancelled' = [cancelled EXCEPT ![h[1]] = @ \ {Test(h)}]
    /\ Goto(h, IF stopped /\ ~handler[h].metrics THEN "stopping" ELSE "saving")
    /\ UNCHANGED <<row, runningCalls, apiVars, brokerVars, connected, signals,
                   procs, resultVars, faults>>

\* Mutant: every error counts as the end of a stopped run.
RunThrowsStopped(h) ==
    /\ At(h, "caught")
    /\ cancelled' = [cancelled EXCEPT ![h[1]] = @ \ {Test(h)}]
    /\ Goto(h, "stoppingInCatch")
    /\ UNCHANGED <<row, runningCalls, apiVars, brokerVars, connected, signals,
                   procs, resultVars, faults>>

\* The catch block: an error of a stopped run is a cancel too.
RunThrows(h) ==
    LET stopped == Test(h) \in cancelled[h[1]] IN
    /\ At(h, "caught")
    /\ cancelled' = [cancelled EXCEPT ![h[1]] = @ \ {Test(h)}]
    /\ Goto(h, IF stopped THEN "stoppingInCatch" ELSE "failing")
    /\ UNCHANGED <<row, runningCalls, apiVars, brokerVars, connected, signals,
                   procs, resultVars, faults>>

\* Mutant: the source message is acknowledged without waiting for the confirm.
PublishResultUnconfirmed(h) ==
    /\ At(h, "saving") /\ handler[h].live
    /\ fresh' = Enqueue(fresh, Msg("results", Test(h), 0))
    /\ Goto(h, "acking")
    /\ UNCHANGED <<row, runningCalls, apiVars, ready, lost, connected, signals,
                   procs, cancelled, resultVars, faults>>

\* saveScript, then sendToQueue, which throws on a closed channel.
PublishResult(h) ==
    /\ At(h, "saving")
    /\ \/ /\ handler[h].live
          /\ fresh' = Enqueue(fresh, Msg("results", Test(h), 0))
          /\ Goto(h, "confirming")
       \/ /\ ~handler[h].live
          /\ Goto(h, "caught")
          /\ UNCHANGED fresh
    /\ UNCHANGED <<row, runningCalls, apiVars, ready, lost, connected, signals,
                   procs, cancelled, resultVars, faults>>

SaveScriptFails(h) ==
    /\ At(h, "saving")
    /\ Goto(h, "caught")
    /\ UNCHANGED <<row, runningCalls, apiVars, brokerVars, connected, signals,
                   procs, cancelled, resultVars, faults>>

\* The broker persists a published message; if a handler waits for its
\* confirm, waitForConfirms resolves.
Persist(m) ==
    LET waiting == {h \in Handlers : At(h, "confirming") /\ handler[h].live
                                       /\ m = Msg("results", Test(h), 0)} IN
    /\ fresh[m] > 0
    /\ fresh' = Dequeue(fresh, m)
    /\ ready' = Enqueue(ready, m)
    /\ IF waiting = {}
       THEN UNCHANGED handler
       ELSE \E h \in waiting : Goto(h, "acking")
    /\ UNCHANGED <<row, runningCalls, apiVars, lost, connected, signals, procs,
                   cancelled, resultVars, faults>>

\* A confirm that will never come: the wait rejects, or hangs for ever.
ConfirmFails(h) ==
    /\ At(h, "confirming") /\ ~handler[h].live
    /\ Goto(h, "caught")
    /\ UNCHANGED <<row, runningCalls, apiVars, brokerVars, connected, signals,
                   procs, cancelled, resultVars, faults>>

Acknowledge(h) ==
    /\ \/ At(h, "acking")        /\ AckOr(h, "caught")
       \/ At(h, "ackingInCatch") /\ AckOr(h, "rejected")
    /\ UNCHANGED <<row, runningCalls, apiVars, brokerVars, connected, signals,
                   procs, cancelled, resultVars, faults>>

\* notifyCancelled names no project: a team's row refuses it.
NotifyCancelled(h) ==
    /\ \/ At(h, "stopping")        /\ Goto(h, "acking")
       \/ At(h, "stoppingInCatch") /\ Goto(h, "ackingInCatch")
    /\ BestEffort(Test(h), MarkCancelled(row[Test(h)], Test(h) \notin Owned))
    /\ UNCHANGED <<runningCalls, apiVars, brokerVars, connected, signals, procs,
                   cancelled, resultVars, faults>>

\* notifyFailed, on every failed attempt.
NotifyFailed(h) ==
    /\ At(h, "failing")
    /\ Goto(h, "retrying")
    /\ BestEffort(Test(h), MarkFailed(row[Test(h)]))
    /\ UNCHANGED <<runningCalls, apiVars, brokerVars, connected, signals, procs,
                   cancelled, resultVars, faults>>

\* handleRetry: what is published before the delivery is acknowledged.
Republished(h) ==
    IF handler[h].k < MaxRetries
    THEN Msg("tests", Test(h), handler[h].k + 1)
    ELSE Msg("tests.dlq", Test(h), handler[h].k)

\* Mutant: republishes and also lets the broker requeue the delivery.
RetryAndRequeue(h) ==
    /\ At(h, "retrying")
    /\ AckOr(h, "rejected")
    /\ fresh' = IF handler[h].live THEN Enqueue(fresh, Republished(h)) ELSE fresh
    /\ ready' = Enqueue(ready, Msg("tests", Test(h), handler[h].k))
    /\ UNCHANGED <<row, runningCalls, apiVars, lost, connected, signals,
                   procs, cancelled, resultVars, faults>>

Retry(h) ==
    /\ At(h, "retrying")
    /\ AckOr(h, "rejected")
    /\ fresh' = IF handler[h].live THEN Enqueue(fresh, Republished(h)) ELSE fresh
    /\ UNCHANGED <<row, runningCalls, apiVars, ready, lost, connected, signals,
                   procs, cancelled, resultVars, faults>>

\* Mutant: the flag is raised whether or not the test runs here.
ReceiveCancelAlways(r, t) ==
    /\ t \in signals[r]
    /\ signals' = [signals EXCEPT ![r] = @ \ {t}]
    /\ cancelled' = [cancelled EXCEPT ![r] = @ \cup {t}]
    /\ UNCHANGED <<row, runningCalls, apiVars, brokerVars, connected, handler,
                   procs, resultVars, faults>>

\* The cancel consumer: the signal counts only where the process is running.
ReceiveCancel(r, t) ==
    /\ t \in signals[r]
    /\ signals' = [signals EXCEPT ![r] = @ \ {t}]
    /\ cancelled' = IF procs[r][t] # NoSlot
                    THEN [cancelled EXCEPT ![r] = @ \cup {t}]
                    ELSE cancelled
    /\ UNCHANGED <<row, runningCalls, apiVars, brokerVars, connected, handler,
                   procs, resultVars, faults>>

-----------------------------------------------------------------------------
(* results-service: the test-results consumer (prefetch 1) *)

TakeResult(t, k) ==
    /\ consumer.pc = "idle"
    /\ ready[Msg("results", t, k)] > 0
    /\ ready' = Dequeue(ready, Msg("results", t, k))
    /\ consumer' = [pc |-> "saving", t |-> t, k |-> k]
    /\ UNCHANGED <<row, runningCalls, apiVars, fresh, lost, workerVars, lateSaves, faults>>

SaveResult ==
    /\ consumer.pc = "saving"
    /\ Update(consumer.t, UpsertResult(row[consumer.t]))
    /\ consumer' = [consumer EXCEPT !.pc = "saved"]
    /\ UNCHANGED <<runningCalls, apiVars, brokerVars, workerVars, lateSaves, faults>>

\* The republication is not confirmed before the delivery is acknowledged.
SaveResultFails ==
    /\ consumer.pc = "saving"
    /\ fresh' = Enqueue(fresh,
                        IF consumer.k < MaxRetries
                        THEN Msg("results", consumer.t, consumer.k + 1)
                        ELSE Msg("results.dlq", consumer.t, consumer.k))
    /\ consumer' = IdleConsumer
    /\ UNCHANGED <<row, runningCalls, apiVars, ready, lost, workerVars, lateSaves, faults>>

AckResult ==
    /\ consumer.pc = "saved"
    /\ consumer' = IdleConsumer
    /\ UNCHANGED <<row, runningCalls, apiVars, brokerVars, workerVars, lateSaves, faults>>

\* What the broker gives back when the channel of results-service closes.
ReturnResult(bag) ==
    IF consumer.pc = "idle"
    THEN bag
    ELSE Enqueue(bag, Msg("results", consumer.t, consumer.k))

\* handleResult commits, or not, after its channel closed.  Its ack throws, so
\* does the retry in its catch block, and results-service dies of a rejection
\* that nobody handles.
LateSave(t) ==
    /\ t \in lateSaves
    /\ Update(t, UpsertResult(row[t])) \/ UNCHANGED row
    /\ ready' = ReturnResult(ready)
    /\ consumer' = IdleConsumer
    /\ lateSaves' = {}
    /\ UNCHANGED <<runningCalls, apiVars, fresh, lost, workerVars, faults>>

-----------------------------------------------------------------------------
(* Processes, connections and the broker *)

\* The deliveries the broker gives back when the channels of S close.
GiveBack(S) ==
    [m \in Messages |->
        ready[m] + Cardinality({h \in S : /\ Holds(h)
                                          /\ m = Msg("tests", Test(h), handler[h].k)})]

\* The exclusive, auto-delete cancel queues of R go with their connections.
CutOff(R) ==
    /\ connected' = connected \ R
    /\ signals' = [r \in Replicas |-> IF r \in R THEN {} ELSE signals[r]]

\* Everything a worker process keeps in memory is gone, its k6 children too.
StopProcess(r) ==
    /\ CutOff({r})
    /\ ready' = GiveBack(Of(r))
    /\ handler' = [h \in Handlers |-> IF h[1] = r THEN IdleHandler ELSE handler[h]]
    /\ procs' = [procs EXCEPT ![r] = [t \in Tests |-> NoSlot]]
    /\ cancelled' = [cancelled EXCEPT ![r] = {}]
    /\ UNCHANGED <<row, runningCalls, apiVars, fresh, lost, resultVars>>

Inject(kind) ==
    /\ kind \in FaultKinds
    /\ faults < MaxFaults
    /\ faults' = faults + 1

Crash(r) == Inject("crash") /\ StopProcess(r)

\* A rejection nobody handles ends a Node process.
Die(r) ==
    /\ \E h \in Of(r) : At(h, "rejected")
    /\ StopProcess(r)
    /\ UNCHANGED faults

\* The status query is outside every try block.
StatusQueryFails(h) ==
    /\ Inject("database")
    /\ At(h, "received")
    /\ Goto(h, "rejected")
    /\ UNCHANGED <<row, runningCalls, apiVars, brokerVars, connected, signals,
                   procs, cancelled, resultVars>>

\* Handlers of r that may have just written their last frames to the socket.
Leaving(r) == {h \in Of(r) : Holds(h) /\ handler[h].pc \in
                                {"acking", "ackingInCatch", "retrying"}}

\* Results of r that were published and are neither confirmed nor persisted.
Unconfirmed(r) ==
    {m \in Messages : /\ fresh[m] > 0
                      /\ \E h \in Of(r) : /\ Holds(h) /\ At(h, "confirming")
                                          /\ m = Msg("results", Test(h), 0)}

\* The handlers of r after its connection closed, those in 'cut' being done.
Severed(r, cut) ==
    [h \in Handlers |-> IF h \in cut THEN IdleHandler
                        ELSE IF h[1] = r THEN [handler[h] EXCEPT !.live = FALSE]
                        ELSE handler[h]]

\* What reached the broker: the retries of 'sent', and not the results 'dropped'.
Arrived(sent, dropped) ==
    [m \in Messages |-> (IF m \in dropped THEN fresh[m] - 1 ELSE fresh[m])
                        + Cardinality({h \in sent : m = Republished(h)})]

\* The connection of r is lost; its handlers go on without their deliveries.
\* Those in 'cut' believe they are done, but the broker did not see their acks.
Disconnect(r) ==
    /\ Inject("disconnect")
    /\ r \in connected
    /\ CutOff({r})
    /\ ready' = GiveBack(Of(r))
    /\ \E cut \in SUBSET Leaving(r), dropped \in SUBSET Unconfirmed(r) :
       \E sent \in SUBSET {h \in cut : At(h, "retrying")} :
          handler' = Severed(r, cut) /\ fresh' = Arrived(sent, dropped)
    /\ UNCHANGED <<row, runningCalls, apiVars, lost, procs, cancelled, resultVars>>

\* Mutant: the close handler schedules no reconnection.
ReconnectNever(r) == r \in {} /\ UNCHANGED vars

\* connectWithBackoff never gives up.
Reconnect(r) ==
    /\ r \notin connected
    /\ connected' = connected \cup {r}
    /\ UNCHANGED <<row, runningCalls, apiVars, brokerVars, signals, handler, procs,
                   cancelled, resultVars, faults>>

\* The broker restarts: what it had not persisted is gone, every connection is
\* closed and every unacknowledged delivery is ready again.
BrokerCrash ==
    /\ Inject("broker")
    /\ CutOff(Replicas)
    /\ ready' = ReturnResult(GiveBack(Handlers))
    /\ fresh' = [m \in Messages |-> 0]
    /\ lost' = lost \cup {m \in Messages : fresh[m] > 0}
    /\ handler' = [h \in Handlers |-> [handler[h] EXCEPT !.live = FALSE]]
    /\ consumer' = IdleConsumer
    /\ lateSaves' = IF consumer.pc = "saving" THEN lateSaves \cup {consumer.t} ELSE lateSaves
    /\ UNCHANGED <<row, runningCalls, apiVars, procs, cancelled>>

\* results-service loses its process, or only its channel, with a result in hand.
ConsumerFails ==
    /\ consumer.pc # "idle"
    /\ ready' = ReturnResult(ready)
    /\ consumer' = IdleConsumer
    /\ \/ Inject("crash") /\ lateSaves' = {}
       \/ /\ Inject("disconnect")
          /\ consumer.pc = "saving"
          /\ lateSaves' = lateSaves \cup {consumer.t}
    /\ UNCHANGED <<row, runningCalls, apiVars, fresh, lost, workerVars>>

-----------------------------------------------------------------------------
HandlerStep(h) ==
    \/ CheckStatus(h) \/ LaunchFails(h) \/ Spawn(h) \/ K6Exits(h)
    \/ RunResolves(h) \/ RunThrows(h)
    \/ PublishResult(h) \/ SaveScriptFails(h) \/ Acknowledge(h)
    \/ NotifyCancelled(h) \/ NotifyFailed(h) \/ Retry(h)

ConsumerStep ==
    \/ \E t \in Tests, k \in 0..MaxRetries : TakeResult(t, k)
    \/ SaveResult \/ SaveResultFails \/ AckResult

ApiStep(t) == Dispatch(t) \/ DispatchFails(t)

Deliveries == \E r \in Replicas, m \in Messages : Deliver(r, m)

Fault ==
    \/ \E r \in Replicas : Crash(r) \/ Disconnect(r)
    \/ \E h \in Handlers : StatusQueryFails(h)
    \/ BrokerCrash
    \/ ConsumerFails

Next ==
    \/ \E t \in Tests :
          \/ Submit(t) \/ ApiStep(t) \/ Cancel(t) \/ PublishCancel(t)
          \/ PendingArrives(t) \/ RunningArrives(t) \/ Sweep(t) \/ LateSave(t)
    \/ \E h \in Handlers : HandlerStep(h) \/ ConfirmFails(h)
    \/ Deliveries
    \/ \E m \in Messages : Persist(m)
    \/ \E r \in Replicas, t \in Tests : ReceiveCancel(r, t)
    \/ \E r \in Replicas : Reconnect(r) \/ Die(r)
    \/ ConsumerStep
    \/ Fault

Spec == Init /\ [][Next]_vars

\* Event loops, brokers and timers go on; clients submit and cancel when they
\* like, faults need not happen, and a lost confirm may be awaited for ever.
Fairness ==
    /\ \A t \in Tests :
          /\ WF_vars(ApiStep(t)) /\ WF_vars(PublishCancel(t))
          /\ WF_vars(PendingArrives(t)) /\ WF_vars(RunningArrives(t))
          /\ WF_vars(Sweep(t)) /\ WF_vars(LateSave(t))
    /\ \A h \in Handlers : WF_vars(HandlerStep(h))
    /\ WF_vars(Deliveries)
    /\ \A m \in Messages : WF_vars(Persist(m))
    /\ \A r \in Replicas :
          /\ WF_vars(Reconnect(r)) /\ WF_vars(Die(r))
          /\ \A t \in Tests : WF_vars(ReceiveCancel(r, t))
    /\ WF_vars(ConsumerStep)

FairSpec == Spec /\ Fairness

-----------------------------------------------------------------------------
(* What must hold.  InFlight: the broker keeps a message of q for t. *)

Copies(bag, q, t) ==
    LET count[k \in 0..MaxRetries] ==
            bag[Msg(q, t, k)] + IF k = 0 THEN 0 ELSE count[k - 1]
    IN  count[MaxRetries]

InFlight(q, t) ==
    \E k \in 0..MaxRetries : ready[Msg(q, t, k)] > 0 \/ fresh[Msg(q, t, k)] > 0

Working(t) == {h \in Handlers : Test(h) = t /\ Holds(h)}

\* Somebody still owes the test a run.
Owed(t) == InFlight("tests", t) \/ Working(t) # {}

\* The run has produced a result that the store has, or that is on its way.
HasResult(t) == \/ row[t].metrics
                \/ InFlight("results", t)
                \/ consumer.pc # "idle" /\ consumer.t = t

DeadLettered(t) == \E q \in DLQs : InFlight(q, t)

\* A broker crash dropped a message that nobody had waited to be confirmed: a
\* retry or a dead letter.
LostUnconfirmed(t) == \E m \in lost : m.t = t /\ (m.k > 0 \/ m.q \in DLQs)

\* A test whose client was told it is queued, and that nobody cancelled, is
\* still owed a run, has a result, or is in a dead-letter queue, whatever
\* crashed or lost its connection in between: results are confirmed before the
\* delivery is acknowledged (index.ts 342-353 of worker-backend).
NothingLost ==
    \A t \in Tests :
        request[t] = "accepted" /\ cancelReq[t] = "none" =>
            Owed(t) \/ HasResult(t) \/ DeadLettered(t) \/ LostUnconfirmed(t)

\* An entry of runningTests names a handler whose k6 process is alive, although
\* two handlers of one replica can run the same test after a reconnection and
\* each deletes the entry by test id (runner.ts 142 and 211).
ProcsAlive ==
    \A r \in Replicas, t \in Tests :
        procs[r][t] # NoSlot =>
            /\ At(<<r, procs[r][t]>>, "k6")
            /\ Test(<<r, procs[r][t]>>) = t

\* The test's run has started on r, and its end has not been examined.
UnderWay(r, t) == \E h \in Of(r) : Test(h) = t /\ handler[h].pc \in {"k6", "exited", "caught"}

\* A replica remembers a cancel only while a run of that test is there to
\* consume it: the flag can never meet a later, unrelated delivery of the test
\* (index.ts 252, 312 and 357 of worker-backend).
NoStaleCancelFlag ==
    \A r \in Replicas : \A t \in cancelled[r] : UnderWay(r, t)

\* Each fault at most doubles a test's copies among queues, handlers that hold
\* a delivery and dead letters: without faults a test is never executed by two
\* handlers, nor executed after it was dead-lettered.
CopiesBounded ==
    \A t \in Tests :
        Copies(ready, "tests", t) + Copies(fresh, "tests", t)
        + Copies(ready, "tests.dlq", t) + Copies(fresh, "tests.dlq", t)
        + Cardinality(Working(t)) <= 2 ^ faults

\* A row shows 'cancelled' only if somebody asked for that: a run that fails, is
\* retried or redelivered is never taken for a stopped one (index.ts 312-324 and
\* 357-362 of worker-backend).
CancelledOnlyOnRequest ==
    \A t \in Tests : row[t].status = "cancelled" => cancelReq[t] # "none"

\* Whatever is delivered late, twice or after a restart, a row's life is the
\* one the results store promises.
L == INSTANCE TestLifecycle WITH Tests <- Tests, row <- row
Lifecycle == L!Lifecycle

\* A queued test is dealt with: its result is stored, or it is a dead letter,
\* or somebody cancelled it, or its unconfirmed retry went down with the broker.
WorkDrains ==
    \A t \in Tests :
        request[t] = "accepted"
            ~> \/ row[t].metrics
               \/ DeadLettered(t)
               \/ cancelReq[t] # "none"
               \/ LostUnconfirmed(t)

\* No test stays 'pending' or 'running' in the store for ever, however late
\* a call moved it back to 'running' (cleanup.ts 11-33, results.ts 109-125).
Settles == \A t \in Tests : <>[](row[t].status \notin Active)
=============================================================================
