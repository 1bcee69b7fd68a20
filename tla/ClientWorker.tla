--------------------------- MODULE ClientWorker -----------------------------
(***************************************************************************)
(* worker-client: a test is taken from the client-tests queue, run in a    *)
(* Puppeteer browser of the pool, and its result is published; the cancel  *)
(* fanout, the kill timer, crashes and shutdowns end browsers under it.    *)
(* Around it stand a queue that loses nothing, clients that cancel at any  *)
(* time, and a store; what a broker's crash and late calls to the store    *)
(* (/running, /fail) do is the matter of BackendPipeline.                  *)
(*                                                                         *)
(* A closed browser stays connected until its process has gone; 'closing'  *)
(* is that moment.  runningBrowsers and the timers are kept by test id and *)
(* by browser, so they can outlive the invocation that made them.          *)
(***************************************************************************)
EXTENDS Naturals, FiniteSets, Sequences

CONSTANTS
    Tests,        \* the browser tests that clients submit
    NoTest,       \* no test
    Replicas,     \* worker-client processes
    Slots,        \* message handlers one replica can have under way
    Browsers,     \* browser processes one replica can have at a time
    NoBrowser,    \* no browser
    Concurrency,  \* WORKER_CONCURRENCY: prefetch and maxIdle of the pool
    MaxRetries,   \* MAX_RETRIES
    MaxFaults,    \* how many faults the environment injects in a behaviour
    FaultKinds    \* which: "crash", "disconnect", "channel", "shutdown", "browser"

ASSUME ConstantsAssumption ==
    /\ NoTest \notin Tests
    /\ NoBrowser \notin Browsers
    /\ IsFiniteSet(Tests) /\ IsFiniteSet(Replicas) /\ IsFiniteSet(Slots)
    /\ IsFiniteSet(Browsers)
    /\ Concurrency \in Nat \ {0}
    /\ MaxRetries \in Nat
    /\ MaxFaults \in Nat

VARIABLES
    accepted,    \* the tests whose client got an answer
    cancels,     \* the tests a client has cancelled
    stored,      \* the tests whose result results-service has stored
    queue,       \* client-tests: messages by test and x-retry-count
    dead,        \* client-tests.dlq, by test
    results,     \* test-results, by test
    link,        \* each replica's channel and test consumer
    leaving,     \* how far a replica's shutdown is
    signals,     \* each replica's own cancel queue
    handler,     \* handleTestMessage invocations
    running,     \* runningBrowsers
    flags,       \* cancelledTests
    cancelAcks,  \* cancel consumers waiting for browser.close()
    alive,       \* browser processes that exist
    closing,     \* those that were told to close
    idle,        \* the pool's list of idle browsers
    timers,      \* browsers with an armed kill timer
    faults       \* faults injected so far

outerVars   == <<accepted, cancels, stored>>
brokerVars  == <<queue, dead, results>>
linkVars    == <<link, leaving, signals>>
memoryVars  == <<running, flags, cancelAcks>>
browserVars == <<alive, closing, idle, timers>>
vars == <<outerVars, brokerVars, linkVars, handler, memoryVars, browserVars, faults>>

Handlers == Replicas \X Slots
Messages == Tests \X (0..MaxRetries)

\* With a browser checked out.
HeldSteps == {"preparing", "sessions", "sampled", "releasing", "surplus"}
\* The promise is settled; its last frames are on the way to the broker.
SentSteps == {"acking", "retrying"}
Steps     == {"launching", "confirming", "rejected"} \cup HeldSteps \cup SentSteps

HandlerState == [pc : {"idle"} \cup Steps, t : Tests \cup {NoTest}, k : 0..MaxRetries,
                 live : BOOLEAN, b : Browsers \cup {NoBrowser}, ok : BOOLEAN]

IdleHandler == [pc |-> "idle", t |-> NoTest, k |-> 0, live |-> FALSE,
                b |-> NoBrowser, ok |-> FALSE]

TypeOK ==
    /\ accepted \subseteq Tests
    /\ cancels \subseteq Tests /\ stored \subseteq Tests
    /\ queue \in [Messages -> Nat]
    /\ dead \in [Tests -> Nat] /\ results \in [Tests -> Nat]
    /\ link \in [Replicas -> {"down", "deaf", "cancelled", "consuming"}]
    /\ leaving \in [Replicas -> {"no", "draining", "exiting"}]
    /\ signals \in [Replicas -> SUBSET Tests]
    /\ handler \in [Handlers -> HandlerState]
    /\ \A h \in Handlers : /\ handler[h].pc # "idle" => handler[h].t \in Tests
                           /\ handler[h].pc \in HeldSteps => handler[h].b \in Browsers
    /\ running \in [Replicas -> [Tests -> Browsers \cup {NoBrowser}]]
    /\ flags \in [Replicas -> SUBSET Tests]
    /\ cancelAcks \subseteq Replicas \X Browsers \X BOOLEAN
    /\ alive \subseteq Replicas \X Browsers
    /\ closing \subseteq alive
    /\ idle \in [Replicas -> Seq(Browsers)]
    /\ timers \subseteq Replicas \X Browsers
    /\ faults \in 0..MaxFaults

Init ==
    /\ accepted = {} /\ cancels = {} /\ stored = {}
    /\ queue = [m \in Messages |-> 0]
    /\ dead = [t \in Tests |-> 0]
    /\ results = [t \in Tests |-> 0]
    /\ link = [r \in Replicas |-> "consuming"]
    /\ leaving = [r \in Replicas |-> "no"]
    /\ signals = [r \in Replicas |-> {}]
    /\ handler = [h \in Handlers |-> IdleHandler]
    /\ running = [r \in Replicas |-> [t \in Tests |-> NoBrowser]]
    /\ flags = [r \in Replicas |-> {}]
    /\ cancelAcks = {}
    /\ alive = {} /\ closing = {} /\ timers = {}
    /\ idle = [r \in Replicas |-> <<>>]
    /\ faults = 0

-----------------------------------------------------------------------------
(* Shorthands *)

At(h, pc)   == handler[h].pc = pc
Test(h)     == handler[h].t
Browser(h)  == <<h[1], handler[h].b>>
Of(r)       == {h \in Handlers : h[1] = r}
Goto(h, pc) == handler' = [handler EXCEPT ![h].pc = pc]

\* The broker counts the delivery as unacknowledged.
Holds(h) == handler[h].pc # "idle" /\ handler[h].live

Listening(r) == link[r] \in {"cancelled", "consuming"}

-----------------------------------------------------------------------------
(* api-service and results-service *)

\* api-service has confirmed the message before its client has an answer.
Submit(t) ==
    /\ t \notin accepted
    /\ accepted' = accepted \cup {t}
    /\ queue' = [queue EXCEPT ![<<t, 0>>] = @ + 1]
    /\ UNCHANGED <<cancels, stored, dead, results, linkVars, handler, memoryVars,
                   browserVars, faults>>

\* publishCancel, at any time, once for a test.  Only the cancel queues that
\* exist now get the signal.
Cancel(t) ==
    /\ t \in accepted \ cancels
    /\ cancels' = cancels \cup {t}
    /\ signals' = [r \in Replicas |->
                     IF Listening(r) THEN signals[r] \cup {t} ELSE signals[r]]
    /\ UNCHANGED <<accepted, stored, brokerVars, link, leaving, handler, memoryVars,
                   browserVars, faults>>

\* results-service upserts the result.
StoreResult(t) ==
    /\ results[t] > 0
    /\ results' = [results EXCEPT ![t] = @ - 1]
    /\ stored' = stored \cup {t}
    /\ UNCHANGED <<accepted, cancels, queue, dead, linkVars, handler, memoryVars,
                   browserVars, faults>>

-----------------------------------------------------------------------------
(* browserPool *)

Connected(r, q) == {i \in DOMAIN q : <<r, q[i]>> \in alive}
Newest(S)       == CHOOSE i \in S : \A j \in S : j <= i

\* acquire() pops dead browsers until one is connected: where it is, if any.
Reusable(r) == IF Connected(r, idle[r]) = {} THEN 0 ELSE Newest(Connected(r, idle[r]))

\* A name nothing refers to any more stands for the next process launched.
Unused(r) ==
    {b \in Browsers : /\ <<r, b>> \notin alive \cup timers
                      /\ \A i \in DOMAIN idle[r] : idle[r][i] # b
                      /\ \A h \in Of(r) : handler[h].b # b
                      /\ \A t \in Tests : running[r][t] # b
                      /\ \A live \in BOOLEAN : <<r, b, live>> \notin cancelAcks}

\* runningBrowsers.set and setTimeout follow acquire() without an await.
CheckOut(h, b, run) ==
    /\ handler' = [handler EXCEPT ![h] = [run EXCEPT !.pc = "preparing", !.b = b]]
    /\ running' = [running EXCEPT ![h[1]][run.t] = b]
    /\ timers' = timers \cup {<<h[1], b>>}

-----------------------------------------------------------------------------
(* worker-client: handleTestMessage and runClientTest *)

\* The delivery, the unawaited /running call and acquire() up to its await.
Deliver(r, t, k) ==
    LET free  == {h \in Of(r) : At(h, "idle")}
        h     == CHOOSE g \in free : TRUE
        run   == [IdleHandler EXCEPT !.t = t, !.k = k, !.live = TRUE]
        i     == Reusable(r)
    IN
    /\ link[r] = "consuming"
    /\ free # {}
    /\ Cardinality({g \in Of(r) : Holds(g)}) < Concurrency
    /\ queue[<<t, k>>] > 0
    /\ queue' = [queue EXCEPT ![<<t, k>>] = @ - 1]
    /\ IF i = 0
       THEN /\ handler' = [handler EXCEPT ![h] = [run EXCEPT !.pc = "launching"]]
            /\ idle' = [idle EXCEPT ![r] = <<>>]
            /\ UNCHANGED <<running, timers>>
       ELSE /\ CheckOut(h, idle[r][i], run)
            /\ idle' = [idle EXCEPT ![r] = SubSeq(@, 1, i - 1)]
    /\ UNCHANGED <<outerVars, dead, results, linkVars, flags,
                   cancelAcks, alive, closing, faults>>

\* The catch block.  /fail is sent on the last attempt only; handleRetry
\* publishes and acknowledges, which throws on a closed channel.
Throw(h) ==
    handler' = [handler EXCEPT ![h].pc = IF handler[h].live THEN "retrying" ELSE "rejected",
                              ![h].b = NoBrowser]

Launch(h) ==
    LET b == CHOOSE c \in Unused(h[1]) : TRUE IN
    /\ At(h, "launching") /\ Unused(h[1]) # {}
    /\ alive' = alive \cup {<<h[1], b>>}
    /\ CheckOut(h, b, handler[h])
    /\ UNCHANGED <<outerVars, brokerVars, linkVars, flags, cancelAcks, closing,
                   idle, faults>>

LaunchFails(h) ==
    /\ At(h, "launching")
    /\ Throw(h)
    /\ UNCHANGED <<outerVars, brokerVars, linkVars, memoryVars,
                   browserVars, faults>>

\* browser.pages() before the try block.  When the browser goes down under it,
\* neither the entry of runningBrowsers nor the timer is cleared.
Prepare(h) ==
    /\ At(h, "preparing")
    /\ \/ Browser(h) \in alive /\ Goto(h, "sessions")
       \/ Browser(h) \notin alive \ closing /\ Throw(h)
    /\ UNCHANGED <<outerVars, brokerVars, linkVars, memoryVars,
                   browserVars, faults>>

\* One session has collected its vitals; the others and the audit follow.
Sample(h) ==
    /\ At(h, "sessions") /\ Browser(h) \in alive
    /\ Goto(h, "sampled")
    /\ UNCHANGED <<outerVars, brokerVars, linkVars, memoryVars, browserVars, faults>>

\* Mutant: the flag is consumed whatever the outcome of the run.
ResolveForgetting(h, ok) ==
    LET flagged == ok /\ Test(h) \in flags[h[1]] IN
    /\ flags' = [flags EXCEPT ![h[1]] = @ \ {Test(h)}]
    /\ IF ok /\ handler[h].live
       THEN handler' = [handler EXCEPT ![h].pc = IF flagged THEN "acking" ELSE "confirming",
                                       ![h].b = NoBrowser]
       ELSE Throw(h)

\* The run is over and its browser back: a flagged test is acknowledged and
\* dropped, a result is published, an error goes to the catch block.  Both
\* sendToQueue and ack throw on a closed channel.
Resolve(h, ok) ==
    LET flagged == ok /\ Test(h) \in flags[h[1]] IN
    /\ flags' = IF flagged THEN [flags EXCEPT ![h[1]] = @ \ {Test(h)}] ELSE flags
    /\ IF ok /\ handler[h].live
       THEN handler' = [handler EXCEPT ![h].pc = IF flagged THEN "acking" ELSE "confirming",
                                       ![h].b = NoBrowser]
       ELSE Throw(h)

\* Mutant: runningBrowsers.delete only after a good run.
EndKeepingEntry(h, ok) ==
    /\ running' = IF ok THEN [running EXCEPT ![h[1]][Test(h)] = NoBrowser] ELSE running
    /\ timers' = timers \ {Browser(h)}
    /\ IF Browser(h) \in alive
       THEN /\ handler' = [handler EXCEPT ![h].pc = "releasing", ![h].ok = ok]
            /\ UNCHANGED flags
       ELSE Resolve(h, ok)
    /\ UNCHANGED <<outerVars, brokerVars, linkVars, cancelAcks,
                   alive, closing, idle, faults>>

\* The finally block, and release() up to its first await: a browser that is
\* gone is dropped, one that is closing still counts as connected.
End(h, ok) ==
    /\ running' = [running EXCEPT ![h[1]][Test(h)] = NoBrowser]
    /\ timers' = timers \ {Browser(h)}
    /\ IF Browser(h) \in alive
       THEN /\ handler' = [handler EXCEPT ![h].pc = "releasing", ![h].ok = ok]
            /\ UNCHANGED flags
       ELSE Resolve(h, ok)
    /\ UNCHANGED <<outerVars, brokerVars, linkVars, cancelAcks,
                   alive, closing, idle, faults>>

\* Every session failed; or, its browser being closed, newPage() did, or the
\* audit after the kill timer.
RunFails(h) ==
    /\ \/ At(h, "sessions")
       \/ At(h, "sampled") /\ Browser(h) \notin alive \ closing
    /\ End(h, FALSE)

\* A failed session is skipped and a failed audit is not fatal: one sample is
\* enough, also when a cancel has closed the browser since.
RunSucceeds(h) == At(h, "sampled") /\ End(h, TRUE)

\* Mutant: the cap of the idle list is not looked at.
ReleaseUncapped(h) ==
    /\ At(h, "releasing")
    /\ idle' = [idle EXCEPT ![h[1]] = Append(@, handler[h].b)]
    /\ Resolve(h, handler[h].ok)
    /\ UNCHANGED <<outerVars, brokerVars, linkVars, running,
                   cancelAcks, alive, closing, timers, faults>>

\* Mutant: a browser too many is forgotten instead of closed.
ReleaseForgetting(h) ==
    /\ At(h, "releasing")
    /\ idle' = IF Len(idle[h[1]]) >= Concurrency
               THEN idle ELSE [idle EXCEPT ![h[1]] = Append(@, handler[h].b)]
    /\ Resolve(h, handler[h].ok)
    /\ UNCHANGED <<outerVars, brokerVars, linkVars, running,
                   cancelAcks, alive, closing, timers, faults>>

\* release() after its pages are closed: nobody looks again whether the browser
\* is still there.
Release(h) ==
    /\ At(h, "releasing")
    /\ IF Len(idle[h[1]]) >= Concurrency
       THEN /\ Goto(h, "surplus")
            /\ closing' = closing \cup ({Browser(h)} \cap alive)
            /\ UNCHANGED <<flags, idle>>
       ELSE /\ idle' = [idle EXCEPT ![h[1]] = Append(@, handler[h].b)]
            /\ Resolve(h, handler[h].ok)
            /\ UNCHANGED closing
    /\ UNCHANGED <<outerVars, brokerVars, linkVars, running,
                   cancelAcks, alive, timers, faults>>

SurplusClosed(h) ==
    /\ At(h, "surplus") /\ Browser(h) \notin alive
    /\ Resolve(h, handler[h].ok)
    /\ UNCHANGED <<outerVars, brokerVars, linkVars, running,
                   cancelAcks, browserVars, faults>>

\* The broker has persisted the result: waitForConfirms resolves, ack is sent.
Confirm(h) ==
    /\ At(h, "confirming") /\ handler[h].live
    /\ results' = [results EXCEPT ![Test(h)] = @ + 1]
    /\ Goto(h, "acking")
    /\ UNCHANGED <<outerVars, queue, dead, linkVars, memoryVars, browserVars, faults>>

\* The channel closed first; the result may have been persisted nevertheless.
ConfirmFails(h) ==
    /\ At(h, "confirming") /\ ~handler[h].live
    /\ results' \in {results, [results EXCEPT ![Test(h)] = @ + 1]}
    /\ Throw(h)
    /\ UNCHANGED <<outerVars, queue, dead, linkVars, memoryVars,
                   browserVars, faults>>

\* What the retries of S add to client-tests and to the dead letters.
Requeued(S) ==
    [m \in Messages |->
        queue[m] + Cardinality({h \in S : m = <<Test(h), handler[h].k + 1>>})]

\* Mutant: after the last attempt nothing is published.
BuriedNever(S) == dead

Buried(S) ==
    [t \in Tests |->
        dead[t] + Cardinality({h \in S : Test(h) = t /\ handler[h].k = MaxRetries})]

\* The broker has read the frames of an invocation that is over.
FramesRead(h) ==
    /\ handler[h].pc \in SentSteps
    /\ handler' = [handler EXCEPT ![h] = IdleHandler]
    /\ LET retried == {g \in {h} : At(g, "retrying")} IN
       queue' = Requeued(retried) /\ dead' = Buried(retried)
    /\ UNCHANGED <<outerVars, results, linkVars, memoryVars, browserVars, faults>>

-----------------------------------------------------------------------------
(* worker-client: cancels, timers and browsers *)

\* Mutant: browser.close() whether or not the test has a browser here.
ReceiveCancelUnchecked(r, t) ==
    LET b == running[r][t] IN
    /\ t \in signals[r]
    /\ signals' = [signals EXCEPT ![r] = @ \ {t}]
    /\ flags' = [flags EXCEPT ![r] = @ \cup {t}]
    /\ closing' = closing \cup {<<r, b>>}
    /\ cancelAcks' = cancelAcks \cup {<<r, b, TRUE>>}
    /\ UNCHANGED <<outerVars, brokerVars, link, leaving, handler, running, alive,
                   idle, timers, faults>>

\* The flag is raised whether or not the test is here; browser.close() is
\* awaited before the signal is acknowledged.
ReceiveCancel(r, t) ==
    LET b == running[r][t] IN
    /\ t \in signals[r]
    /\ signals' = [signals EXCEPT ![r] = @ \ {t}]
    /\ flags' = [flags EXCEPT ![r] = @ \cup {t}]
    /\ IF <<r, b>> \in alive
       THEN closing' = closing \cup {<<r, b>>} /\ cancelAcks' = cancelAcks \cup {<<r, b, TRUE>>}
       ELSE UNCHANGED <<closing, cancelAcks>>
    /\ UNCHANGED <<outerVars, brokerVars, link, leaving, handler, running, alive,
                   idle, timers, faults>>

TimerFires(r, b) ==
    /\ <<r, b>> \in timers
    /\ timers' = timers \ {<<r, b>>}
    /\ closing' = closing \cup ({<<r, b>>} \cap alive)
    /\ UNCHANGED <<outerVars, brokerVars, linkVars, handler, memoryVars, alive, idle, faults>>

Inject(kind) ==
    /\ kind \in FaultKinds
    /\ faults < MaxFaults
    /\ faults' = faults + 1

\* A browser process ends: it was told to, or it crashed.
BrowserGone(r, b) ==
    /\ <<r, b>> \in alive
    /\ \/ <<r, b>> \in closing /\ UNCHANGED faults
       \/ <<r, b>> \notin closing /\ Inject("browser")
    /\ alive' = alive \ {<<r, b>>}
    /\ closing' = closing \ {<<r, b>>}
    /\ UNCHANGED <<outerVars, brokerVars, linkVars, handler, memoryVars, idle, timers>>

-----------------------------------------------------------------------------
(* Connections and processes *)

\* What the broker sees of the channels of r ending: frames of 'sent' arrived
\* before, results of 'kept' were persisted; what is unacknowledged is ready
\* again, and the exclusive cancel queue is gone.
ChannelEnds(r, sent, kept) ==
    /\ queue' = [m \in Messages |->
                   Requeued(sent)[m]
                   + Cardinality({h \in Of(r) : Holds(h) /\ m = <<Test(h), handler[h].k>>})]
    /\ dead' = Buried(sent)
    /\ results' = [t \in Tests |-> results[t] + Cardinality({h \in kept : Test(h) = t})]
    /\ signals' = [signals EXCEPT ![r] = {}]

Retrying(r)   == {h \in Of(r) : At(h, "retrying")}
Confirming(r) == {h \in Of(r) : At(h, "confirming") /\ handler[h].live}

\* The handlers of r once their channel is gone: those that were over are over.
Severed(r) ==
    [h \in Handlers |->
        IF h[1] # r THEN handler[h]
        ELSE IF handler[h].pc \in SentSteps THEN IdleHandler
        ELSE [handler[h] EXCEPT !.live = FALSE]]

\* A connection lost with its channel, or a channel the broker closed: the
\* 'close' event of the connection reconnects, the channel's 'error' does not.
Disconnect(r) ==
    /\ Listening(r)
    /\ \/ Inject("disconnect") /\ link' = [link EXCEPT ![r] = "down"]
       \/ Inject("channel") /\ link' = [link EXCEPT ![r] = "deaf"]
    /\ \E sent \in SUBSET Retrying(r) : ChannelEnds(r, sent, {})
    /\ handler' = Severed(r)
    /\ cancelAcks' = {IF a[1] = r THEN <<r, a[2], FALSE>> ELSE a : a \in cancelAcks}
    /\ UNCHANGED <<outerVars, leaving, running, flags, browserVars>>

\* Mutant: nobody reconnects.
ReconnectNever(r) == r \in {} /\ UNCHANGED vars

\* scheduleReconnect runs start() again, which consumes, shutdown or not.
Reconnect(r) ==
    /\ link[r] = "down"
    /\ link' = [link EXCEPT ![r] = "consuming"]
    /\ UNCHANGED <<outerVars, brokerVars, leaving, signals, handler, memoryVars,
                   browserVars, faults>>

\* The process ends and another takes its place; its browsers end with it.
StopProcess(r) ==
    /\ \E sent \in SUBSET Retrying(r), kept \in SUBSET Confirming(r) :
          ChannelEnds(r, sent, kept)
    /\ link' = [link EXCEPT ![r] = "down"]
    /\ leaving' = [leaving EXCEPT ![r] = "no"]
    /\ handler' = [h \in Handlers |-> IF h[1] = r THEN IdleHandler ELSE handler[h]]
    /\ running' = [running EXCEPT ![r] = [t \in Tests |-> NoBrowser]]
    /\ flags' = [flags EXCEPT ![r] = {}]
    /\ cancelAcks' = {a \in cancelAcks : a[1] # r}
    /\ alive' = {p \in alive : p[1] # r}
    /\ closing' = {p \in closing : p[1] # r}
    /\ timers' = {p \in timers : p[1] # r}
    /\ idle' = [idle EXCEPT ![r] = <<>>]
    /\ UNCHANGED outerVars

Crash(r) == Inject("crash") /\ StopProcess(r)

\* A rejection that nobody handles ends a Node process.
Die(r) ==
    /\ \E h \in Of(r) : At(h, "rejected")
    /\ StopProcess(r)
    /\ UNCHANGED faults

\* The signal is acknowledged when close() returns; on a channel that is gone
\* the ack throws, and nobody handles that.
CancelClosed(r, b) ==
    /\ <<r, b>> \notin alive
    /\ \/ /\ <<r, b, TRUE>> \in cancelAcks
          /\ cancelAcks' = cancelAcks \ {<<r, b, TRUE>>}
          /\ UNCHANGED <<outerVars, brokerVars, linkVars, handler, running, flags,
                         browserVars, faults>>
       \/ <<r, b, FALSE>> \in cancelAcks /\ StopProcess(r) /\ UNCHANGED faults

\* SIGTERM: channel.cancel stops deliveries on this channel.
Shutdown(r) ==
    /\ leaving[r] = "no"
    /\ Inject("shutdown")
    /\ leaving' = [leaving EXCEPT ![r] = "draining"]
    /\ link' = [link EXCEPT ![r] = IF @ = "consuming" THEN "cancelled" ELSE @]
    /\ UNCHANGED <<outerVars, brokerVars, signals, handler, memoryVars, browserVars>>

\* inFlightMessages is 0, or DRAIN_TIMEOUT_MS is over: the channel is closed
\* after its last frames, and the connection, whose 'close' event reconnects.
Drained(r) ==
    /\ leaving[r] = "draining"
    /\ \A h \in Of(r) : handler[h].pc \notin SentSteps
    /\ leaving' = [leaving EXCEPT ![r] = "exiting"]
    /\ IF Listening(r)
       THEN /\ link' = [link EXCEPT ![r] = "down"]
            /\ ChannelEnds(r, {}, {})
            /\ handler' = Severed(r)
            /\ cancelAcks' = {IF a[1] = r THEN <<r, a[2], FALSE>> ELSE a : a \in cancelAcks}
       ELSE UNCHANGED <<link, brokerVars, signals, handler, cancelAcks>>
    /\ UNCHANGED <<outerVars, running, flags, browserVars, faults>>

\* process.exit(0), after shutdownTracing.
Exit(r) ==
    /\ leaving[r] = "exiting"
    /\ StopProcess(r)
    /\ UNCHANGED faults

-----------------------------------------------------------------------------
HandlerStep(h) ==
    \/ Launch(h) \/ LaunchFails(h) \/ Prepare(h)
    \/ Sample(h) \/ RunFails(h) \/ RunSucceeds(h)
    \/ Release(h) \/ SurplusClosed(h)
    \/ Confirm(h) \/ ConfirmFails(h) \/ FramesRead(h)

Deliveries(r) == \E t \in Tests, k \in 0..MaxRetries : Deliver(r, t, k)

Next ==
    \/ \E t \in Tests :
          \/ Submit(t) \/ Cancel(t) \/ StoreResult(t)
    \/ \E h \in Handlers : HandlerStep(h)
    \/ \E r \in Replicas :
          \/ Deliveries(r)
          \/ \E t \in Tests : ReceiveCancel(r, t)
          \/ \E b \in Browsers : TimerFires(r, b) \/ BrowserGone(r, b) \/ CancelClosed(r, b)
          \/ Disconnect(r) \/ Reconnect(r) \/ Crash(r) \/ Die(r)
          \/ Shutdown(r) \/ Drained(r) \/ Exit(r)

Spec == Init /\ [][Next]_vars

\* Event loops, the broker, timers and closing browsers go on by themselves.
Fairness ==
    /\ \A t \in Tests : WF_vars(StoreResult(t))
    /\ \A h \in Handlers : WF_vars(HandlerStep(h))
    /\ \A r \in Replicas :
          /\ WF_vars(Deliveries(r)) /\ WF_vars(Reconnect(r)) /\ WF_vars(Die(r))
          /\ WF_vars(Drained(r)) /\ WF_vars(Exit(r))
          /\ \A t \in Tests : WF_vars(ReceiveCancel(r, t))
          /\ \A b \in Browsers :
                /\ WF_vars(TimerFires(r, b)) /\ WF_vars(CancelClosed(r, b))
                /\ WF_vars(<<r, b>> \in closing /\ BrowserGone(r, b))

FairSpec == Spec /\ Fairness

-----------------------------------------------------------------------------
(* What must hold *)

InPool(r, b) == \E i \in DOMAIN idle[r] : idle[r][i] = b
Holders(r, b) == {h \in Of(r) : handler[h].b = b}

\* A pooled browser is checked out to one test at a time: never to two
\* invocations, never while it is still in the idle list, and the list never
\* holds it twice or more browsers than tests can run (browserPool.ts 7-13, 33).
BrowsersExclusive ==
    \A r \in Replicas :
        /\ Len(idle[r]) <= Concurrency
        /\ \A i, j \in DOMAIN idle[r] : i # j => idle[r][i] # idle[r][j]
        /\ \A b \in Browsers :
              /\ Cardinality(Holders(r, b)) <= 1
              /\ InPool(r, b) => Holders(r, b) = {}

\* No Chrome process is forgotten: one that lives is idle, in use, on its way
\* out, or will meet its kill timer, also when a run was abandoned between
\* acquire() and its try block (runner.ts 142-165, 411-416).
NoOrphanBrowser ==
    \A p \in alive : \/ InPool(p[1], p[2]) \/ Holders(p[1], p[2]) # {}
                     \/ p \in closing \/ p \in timers

\* A cancel closes its own test's browser or none: an entry of runningBrowsers
\* that outlived its run never names a browser another test works with
\* (index.ts 147-150, runner.ts 144 and 414).
CancelHitsItsOwn ==
    \A r \in Replicas, t \in Tests :
        LET b == running[r][t] IN
        b # NoBrowser =>
            /\ \A h \in Holders(r, b) : Test(h) = t
            /\ ~InPool(r, b)

HasCopies(t) == \/ \E k \in 0..MaxRetries : queue[<<t, k>>] > 0
                \/ \E h \in Handlers : Test(h) = t /\ Holds(h)

\* Without faults, a replica that was told of a cancel forgets it only when the
\* test is over: no retry is left that would run it and publish its result
\* (index.ts 143-146 and 188-193).
FlagOutlivesTest ==
    faults = 0 =>
        \A r \in Replicas, t \in Tests :
            /\ t \in cancels
            /\ t \notin signals[r] \cup flags[r]
            => ~ \E h \in Handlers : Test(h) = t /\ Holds(h) /\ handler[h].pc # "acking"

\* An accepted test that nobody cancelled is queued, in hand, has a result that
\* is stored or on its way, or is a dead letter, whichever process or connection
\* went down, by accident or by a scale-down (index.ts 204-222, 275-294).
NothingLost ==
    \A t \in accepted :
        t \notin cancels =>
            HasCopies(t) \/ results[t] > 0 \/ t \in stored \/ dead[t] > 0

\* A queued browser test is dealt with: a run ends whatever its page does,
\* because the kill timer closes its browser and a closed browser ends it.  The
\* exception is a replica whose channel, but not its connection, was closed: it
\* never consumes again (index.ts 103-114).
TestsEnd ==
    \A t \in Tests :
        t \in accepted ~> \/ t \in stored \cup cancels \/ dead[t] > 0
                          \/ \E r \in Replicas : link[r] = "deaf"
=============================================================================
