----------------------- MODULE BackendPipeline_proofs -----------------------
(***************************************************************************)
(* Theorems about BackendPipeline, for every set of tests, replicas and    *)
(* slots, every prefetch, every retry limit and every number of faults.    *)
(***************************************************************************)
EXTENDS BackendPipeline, FiniteSetTheorems, TLAPS

\* A set of handlers can be counted.
LEMMA HandlerCount ==
    ASSUME NEW S \in SUBSET Handlers
    PROVE  IsFiniteSet(S) /\ Cardinality(S) \in Nat
<1>1. IsFiniteSet(Handlers)
  BY FS_Product, ConstantsAssumption DEF Handlers
<1>2. IsFiniteSet(S)
  BY <1>1, FS_Subset
<1> QED
  BY <1>2, FS_CardinalityType

\* Every statement of the store turns a row into a row.
LEMMA StatementsKeepRow ==
    ASSUME NEW x \in Row, NEW permitted \in BOOLEAN
    PROVE  /\ InsertPending(x) \in Row
           /\ MarkRunning(x) \in Row
           /\ MarkFailed(x) \in Row
           /\ MarkCancelled(x, permitted) \in Row
           /\ UpsertResult(x) \in Row
           /\ SweepStale(x) \in Row
BY DEF Row, Active, Terminal, InsertPending, MarkRunning, MarkFailed,
       MarkCancelled, UpsertResult, SweepStale

\* A handler's message, its republication and a result are messages.
LEMMA MessageTypes ==
    ASSUME TypeOK, NEW t \in Tests, NEW k \in 0..MaxRetries
    PROVE  /\ Msg("tests", t, k) \in Messages
           /\ Msg("results", t, k) \in Messages
           /\ Msg("tests.dlq", t, k) \in Messages
           /\ Msg("results.dlq", t, k) \in Messages
           /\ 0 \in 0..MaxRetries
BY ConstantsAssumption DEF Msg, Messages, Queues, DLQs

LEMMA RepublishedType ==
    ASSUME TypeOK, NEW h \in Handlers, handler[h].pc # "idle"
    PROVE  Republished(h) \in Messages
<1>1. Test(h) \in Tests /\ handler[h].k \in 0..MaxRetries
  BY DEF TypeOK, HandlersTyped, HandlerState, Test
<1>2. CASE handler[h].k < MaxRetries
  <2>1. handler[h].k + 1 \in 0..MaxRetries
    BY <1>1, <1>2, ConstantsAssumption
  <2> QED
    BY <1>1, <1>2, <2>1, MessageTypes DEF Republished
<1>3. CASE ~(handler[h].k < MaxRetries)
  BY <1>1, <1>3, MessageTypes DEF Republished
<1> QED
  BY <1>2, <1>3

\* Both updates of a bag of messages give a bag of messages.
LEMMA BagTypes ==
    ASSUME NEW bag \in [Messages -> Nat], NEW m \in Messages
    PROVE  /\ Enqueue(bag, m) \in [Messages -> Nat]
           /\ bag[m] > 0 => Dequeue(bag, m) \in [Messages -> Nat]
BY DEF Enqueue, Dequeue

\* A handler in use may go to any step, or become free.
LEMMA HandlerUpdates ==
    ASSUME HandlersTyped(handler), NEW h \in Handlers, handler[h].pc # "idle"
    PROVE  /\ \A p \in Steps : Goto(h, p) \/ AckOr(h, p) => HandlersTyped(handler')
           /\ \A b \in BOOLEAN :
                handler' = [handler EXCEPT ![h].pc = "exited", ![h].metrics = b]
                    => HandlersTyped(handler')
<1> USE ConstantsAssumption DEF HandlersTyped, HandlerState
<1>1. ASSUME NEW p \in Steps, Goto(h, p)
      PROVE  HandlersTyped(handler')
  BY <1>1 DEF Goto
<1>2. ASSUME NEW p \in Steps, AckOr(h, p)
      PROVE  HandlersTyped(handler')
  <2>1. CASE handler' = [handler EXCEPT ![h] = IdleHandler]
    BY <2>1 DEF IdleHandler
  <2>2. CASE handler' = [handler EXCEPT ![h].pc = p]
    BY <1>2, <2>2
  <2> QED
    BY <1>2, <2>1, <2>2 DEF AckOr
<1>3. ASSUME NEW b \in BOOLEAN,
             handler' = [handler EXCEPT ![h].pc = "exited", ![h].metrics = b]
      PROVE  HandlersTyped(handler')
  <2> DEFINE new == [handler[h] EXCEPT !.pc = "exited", !.metrics = b]
  <2>1. new \in HandlerState /\ new.t = handler[h].t
    BY <1>3 DEF Steps
  <2>2. handler' = [handler EXCEPT ![h] = new]
    BY <1>3
  <2> HIDE DEF new, HandlerState
  <2> QED
    BY <2>1, <2>2
<1> QED
  BY <1>1, <1>2, <1>3

LEMMA ReturnedTypes ==
    ASSUME TypeOK, NEW S \in SUBSET Handlers,
           NEW bag \in [Messages -> Nat]
    PROVE  /\ GiveBack(S) \in [Messages -> Nat]
           /\ ReturnResult(bag) \in [Messages -> Nat]
<1>1. ASSUME NEW m \in Messages
      PROVE  ready[m] + Cardinality({h \in S : /\ Holds(h)
                                        /\ m = Msg("tests", Test(h), handler[h].k)}) \in Nat
  <2> DEFINE B == {h \in S : /\ Holds(h)
                             /\ m = Msg("tests", Test(h), handler[h].k)}
  <2>1. B \in SUBSET Handlers
    OBVIOUS
  <2>2. Cardinality(B) \in Nat
    BY <2>1, HandlerCount
  <2>3. ready[m] \in Nat
    BY DEF TypeOK
  <2> QED
    BY <2>2, <2>3
<1>2. GiveBack(S) \in [Messages -> Nat]
  BY <1>1 DEF GiveBack
<1>3. ReturnResult(bag) \in [Messages -> Nat]
  <2>1. CASE consumer.pc = "idle"
    BY <2>1 DEF ReturnResult
  <2>2. CASE consumer.pc # "idle"
    <3>1. Msg("results", consumer.t, consumer.k) \in Messages
      BY <2>2, MessageTypes DEF TypeOK
    <3> QED
      BY <2>2, <3>1, BagTypes DEF ReturnResult
  <2> QED
    BY <2>1, <2>2
<1> QED
  BY <1>2, <1>3

LEMMA TypeInit == Init => TypeOK
BY ConstantsAssumption
   DEF Init, TypeOK, HandlersTyped, Row, NoRow, HandlerState, IdleHandler, IdleConsumer, Active, Terminal

LEMMA RowUpdates ==
    ASSUME TypeOK, NEW t \in Tests, NEW x \in Row
    PROVE  /\ Update(t, x) => row' \in [Tests -> Row]
           /\ BestEffort(t, x) => row' \in [Tests -> Row]
BY DEF TypeOK, Update, BestEffort

\* What the type says of a handler that is in use.
LEMMA HandlerInUse ==
    ASSUME TypeOK, NEW h \in Handlers, handler[h].pc # "idle"
    PROVE  /\ handler[h].t \in Tests /\ handler[h].k \in 0..MaxRetries
           /\ h[1] \in Replicas /\ h[2] \in Slots
           /\ row[handler[h].t] \in Row
BY DEF TypeOK, HandlersTyped, HandlerState, Handlers

\* TypeOK is preserved by every step, one lemma for each group of actions.
LEMMA TypeApi ==
    ASSUME TypeOK, NEW t \in Tests,
           \/ Submit(t) \/ ApiStep(t) \/ Cancel(t) \/ PublishCancel(t)
           \/ PendingArrives(t) \/ RunningArrives(t) \/ Sweep(t) \/ LateSave(t)
    PROVE  TypeOK'
<1> USE StatementsKeepRow, MessageTypes, BagTypes, ConstantsAssumption
<1> USE DEF TypeOK, apiVars, brokerVars, workerVars, resultVars
<1>1. CASE Submit(t)
  BY <1>1 DEF Submit
<1>2. CASE Dispatch(t)
  BY <1>2 DEF Dispatch
<1>3. CASE DispatchFails(t)
  BY <1>3 DEF DispatchFails
<1>4. CASE Cancel(t)
  BY <1>4 DEF Cancel, Update
<1>5. CASE PublishCancel(t)
  <2>1. signals' \in [Replicas -> SUBSET Tests]
    <3>1. signals \in [Replicas -> SUBSET Tests]
      OBVIOUS
    <3>2. CASE UNCHANGED signals
      BY <3>1, <3>2
    <3>3. CASE signals' = [r \in Replicas |->
                             IF r \in connected THEN signals[r] \cup {t} ELSE signals[r]]
      BY <3>1, <3>3
    <3> QED
      BY <1>5, <3>2, <3>3 DEF PublishCancel
  <2> QED
    BY <1>5, <2>1 DEF PublishCancel
<1>6. CASE PendingArrives(t)
  <2>1. row' \in [Tests -> Row]
    BY <1>6, RowUpdates DEF PendingArrives
  <2> QED
    BY <1>6, <2>1 DEF PendingArrives
<1>7. CASE RunningArrives(t)
  <2>1. row' \in [Tests -> Row]
    BY <1>7, RowUpdates DEF RunningArrives
  <2>2. runningCalls' \in [Tests -> Nat]
    BY <1>7 DEF RunningArrives
  <2> QED
    BY <1>7, <2>1, <2>2 DEF RunningArrives
<1>8. CASE Sweep(t)
  BY <1>8 DEF Sweep, Update
<1>9. CASE LateSave(t)
  <2>1. row' \in [Tests -> Row]
    BY <1>9, RowUpdates DEF LateSave
  <2>2. ready' \in [Messages -> Nat]
    BY <1>9, ReturnedTypes DEF LateSave
  <2> QED
    BY <1>9, <2>1, <2>2 DEF LateSave, IdleConsumer
<1> QED
  BY <1>1, <1>2, <1>3, <1>4, <1>5, <1>6, <1>7, <1>8, <1>9 DEF ApiStep

LEMMA TypeHandler ==
    ASSUME TypeOK, NEW h \in Handlers, HandlerStep(h) \/ ConfirmFails(h)
    PROVE  TypeOK'
<1> USE HandlerInUse, HandlerUpdates
<1> USE DEF TypeOK, apiVars, brokerVars, workerVars, resultVars, Steps, At, Test
<1>1. CASE CheckStatus(h)
  <2>1. HandlersTyped(handler')
    BY <1>1 DEF CheckStatus
  <2> QED
    BY <1>1, <2>1 DEF CheckStatus
<1>2. CASE LaunchFails(h)
  BY <1>2 DEF LaunchFails
<1>3. CASE Spawn(h)
  <2>1. HandlersTyped(handler')
    BY <1>3 DEF Spawn
  <2>2. procs' \in [Replicas -> [Tests -> Slots \cup {NoSlot}]]
    BY <1>3 DEF Spawn
  <2>3. runningCalls' \in [Tests -> Nat]
    BY <1>3 DEF Spawn
  <2> QED
    BY <1>3, <2>1, <2>2, <2>3 DEF Spawn
<1>4. CASE K6Exits(h)
  <2>1. HandlersTyped(handler')
    BY <1>4 DEF K6Exits
  <2>2. procs' \in [Replicas -> [Tests -> Slots \cup {NoSlot}]]
    BY <1>4 DEF K6Exits
  <2> QED
    BY <1>4, <2>1, <2>2 DEF K6Exits
<1>5. CASE RunResolves(h)
  BY <1>5 DEF RunResolves
<1>6. CASE RunThrows(h)
  BY <1>6 DEF RunThrows
<1>7. CASE PublishResult(h)
  <2>1. HandlersTyped(handler')
    BY <1>7 DEF PublishResult
  <2>2. fresh' \in [Messages -> Nat]
    <3>1. Msg("results", Test(h), 0) \in Messages
      BY <1>7, MessageTypes DEF PublishResult
    <3> QED
      BY <1>7, <3>1, BagTypes DEF PublishResult
  <2> QED
    BY <1>7, <2>1, <2>2 DEF PublishResult
<1>8. CASE SaveScriptFails(h)
  BY <1>8 DEF SaveScriptFails
<1>9. CASE Acknowledge(h)
  <2>1. HandlersTyped(handler')
    BY <1>9 DEF Acknowledge
  <2> QED
    BY <1>9, <2>1 DEF Acknowledge
<1>10. CASE NotifyCancelled(h)
  <2>1. HandlersTyped(handler')
    BY <1>10 DEF NotifyCancelled
  <2>2. row' \in [Tests -> Row]
    BY <1>10, RowUpdates, StatementsKeepRow DEF NotifyCancelled
  <2> QED
    BY <1>10, <2>1, <2>2 DEF NotifyCancelled
<1>11. CASE NotifyFailed(h)
  <2>1. HandlersTyped(handler')
    BY <1>11 DEF NotifyFailed
  <2>2. row' \in [Tests -> Row]
    BY <1>11, RowUpdates, StatementsKeepRow DEF NotifyFailed
  <2> QED
    BY <1>11, <2>1, <2>2 DEF NotifyFailed
<1>12. CASE Retry(h)
  <2>1. HandlersTyped(handler')
    BY <1>12 DEF Retry
  <2>2. fresh' \in [Messages -> Nat]
    BY <1>12, RepublishedType, BagTypes DEF Retry
  <2> QED
    BY <1>12, <2>1, <2>2 DEF Retry
<1>13. CASE ConfirmFails(h)
  BY <1>13 DEF ConfirmFails
<1> QED
  BY <1>1, <1>2, <1>3, <1>4, <1>5, <1>6, <1>7, <1>8, <1>9, <1>10, <1>11, <1>12, <1>13
     DEF HandlerStep

LEMMA TypeWorkerBroker ==
    ASSUME TypeOK,
           \/ Deliveries
           \/ \E m \in Messages : Persist(m)
           \/ \E r \in Replicas, t \in Tests : ReceiveCancel(r, t)
    PROVE  TypeOK'
<1> USE DEF apiVars, brokerVars, workerVars, resultVars
<1>1. ASSUME NEW r \in Replicas, NEW m \in Messages, Deliver(r, m)
      PROVE  TypeOK'
  <2> DEFINE h == CHOOSE g \in IdleOf(r) : TRUE
             new == [pc |-> "received", t |-> m.t, k |-> m.k,
                     live |-> TRUE, metrics |-> FALSE]
  <2>1. h \in Handlers
    BY <1>1 DEF Deliver, IdleOf, Of
  <2>2. new \in HandlerState /\ m.t \in Tests
    BY DEF HandlerState, Steps, Messages
  <2>3. handler' = [handler EXCEPT ![h] = new]
    BY <1>1 DEF Deliver
  <2>4. HandlersTyped(handler')
    BY <2>1, <2>2, <2>3 DEF TypeOK, HandlersTyped
  <2>5. ready' \in [Messages -> Nat]
    BY <1>1, BagTypes DEF Deliver, TypeOK
  <2> QED
    BY <1>1, <2>4, <2>5 DEF Deliver, TypeOK
<1>2. ASSUME NEW m \in Messages, Persist(m)
      PROVE  TypeOK'
  <2>1. ready' \in [Messages -> Nat] /\ fresh' \in [Messages -> Nat]
    BY <1>2, BagTypes DEF Persist, TypeOK
  <2>2. HandlersTyped(handler')
    <3>1. CASE UNCHANGED handler
      BY <3>1 DEF TypeOK
    <3>2. ASSUME NEW h \in Handlers, At(h, "confirming"), Goto(h, "acking")
          PROVE  HandlersTyped(handler')
      BY <3>2, HandlerUpdates DEF TypeOK, Steps, At
    <3> QED
      BY <1>2, <3>1, <3>2 DEF Persist
  <2> QED
    BY <1>2, <2>1, <2>2 DEF Persist, TypeOK
<1>3. ASSUME NEW r \in Replicas, NEW t \in Tests, ReceiveCancel(r, t)
      PROVE  TypeOK'
  BY <1>3 DEF ReceiveCancel, TypeOK
<1> QED
  BY <1>1, <1>2, <1>3 DEF Deliveries

LEMMA TypeConsumer == ASSUME TypeOK, ConsumerStep PROVE TypeOK'
<1> USE DEF TypeOK, apiVars, brokerVars, workerVars
<1> USE ConstantsAssumption, MessageTypes, BagTypes
<1>1. ASSUME NEW t \in Tests, NEW k \in 0..MaxRetries, TakeResult(t, k)
      PROVE  TypeOK'
  BY <1>1 DEF TakeResult
<1>2. CASE SaveResult
  <2>1. row' \in [Tests -> Row]
    BY <1>2, RowUpdates, StatementsKeepRow DEF SaveResult
  <2> QED
    BY <1>2, <2>1 DEF SaveResult
<1>3. CASE SaveResultFails
  <2> DEFINE m == IF consumer.k < MaxRetries
                  THEN Msg("results", consumer.t, consumer.k + 1)
                  ELSE Msg("results.dlq", consumer.t, consumer.k)
  <2>1. consumer.t \in Tests /\ consumer.k \in 0..MaxRetries
    BY <1>3 DEF SaveResultFails
  <2>2. consumer.k < MaxRetries => consumer.k + 1 \in 0..MaxRetries
    BY <2>1
  <2>3. m \in Messages
    BY <2>1, <2>2, MessageTypes
  <2>4. fresh' = Enqueue(fresh, m)
    BY <1>3 DEF SaveResultFails
  <2>5. fresh' \in [Messages -> Nat]
    BY <2>3, <2>4
  <2> QED
    BY <1>3, <2>5 DEF SaveResultFails, IdleConsumer
<1>4. CASE AckResult
  BY <1>4 DEF AckResult, IdleConsumer
<1> QED
  BY <1>1, <1>2, <1>3, <1>4 DEF ConsumerStep

LEMMA CutOffTypes ==
    ASSUME TypeOK, NEW R \in SUBSET Replicas, CutOff(R)
    PROVE  connected' \subseteq Replicas /\ signals' \in [Replicas -> SUBSET Tests]
BY DEF CutOff, TypeOK

LEMMA TypeStopProcess ==
    ASSUME TypeOK, NEW r \in Replicas, StopProcess(r), faults' \in 0..MaxFaults
    PROVE  TypeOK'
<1>1. connected' \subseteq Replicas /\ signals' \in [Replicas -> SUBSET Tests]
  BY CutOffTypes DEF StopProcess
<1>2. ready' \in [Messages -> Nat]
  <2>1. Of(r) \in SUBSET Handlers
    BY DEF Of
  <2> QED
    BY <2>1, ReturnedTypes DEF StopProcess, TypeOK
<1>3. HandlersTyped(handler')
  BY ConstantsAssumption
     DEF StopProcess, TypeOK, HandlersTyped, HandlerState, IdleHandler
<1>4. /\ procs' \in [Replicas -> [Tests -> Slots \cup {NoSlot}]]
      /\ cancelled' \in [Replicas -> SUBSET Tests]
  BY DEF StopProcess, TypeOK
<1> QED
  BY <1>1, <1>2, <1>3, <1>4 DEF StopProcess, TypeOK, apiVars, resultVars

\* A fault frees a handler or takes its delivery away.
LEMMA HandlerResets ==
    ASSUME TypeOK, NEW h \in Handlers
    PROVE  /\ IdleHandler \in HandlerState /\ IdleHandler.pc = "idle"
           /\ [handler[h] EXCEPT !.live = FALSE] \in HandlerState
           /\ [handler[h] EXCEPT !.live = FALSE].pc = handler[h].pc
           /\ [handler[h] EXCEPT !.live = FALSE].t = handler[h].t
<1>1. handler[h] \in HandlerState
  BY DEF TypeOK, HandlersTyped
<1>2. IdleHandler \in HandlerState /\ IdleHandler.pc = "idle"
  BY ConstantsAssumption DEF HandlerState, IdleHandler
<1> QED
  BY <1>1, <1>2 DEF HandlerState

LEMMA FaultCount ==
    ASSUME TypeOK, NEW kind, Inject(kind)
    PROVE  faults' \in 0..MaxFaults
BY ConstantsAssumption DEF TypeOK, Inject

LEMMA TypeDisconnect ==
    ASSUME TypeOK, NEW r \in Replicas, Disconnect(r)
    PROVE  TypeOK'
<1>1. connected' \subseteq Replicas /\ signals' \in [Replicas -> SUBSET Tests]
  BY CutOffTypes DEF Disconnect
<1>2. ready' \in [Messages -> Nat]
  <2>1. Of(r) \in SUBSET Handlers
    BY DEF Of
  <2> QED
    BY <2>1, ReturnedTypes DEF Disconnect, TypeOK
<1>3. HandlersTyped(handler') /\ fresh' \in [Messages -> Nat]
  <2>1. ASSUME NEW cut \in SUBSET Handlers
        PROVE  HandlersTyped(Severed(r, cut))
    BY <2>1, HandlerResets DEF TypeOK, HandlersTyped, Severed
  <2>2. ASSUME NEW sent \in SUBSET Handlers, NEW dropped \in SUBSET Unconfirmed(r)
        PROVE  Arrived(sent, dropped) \in [Messages -> Nat]
    <3>1. ASSUME NEW m \in Messages
          PROVE  (IF m \in dropped THEN fresh[m] - 1 ELSE fresh[m])
                   + Cardinality({h \in sent : m = Republished(h)}) \in Nat
      <4>1. {h \in sent : m = Republished(h)} \in SUBSET Handlers
        OBVIOUS
      <4>2. Cardinality({h \in sent : m = Republished(h)}) \in Nat
        BY <4>1, HandlerCount
      <4>3. fresh[m] \in Nat /\ (m \in dropped => fresh[m] > 0)
        BY DEF TypeOK, Unconfirmed
      <4> QED
        BY <4>2, <4>3
    <3> QED
      BY <3>1 DEF Arrived
  <2>3. ASSUME NEW cut \in SUBSET Leaving(r)
        PROVE  cut \in SUBSET Handlers
                 /\ SUBSET {h \in cut : At(h, "retrying")} \subseteq SUBSET Handlers
    BY <2>3 DEF Leaving, Of
  <2> QED
    BY <2>1, <2>2, <2>3 DEF Disconnect
<1>4. faults' \in 0..MaxFaults
  BY FaultCount DEF Disconnect
<1> QED
  BY <1>1, <1>2, <1>3, <1>4 DEF Disconnect, TypeOK, apiVars, resultVars

LEMMA TypeBrokerCrash == ASSUME TypeOK, BrokerCrash PROVE TypeOK'
<1>1. connected' \subseteq Replicas /\ signals' \in [Replicas -> SUBSET Tests]
  BY CutOffTypes DEF BrokerCrash
<1>2. ready' \in [Messages -> Nat]
  <2>1. GiveBack(Handlers) \in [Messages -> Nat]
    BY ReturnedTypes DEF TypeOK
  <2> QED
    BY <2>1, ReturnedTypes DEF BrokerCrash
<1>3. HandlersTyped(handler')
  BY HandlerResets DEF BrokerCrash, TypeOK, HandlersTyped
<1>4. faults' \in 0..MaxFaults
  BY FaultCount DEF BrokerCrash
<1>5. consumer' \in [pc : {"idle", "saving", "saved"},
                     t : Tests \cup {NoTest}, k : 0..MaxRetries]
      /\ (consumer'.pc # "idle" => consumer'.t \in Tests)
      /\ lateSaves' \subseteq Tests
  BY ConstantsAssumption DEF BrokerCrash, TypeOK, IdleConsumer
<1>6. lost' \subseteq Messages /\ fresh' \in [Messages -> Nat]
  BY DEF BrokerCrash, TypeOK
<1> QED
  BY <1>1, <1>2, <1>3, <1>4, <1>5, <1>6 DEF BrokerCrash, TypeOK, apiVars

LEMMA TypeFault ==
    ASSUME TypeOK, Fault \/ \E r \in Replicas : Reconnect(r) \/ Die(r)
    PROVE  TypeOK'
<1>1. ASSUME NEW r \in Replicas, Crash(r)
      PROVE  TypeOK'
  BY <1>1, FaultCount, TypeStopProcess DEF Crash
<1>2. ASSUME NEW r \in Replicas, Die(r)
      PROVE  TypeOK'
  BY <1>2, TypeStopProcess DEF Die, TypeOK
<1>3. ASSUME NEW r \in Replicas, Reconnect(r)
      PROVE  TypeOK'
  BY <1>3 DEF Reconnect, TypeOK, apiVars, brokerVars, resultVars
<1>4. ASSUME NEW h \in Handlers, StatusQueryFails(h)
      PROVE  TypeOK'
  <2>1. HandlersTyped(handler')
    BY <1>4, HandlerUpdates DEF StatusQueryFails, TypeOK, At, Steps
  <2> QED
    BY <1>4, <2>1, FaultCount DEF StatusQueryFails, TypeOK, apiVars, brokerVars, resultVars
<1>5. CASE ConsumerFails
  <2>1. faults' \in 0..MaxFaults
    BY <1>5, FaultCount DEF ConsumerFails
  <2>2. ready' \in [Messages -> Nat]
    BY <1>5, ReturnedTypes DEF ConsumerFails, TypeOK
  <2> QED
    BY <1>5, <2>1, <2>2, ConstantsAssumption
       DEF ConsumerFails, TypeOK, IdleConsumer, apiVars, workerVars
<1> QED
  BY <1>1, <1>2, <1>3, <1>4, <1>5, TypeDisconnect, TypeBrokerCrash DEF Fault

LEMMA TypeStep == TypeOK /\ [Next]_vars => TypeOK'
<1> SUFFICES ASSUME TypeOK, [Next]_vars PROVE TypeOK'
  OBVIOUS
<1>1. CASE UNCHANGED vars
  BY <1>1 DEF vars, apiVars, brokerVars, workerVars, resultVars, TypeOK
<1>2. CASE Next
  BY <1>2, TypeApi, TypeHandler, TypeWorkerBroker, TypeConsumer, TypeFault DEF Next
<1> QED
  BY <1>1, <1>2

\* Every variable keeps its type; in particular no queue ever holds fewer than
\* no messages and no delivery exceeds the retry limit.
THEOREM TypeCorrect == Spec => []TypeOK
<1>1. TypeOK /\ [Next]_vars => TypeOK'
  BY TypeStep
<1> QED
  BY <1>1, TypeInit, PTL DEF Spec

-----------------------------------------------------------------------------
(* The cancel flags.  NoStaleCancelFlag is inductive together with         *)
(* ProcsAlive: a flag is raised for a test that has an entry in            *)
(* runningTests, and the entry is what leads to a handler still under way. *)

CancelInv == ProcsAlive /\ NoStaleCancelFlag

\* A step that leaves both maps and every run under way alone.
RunsKept ==
    /\ UNCHANGED <<procs, cancelled>>
    /\ \A h \in Handlers :
          handler[h].pc \in {"k6", "exited", "caught"} =>
              handler'[h].pc = handler[h].pc /\ handler'[h].t = handler[h].t

LEMMA CancelFrame ==
    ASSUME TypeOK, CancelInv, RunsKept
    PROVE  CancelInv'
<1>1. ASSUME NEW r \in Replicas, NEW t \in Tests, procs[r][t] # NoSlot
      PROVE  <<r, procs[r][t]>> \in Handlers
  BY <1>1 DEF TypeOK, Handlers
<1>2. ProcsAlive'
  BY <1>1 DEF CancelInv, ProcsAlive, RunsKept, At, Test
<1>3. NoStaleCancelFlag'
  BY DEF CancelInv, NoStaleCancelFlag, RunsKept, UnderWay, Of, Test
<1> QED
  BY <1>2, <1>3 DEF CancelInv

\* One handler moves, from a step at which it has no run under way.
LEMMA CancelFrameOne ==
    ASSUME TypeOK, CancelInv, NEW h \in Handlers,
           handler[h].pc \notin {"k6", "exited", "caught"},
           UNCHANGED <<procs, cancelled>>,
           \A g \in Handlers \ {h} : handler'[g] = handler[g]
    PROVE  CancelInv'
<1>1. RunsKept
  BY DEF RunsKept
<1> QED
  BY <1>1, CancelFrame

LEMMA OneHandlerMoves ==
    ASSUME TypeOK, NEW h \in Handlers, NEW p
    PROVE  Goto(h, p) \/ AckOr(h, p) => \A g \in Handlers \ {h} : handler'[g] = handler[g]
BY DEF TypeOK, HandlersTyped, Goto, AckOr

LEMMA CancelHandler ==
    ASSUME TypeOK, CancelInv, NEW h \in Handlers, HandlerStep(h) \/ ConfirmFails(h)
    PROVE  CancelInv'
<1> USE DEF At
<1>a. PICK r \in Replicas, s \in Slots : h = <<r, s>>
  BY DEF Handlers
<1>1. CASE CheckStatus(h)
  BY <1>1, CancelFrameOne, OneHandlerMoves DEF CheckStatus
<1>2. CASE LaunchFails(h)
  BY <1>2, CancelFrameOne, OneHandlerMoves DEF LaunchFails
<1>3. CASE Spawn(h)
  <2>1. handler' = [handler EXCEPT ![h].pc = "k6"] /\ handler[h].pc = "checked"
    BY <1>3 DEF Spawn, Goto
  <2>2. procs' = [procs EXCEPT ![r][Test(h)] = s] /\ UNCHANGED cancelled
    BY <1>3, <1>a DEF Spawn
  <2>3. ProcsAlive'
    <3> SUFFICES ASSUME NEW q \in Replicas, NEW t \in Tests, procs'[q][t] # NoSlot
                 PROVE  /\ handler'[<<q, procs'[q][t]>>].pc = "k6"
                        /\ handler'[<<q, procs'[q][t]>>].t = t
      BY DEF ProcsAlive, Test
    <3>1. CASE q = r /\ t = Test(h)
      <4>1. procs'[q][t] = s
        BY <2>2, <3>1 DEF TypeOK
      <4> QED
        BY <1>a, <2>1, <3>1, <4>1 DEF TypeOK, HandlersTyped, HandlerState, Test
    <3>2. CASE ~(q = r /\ t = Test(h))
      <4>1. procs'[q][t] = procs[q][t]
        BY <2>2, <3>2 DEF TypeOK
      <4>2. <<q, procs[q][t]>> \in Handlers
        BY <4>1 DEF TypeOK, Handlers
      <4>3. handler[<<q, procs[q][t]>>].pc = "k6" /\ handler[<<q, procs[q][t]>>].t = t
        BY <4>1 DEF CancelInv, ProcsAlive, Test
      <4>4. handler'[<<q, procs[q][t]>>] = handler[<<q, procs[q][t]>>]
        BY <2>1, <4>2, <4>3 DEF TypeOK, HandlersTyped
      <4> QED
        BY <4>1, <4>3, <4>4
    <3> QED
      BY <3>1, <3>2
  <2>4. NoStaleCancelFlag'
    <3>1. ASSUME NEW g \in Handlers, handler[g].pc \in {"k6", "exited", "caught"}
          PROVE  handler'[g] = handler[g]
      BY <2>1, <3>1 DEF TypeOK, HandlersTyped
    <3> QED
      BY <2>2, <3>1 DEF CancelInv, NoStaleCancelFlag, UnderWay, Of, Test
  <2> QED
    BY <2>3, <2>4 DEF CancelInv
<1>4. CASE K6Exits(h)
  <2>1. procs' = [procs EXCEPT ![r][Test(h)] = NoSlot] /\ UNCHANGED cancelled
    BY <1>4, <1>a DEF K6Exits
  <2>2. /\ handler[h].pc = "k6"
        /\ \A g \in Handlers \ {h} : handler'[g] = handler[g]
        /\ handler'[h].pc \in {"exited", "caught"} /\ handler'[h].t = handler[h].t
    <3>1. CASE Goto(h, "caught")
      BY <1>4, <3>1 DEF K6Exits, Goto, TypeOK, HandlersTyped, HandlerState
    <3>2. ASSUME NEW b \in BOOLEAN,
                 handler' = [handler EXCEPT ![h].pc = "exited", ![h].metrics = b]
          PROVE  /\ \A g \in Handlers \ {h} : handler'[g] = handler[g]
                 /\ handler'[h].pc = "exited" /\ handler'[h].t = handler[h].t
      BY <3>2 DEF TypeOK, HandlersTyped, HandlerState
    <3> QED
      BY <1>4, <3>1, <3>2 DEF K6Exits
  <2>3. ProcsAlive'
    <3> SUFFICES ASSUME NEW q \in Replicas, NEW t \in Tests, procs'[q][t] # NoSlot
                 PROVE  /\ handler'[<<q, procs'[q][t]>>].pc = "k6"
                        /\ handler'[<<q, procs'[q][t]>>].t = t
      BY DEF ProcsAlive, Test
    <3>1. ~(q = r /\ t = Test(h))
      BY <2>1 DEF TypeOK
    <3>2. procs'[q][t] = procs[q][t]
      BY <2>1, <3>1 DEF TypeOK
    <3>3. <<q, procs[q][t]>> \in Handlers
      BY <3>2 DEF TypeOK, Handlers
    <3>4. handler[<<q, procs[q][t]>>].pc = "k6" /\ handler[<<q, procs[q][t]>>].t = t
      BY <3>2 DEF CancelInv, ProcsAlive, Test
    <3>5. <<q, procs[q][t]>> # h
      BY <1>a, <3>1, <3>4 DEF Test
    <3> QED
      BY <2>2, <3>2, <3>3, <3>4, <3>5
  <2>4. NoStaleCancelFlag'
    BY <2>1, <2>2 DEF CancelInv, NoStaleCancelFlag, UnderWay, Of, Test
  <2> QED
    BY <2>3, <2>4 DEF CancelInv
<1>5. CASE RunResolves(h) \/ RunThrows(h)
  <2>1. /\ handler[h].pc \in {"exited", "caught"}
        /\ cancelled' = [cancelled EXCEPT ![r] = @ \ {Test(h)}]
        /\ UNCHANGED procs
        /\ \A g \in Handlers \ {h} : handler'[g] = handler[g]
    BY <1>5, <1>a, OneHandlerMoves DEF RunResolves, RunThrows
  <2>2. ProcsAlive'
    <3> SUFFICES ASSUME NEW q \in Replicas, NEW t \in Tests, procs[q][t] # NoSlot
                 PROVE  /\ handler'[<<q, procs[q][t]>>].pc = "k6"
                        /\ handler'[<<q, procs[q][t]>>].t = t
      BY <2>1 DEF ProcsAlive, Test
    <3>1. <<q, procs[q][t]>> \in Handlers
      BY DEF TypeOK, Handlers
    <3>2. handler[<<q, procs[q][t]>>].pc = "k6" /\ handler[<<q, procs[q][t]>>].t = t
      BY DEF CancelInv, ProcsAlive, Test
    <3> QED
      BY <2>1, <3>1, <3>2
  <2>3. NoStaleCancelFlag'
    <3> SUFFICES ASSUME NEW q \in Replicas, NEW t \in cancelled'[q]
                 PROVE  UnderWay(q, t)'
      BY DEF NoStaleCancelFlag
    <3>1. t \in cancelled[q] /\ ~(q = r /\ t = Test(h))
      BY <2>1 DEF TypeOK
    <3>2. PICK g \in Of(q) : Test(g) = t /\ handler[g].pc \in {"k6", "exited", "caught"}
      BY <3>1 DEF CancelInv, NoStaleCancelFlag, UnderWay
    <3>3. g # h
      BY <1>a, <3>1, <3>2 DEF Of
    <3> QED
      BY <2>1, <3>2, <3>3 DEF UnderWay, Of, Test
  <2> QED
    BY <2>2, <2>3 DEF CancelInv
<1>6. CASE PublishResult(h) \/ SaveScriptFails(h) \/ ConfirmFails(h)
  BY <1>6, CancelFrameOne, OneHandlerMoves DEF PublishResult, SaveScriptFails, ConfirmFails
<1>7. CASE Acknowledge(h)
  BY <1>7, CancelFrameOne, OneHandlerMoves DEF Acknowledge
<1>8. CASE NotifyCancelled(h) \/ NotifyFailed(h)
  BY <1>8, CancelFrameOne, OneHandlerMoves DEF NotifyCancelled, NotifyFailed
<1>9. CASE Retry(h)
  BY <1>9, CancelFrameOne, OneHandlerMoves DEF Retry
<1> QED
  BY <1>1, <1>2, <1>3, <1>4, <1>5, <1>6, <1>7, <1>8, <1>9 DEF HandlerStep

LEMMA CancelWorkerBroker ==
    ASSUME TypeOK, CancelInv,
           \/ Deliveries
           \/ \E m \in Messages : Persist(m)
           \/ \E r \in Replicas, t \in Tests : ReceiveCancel(r, t)
    PROVE  CancelInv'
<1>1. ASSUME NEW r \in Replicas, NEW m \in Messages, Deliver(r, m)
      PROVE  CancelInv'
  <2> DEFINE h == CHOOSE g \in IdleOf(r) : TRUE
  <2>1. h \in Handlers /\ handler[h].pc = "idle"
    BY <1>1 DEF Deliver, IdleOf, Of
  <2>2. \A g \in Handlers \ {h} : handler'[g] = handler[g]
    BY <1>1, <2>1 DEF Deliver, TypeOK, HandlersTyped
  <2> QED
    BY <1>1, <2>1, <2>2, CancelFrameOne DEF Deliver
<1>2. ASSUME NEW m \in Messages, Persist(m)
      PROVE  CancelInv'
  <2>1. CASE UNCHANGED handler
    BY <1>2, <2>1, CancelFrame DEF Persist, RunsKept
  <2>2. ASSUME NEW h \in Handlers, At(h, "confirming"), Goto(h, "acking")
        PROVE  CancelInv'
    BY <1>2, <2>2, CancelFrameOne, OneHandlerMoves DEF Persist, At
  <2> QED
    BY <1>2, <2>1, <2>2 DEF Persist
<1>3. ASSUME NEW r \in Replicas, NEW t \in Tests, ReceiveCancel(r, t)
      PROVE  CancelInv'
  <2>1. UNCHANGED <<handler, procs>>
    BY <1>3 DEF ReceiveCancel
  <2>2. ProcsAlive'
    BY <2>1 DEF CancelInv, ProcsAlive, At, Test
  <2>3. NoStaleCancelFlag'
    <3> SUFFICES ASSUME NEW q \in Replicas, NEW u \in cancelled'[q]
                 PROVE  UnderWay(q, u)
      BY <2>1 DEF NoStaleCancelFlag, UnderWay, Of, Test
    <3>1. CASE u \in cancelled[q]
      BY <3>1 DEF CancelInv, NoStaleCancelFlag
    <3>2. CASE u \notin cancelled[q]
      <4>1. q = r /\ u = t /\ procs[r][t] # NoSlot
        BY <1>3, <3>2 DEF ReceiveCancel, TypeOK
      <4>2. <<r, procs[r][t]>> \in Of(r)
        BY <4>1 DEF TypeOK, Handlers, Of
      <4> QED
        BY <4>1, <4>2 DEF CancelInv, ProcsAlive, UnderWay, At
    <3> QED
      BY <3>1, <3>2
  <2> QED
    BY <2>2, <2>3 DEF CancelInv
<1> QED
  BY <1>1, <1>2, <1>3 DEF Deliveries

LEMMA CancelStopProcess ==
    ASSUME TypeOK, CancelInv, NEW r \in Replicas, StopProcess(r)
    PROVE  CancelInv'
<1>1. \A h \in Handlers : h[1] # r => handler'[h] = handler[h]
  BY DEF StopProcess
<1>2. \A q \in Replicas : q # r => procs'[q] = procs[q] /\ cancelled'[q] = cancelled[q]
  BY DEF StopProcess, TypeOK
<1>3. (\A t \in Tests : procs'[r][t] = NoSlot) /\ cancelled'[r] = {}
  BY DEF StopProcess, TypeOK
<1>4. ProcsAlive'
  <2> SUFFICES ASSUME NEW q \in Replicas, NEW t \in Tests, procs'[q][t] # NoSlot
               PROVE  /\ handler'[<<q, procs'[q][t]>>].pc = "k6"
                      /\ handler'[<<q, procs'[q][t]>>].t = t
    BY DEF ProcsAlive, At, Test
  <2>1. q # r
    BY <1>3
  <2>2. procs'[q][t] = procs[q][t] /\ <<q, procs[q][t]>> \in Handlers
    BY <1>2, <2>1 DEF TypeOK, Handlers
  <2> QED
    BY <1>1, <2>1, <2>2 DEF CancelInv, ProcsAlive, At, Test
<1>5. NoStaleCancelFlag'
  BY <1>1, <1>2, <1>3 DEF CancelInv, NoStaleCancelFlag, UnderWay, Of, Test
<1> QED
  BY <1>4, <1>5 DEF CancelInv

LEMMA CancelFault ==
    ASSUME TypeOK, CancelInv, Fault \/ \E r \in Replicas : Reconnect(r) \/ Die(r)
    PROVE  CancelInv'
<1>1. ASSUME NEW r \in Replicas, Crash(r) \/ Die(r)
      PROVE  CancelInv'
  BY <1>1, CancelStopProcess DEF Crash, Die
<1>2. ASSUME NEW r \in Replicas, Reconnect(r)
      PROVE  CancelInv'
  BY <1>2, CancelFrame DEF Reconnect, RunsKept
<1>3. ASSUME NEW h \in Handlers, StatusQueryFails(h)
      PROVE  CancelInv'
  BY <1>3, CancelFrameOne, OneHandlerMoves DEF StatusQueryFails, At
<1>4. ASSUME NEW r \in Replicas, Disconnect(r)
      PROVE  CancelInv'
  <2>1. PICK cut \in SUBSET Leaving(r) : handler' = Severed(r, cut)
    BY <1>4 DEF Disconnect
  <2>2. RunsKept
    <3>1. ASSUME NEW h \in Handlers, handler[h].pc \in {"k6", "exited", "caught"}
          PROVE  handler'[h].pc = handler[h].pc /\ handler'[h].t = handler[h].t
      <4>1. h \notin cut
        BY <2>1, <3>1 DEF Leaving
      <4> QED
        BY <2>1, <4>1, HandlerResets DEF Severed
    <3> QED
      BY <1>4, <3>1 DEF RunsKept, Disconnect
  <2> QED
    BY <2>2, CancelFrame
<1>5. CASE BrokerCrash
  <2>1. RunsKept
    BY <1>5, HandlerResets DEF BrokerCrash, RunsKept
  <2> QED
    BY <2>1, CancelFrame
<1>6. CASE ConsumerFails
  BY <1>6, CancelFrame DEF ConsumerFails, RunsKept, workerVars
<1> QED
  BY <1>1, <1>2, <1>3, <1>4, <1>5, <1>6 DEF Fault

LEMMA CancelElsewhere ==
    ASSUME TypeOK, CancelInv,
           \/ ConsumerStep
           \/ \E t \in Tests :
                 \/ Submit(t) \/ ApiStep(t) \/ Cancel(t) \/ PublishCancel(t)
                 \/ PendingArrives(t) \/ RunningArrives(t) \/ Sweep(t) \/ LateSave(t)
           \/ UNCHANGED vars
    PROVE  CancelInv'
<1>1. UNCHANGED <<handler, procs, cancelled>>
  BY DEF ConsumerStep, TakeResult, SaveResult, SaveResultFails, AckResult, Submit, ApiStep,
         Dispatch, DispatchFails, Cancel, PublishCancel, PendingArrives, RunningArrives,
         Sweep, LateSave, vars, workerVars
<1> QED
  BY <1>1, CancelFrame DEF RunsKept

LEMMA CancelInit == Init => CancelInv
BY DEF Init, CancelInv, ProcsAlive, NoStaleCancelFlag

\* A cancel flag is only ever up while a run of its test is there to consume
\* it, and an entry of runningTests always names a handler whose k6 is alive.
THEOREM CancelFlagsCorrect == Spec => [](ProcsAlive /\ NoStaleCancelFlag)
<1>1. TypeOK /\ CancelInv /\ [Next]_vars => CancelInv'
  BY CancelHandler, CancelWorkerBroker, CancelFault, CancelElsewhere DEF Next
<1>2. Spec => []CancelInv
  BY <1>1, CancelInit, TypeCorrect, PTL DEF Spec
<1>3. CancelInv => ProcsAlive /\ NoStaleCancelFlag
  BY DEF CancelInv
<1> QED
  BY <1>2, <1>3, PTL

-----------------------------------------------------------------------------
(* What the pipeline does to the rows of the store: it implements          *)
(* TestLifecycle, and cancels nothing that nobody asked to cancel.         *)

\* Every step that writes a row does it with one statement of the store.
Written(t) ==
    \/ UNCHANGED row
    \/ Update(t, InsertPending(row[t]))
    \/ Update(t, MarkRunning(row[t]))
    \/ Update(t, MarkFailed(row[t]))
    \/ Update(t, UpsertResult(row[t]))
    \/ Update(t, SweepStale(row[t]))
    \/ Update(t, MarkCancelled(row[t], TRUE)) /\ cancelReq'[t] # "none"
    \/ \E h \in Handlers, p \in BOOLEAN :
          /\ handler[h].pc \in {"stopping", "stoppingInCatch"} /\ Test(h) = t
          /\ Update(t, MarkCancelled(row[t], p))

LEMMA OneStatement ==
    ASSUME TypeOK, [Next]_vars
    PROVE  UNCHANGED row \/ \E t \in Tests : Written(t)
<1> USE DEF Written, BestEffort
<1>1. ASSUME NEW t \in Tests,
             \/ Submit(t) \/ ApiStep(t) \/ Cancel(t) \/ PublishCancel(t)
             \/ PendingArrives(t) \/ RunningArrives(t) \/ Sweep(t) \/ LateSave(t)
      PROVE  Written(t)
  BY <1>1 DEF Submit, ApiStep, Dispatch, DispatchFails, Cancel, PublishCancel,
              PendingArrives, RunningArrives, Sweep, LateSave, TypeOK
<1>2. ASSUME NEW h \in Handlers, HandlerStep(h) \/ ConfirmFails(h)
      PROVE  UNCHANGED row \/ Written(Test(h))
  <2>1. CASE NotifyFailed(h)
    BY <2>1 DEF NotifyFailed
  <2>2. CASE NotifyCancelled(h)
    BY <2>2 DEF NotifyCancelled, At
  <2>3. CASE ~NotifyFailed(h) /\ ~NotifyCancelled(h)
    BY <1>2, <2>3 DEF HandlerStep, CheckStatus, LaunchFails, Spawn, K6Exits, RunResolves,
                      RunThrows, PublishResult, SaveScriptFails, Acknowledge, Retry,
                      ConfirmFails
  <2> QED
    BY <2>1, <2>2, <2>3
<1>3. ASSUME NEW h \in Handlers, HandlerStep(h) \/ ConfirmFails(h)
      PROVE  UNCHANGED row \/ Test(h) \in Tests
  BY <1>3, HandlerInUse
     DEF HandlerStep, CheckStatus, LaunchFails, Spawn, K6Exits, RunResolves, RunThrows,
         PublishResult, SaveScriptFails, Acknowledge, NotifyCancelled, NotifyFailed, Retry,
         ConfirmFails, At, Test
<1>4. CASE ConsumerStep
  <2>1. CASE SaveResult
    BY <2>1 DEF SaveResult, TypeOK
  <2> QED
    BY <1>4, <2>1 DEF ConsumerStep, TakeResult, SaveResultFails, AckResult
<1>5. CASE \/ Fault \/ Deliveries
           \/ \E m \in Messages : Persist(m)
           \/ \E r \in Replicas, t \in Tests : ReceiveCancel(r, t)
           \/ \E r \in Replicas : Reconnect(r) \/ Die(r)
           \/ UNCHANGED vars
  BY <1>5 DEF Fault, Deliveries, Deliver, Persist, ReceiveCancel, Reconnect, Die, Crash,
              StopProcess, StatusQueryFails, Disconnect, BrokerCrash, ConsumerFails, vars
<1> QED
  BY <1>1, <1>2, <1>3, <1>4, <1>5 DEF Next

-----------------------------------------------------------------------------
LEMMA StatementIsLifecycleStep ==
    ASSUME TypeOK, NEW t \in Tests, Written(t)
    PROVE  [L!LifecycleNext]_row
<1>1. row[t] \in Row
  BY DEF TypeOK
<1>2. \A x : Update(t, x) => row' = [row EXCEPT ![t] = x]
  BY DEF Update
<1>3. ASSUME NEW x, row' = [row EXCEPT ![t] = x], x = row[t]
      PROVE  UNCHANGED row
  BY <1>3 DEF TypeOK
<1>4. ASSUME NEW status, row' = [row EXCEPT ![t] = [row[t] EXCEPT !.status = status]]
      PROVE  L!Becomes(t, status)
  BY <1>4 DEF L!Becomes
<1> USE DEF L!LifecycleNext, L!Active, Active
<1>5. CASE Update(t, InsertPending(row[t]))
  BY <1>2, <1>3, <1>4, <1>5 DEF InsertPending, L!Appear
<1>6. CASE Update(t, MarkRunning(row[t]))
  BY <1>2, <1>3, <1>4, <1>6 DEF MarkRunning, L!Begin
<1>7. CASE Update(t, MarkFailed(row[t])) \/ Update(t, SweepStale(row[t]))
  BY <1>2, <1>3, <1>4, <1>7 DEF MarkFailed, SweepStale, L!End
<1>8. CASE Update(t, UpsertResult(row[t]))
  BY <1>2, <1>8 DEF UpsertResult, L!Record
<1>9. ASSUME NEW p \in BOOLEAN, Update(t, MarkCancelled(row[t], p))
      PROVE  [L!LifecycleNext]_row
  BY <1>2, <1>3, <1>4, <1>9 DEF MarkCancelled, L!End
<1> QED
  BY <1>5, <1>6, <1>7, <1>8, <1>9 DEF Written

\* The pipeline implements the life of a test that the store promises: whatever
\* is late, repeated or lost, a terminal row is only left by /running or by a
\* result, and a stored result is never erased.
THEOREM ImplementsLifecycle == Spec => Lifecycle
<1>1. Init => L!LifecycleInit
  BY DEF Init, L!LifecycleInit, NoRow, L!NoRow
<1>2. TypeOK /\ [Next]_vars => [L!LifecycleNext]_row
  BY OneStatement, StatementIsLifecycleStep
<1> QED
  BY <1>1, <1>2, TypeCorrect, PTL DEF Spec, Lifecycle, L!Lifecycle

-----------------------------------------------------------------------------
(* CancelledOnlyOnRequest, with what carries a request to the row: the      *)
(* signals, the flags and the handlers that found a flag.                   *)

Asked(t) == cancelReq[t] # "none"

RequestInv ==
    /\ CancelledOnlyOnRequest
    /\ \A r \in Replicas : \A t \in signals[r] \cup cancelled[r] : Asked(t)
    /\ \A h \in Handlers :
          handler[h].pc \in {"stopping", "stoppingInCatch"} => Asked(Test(h))

\* A request is never taken back.
LEMMA AskedForGood ==
    ASSUME TypeOK, [Next]_vars, NEW t \in Tests, Asked(t)
    PROVE  cancelReq'[t] # "none"
<1>1. CASE UNCHANGED cancelReq
  BY <1>1 DEF Asked
<1>2. ASSUME NEW u \in Tests, Cancel(u) \/ PublishCancel(u)
      PROVE  cancelReq'[t] # "none"
  BY <1>2 DEF Cancel, PublishCancel, Asked, TypeOK
<1>3. CASE ~UNCHANGED cancelReq
  <2>1. \E u \in Tests : Cancel(u) \/ PublishCancel(u)
    BY <1>3 DEF Next, vars, apiVars, Submit, ApiStep, Dispatch, DispatchFails,
         PendingArrives, RunningArrives, Sweep, LateSave, HandlerStep, CheckStatus,
         LaunchFails, Spawn, K6Exits, RunResolves, RunThrows, PublishResult,
         SaveScriptFails, Acknowledge, NotifyCancelled, NotifyFailed, Retry, ConfirmFails,
         Deliveries, Deliver, Persist, ReceiveCancel, Reconnect, Die, StopProcess,
         ConsumerStep, TakeResult, SaveResult, SaveResultFails, AckResult, Fault, Crash,
         StatusQueryFails, Disconnect, BrokerCrash, ConsumerFails
  <2> QED
    BY <1>2, <2>1
<1> QED
  BY <1>1, <1>3

LEMMA RowAsked ==
    ASSUME TypeOK, RequestInv, [Next]_vars
    PROVE  CancelledOnlyOnRequest'
<1> SUFFICES ASSUME NEW t \in Tests, row'[t].status = "cancelled"
             PROVE  cancelReq'[t] # "none"
  BY DEF CancelledOnlyOnRequest
<1>1. CASE row[t].status = "cancelled"
  BY <1>1, AskedForGood DEF RequestInv, CancelledOnlyOnRequest, Asked
<1>2. CASE row[t].status # "cancelled"
  <2>1. PICK u \in Tests : Written(u)
    BY <1>2, OneStatement
  <2>2. u = t
    BY <1>2, <2>1 DEF Written, Update, TypeOK
  <2>3. row[t] \in Row
    BY DEF TypeOK
  <2>4. \A x : Update(t, x) => row'[t] = x
    BY DEF Update, TypeOK
  <2>5. \/ Update(t, MarkCancelled(row[t], TRUE)) /\ cancelReq'[t] # "none"
        \/ \E h \in Handlers :
              handler[h].pc \in {"stopping", "stoppingInCatch"} /\ Test(h) = t
    <3>1. CASE UNCHANGED row
      BY <1>2, <3>1
    <3>2. CASE Update(t, InsertPending(row[t])) \/ Update(t, MarkRunning(row[t]))
      BY <1>2, <2>3, <2>4, <3>2 DEF InsertPending, MarkRunning, Row
    <3>3. CASE Update(t, MarkFailed(row[t])) \/ Update(t, SweepStale(row[t]))
      BY <1>2, <2>3, <2>4, <3>3 DEF MarkFailed, SweepStale, Row
    <3>4. CASE Update(t, UpsertResult(row[t]))
      BY <2>4, <3>4 DEF UpsertResult
    <3> QED
      BY <2>1, <2>2, <3>1, <3>2, <3>3, <3>4 DEF Written
  <2> QED
    BY <2>5, AskedForGood DEF RequestInv
<1> QED
  BY <1>1, <1>2

LEMMA FlagsAsked ==
    ASSUME TypeOK, RequestInv, [Next]_vars,
           NEW r \in Replicas, NEW t \in signals'[r] \cup cancelled'[r]
    PROVE  cancelReq'[t] # "none"
<1>0. signals[r] \cup cancelled[r] \subseteq Tests
  BY DEF TypeOK
<1>1. CASE t \in signals[r] \cup cancelled[r]
  BY <1>0, <1>1, AskedForGood DEF RequestInv
<1>2. CASE t \notin signals[r] \cup cancelled[r]
  <2>1. PICK u \in Tests : PublishCancel(u)
    <3>1. CASE UNCHANGED <<signals, cancelled>>
      BY <1>2, <3>1
    <3>2. ASSUME NEW q \in Replicas, NEW u \in Tests, ReceiveCancel(q, u)
          PROVE  FALSE
      BY <1>2, <3>2 DEF ReceiveCancel, TypeOK
    <3>3. ASSUME NEW h \in Handlers, RunResolves(h) \/ RunThrows(h)
          PROVE  FALSE
      BY <1>2, <3>3 DEF RunResolves, RunThrows, TypeOK
    <3>4. ASSUME NEW q \in Replicas, StopProcess(q)
          PROVE  FALSE
      BY <1>2, <3>4 DEF StopProcess, CutOff, TypeOK
    <3>5. ASSUME NEW R \in SUBSET Replicas, CutOff(R), UNCHANGED cancelled
          PROVE  FALSE
      BY <1>2, <3>5 DEF CutOff, TypeOK
    <3> QED
      BY <3>1, <3>2, <3>3, <3>4, <3>5
         DEF Next, vars, workerVars, Submit, ApiStep, Dispatch, DispatchFails, Cancel,
         PendingArrives, RunningArrives, Sweep, LateSave, HandlerStep, CheckStatus,
         LaunchFails, Spawn, K6Exits, PublishResult, SaveScriptFails, Acknowledge,
         NotifyCancelled, NotifyFailed, Retry, ConfirmFails, Deliveries, Deliver, Persist,
         Reconnect, Die, ConsumerStep, TakeResult, SaveResult, SaveResultFails, AckResult,
         Fault, Crash, StatusQueryFails, Disconnect, BrokerCrash, ConsumerFails
  <2>2. t = u
    BY <1>2, <2>1 DEF PublishCancel, TypeOK
  <2> QED
    BY <2>1, <2>2 DEF PublishCancel, TypeOK
<1> QED
  BY <1>1, <1>2

\* Only a handler that found a flag enters the steps that cancel.
LEMMA HandlersAsked ==
    ASSUME TypeOK, RequestInv, [Next]_vars,
           NEW h \in Handlers, handler'[h].pc \in {"stopping", "stoppingInCatch"}
    PROVE  cancelReq'[handler'[h].t] # "none"
<1> DEFINE Stopping(s) == s.pc \in {"stopping", "stoppingInCatch"}
           Kept == handler[h].pc = handler'[h].pc /\ handler[h].t = handler'[h].t
<1>1. CASE Kept
  <2>1. Test(h) \in Tests /\ Asked(Test(h))
    BY <1>1 DEF RequestInv, TypeOK, HandlersTyped, Test
  <2> QED
    BY <1>1, <2>1, AskedForGood DEF Test
<1>2. ASSUME NEW g \in Handlers, RunResolves(g) \/ RunThrows(g)
      PROVE  Kept \/ (Asked(handler'[h].t) /\ handler'[h].t \in Tests)
  <2>1. g[1] \in Replicas /\ Test(g) \in Tests
    BY <1>2 DEF Handlers, RunResolves, RunThrows, At, Test, TypeOK, HandlersTyped
  <2>2. Test(g) \in cancelled[g[1]] => Asked(Test(g))
    BY <2>1 DEF RequestInv
  <2>3. CASE g = h
    BY <1>2, <2>1, <2>2, <2>3
       DEF RunResolves, RunThrows, Goto, TypeOK, HandlersTyped, HandlerState, Test
  <2>4. CASE g # h
    BY <1>2, <2>4 DEF RunResolves, RunThrows, Goto, TypeOK, HandlersTyped
  <2> QED
    BY <2>3, <2>4
<1>3. ASSUME NEW g \in Handlers, HandlerStep(g) \/ ConfirmFails(g),
             ~RunResolves(g), ~RunThrows(g)
      PROVE  Kept
  <2>1. CASE ~K6Exits(g)
    <3>1. \E p : /\ p \notin {"stopping", "stoppingInCatch"}
                 /\ Goto(g, p) \/ AckOr(g, p)
      BY <1>3, <2>1
         DEF HandlerStep, CheckStatus, LaunchFails, Spawn, PublishResult, SaveScriptFails,
             Acknowledge, NotifyCancelled, NotifyFailed, Retry, ConfirmFails
    <3> QED
      BY <3>1 DEF Goto, AckOr, TypeOK, HandlersTyped, HandlerState, IdleHandler
  <2>2. CASE K6Exits(g)
    <3>1. /\ handler[h] \in HandlerState /\ handler[g] \in HandlerState
          /\ handler \in [Handlers -> HandlerState]
      BY DEF TypeOK, HandlersTyped
    <3>2. g # h => Kept
      BY <2>2, <3>1 DEF K6Exits, Goto
    <3>3. handler'[g].pc \in {"caught", "exited"}
      BY <2>2, <3>1 DEF K6Exits, Goto, HandlerState
    <3> QED
      BY <3>2, <3>3
  <2> QED
    BY <2>1, <2>2
<1>4. ASSUME NEW m \in Messages, Persist(m)
      PROVE  Kept
  <2>1. UNCHANGED handler \/ \E g \in Handlers : Goto(g, "acking")
    BY <1>4 DEF Persist
  <2>2. handler \in [Handlers -> HandlerState] /\ handler[h] \in HandlerState
    BY DEF TypeOK, HandlersTyped
  <2>3. ASSUME NEW g \in Handlers, Goto(g, "acking"), ~Kept
        PROVE  handler'[h].pc = "acking"
    BY <2>2, <2>3 DEF Goto, HandlerState
  <2> QED
    BY <2>1, <2>3
<1>5. ASSUME NEW r \in Replicas, NEW m \in Messages, Deliver(r, m)
      PROVE  Kept
  <2> DEFINE g == CHOOSE f \in IdleOf(r) : TRUE
  <2>1. g \in Handlers
    BY <1>5 DEF Deliver, IdleOf, Of
  <2> HIDE DEF g
  <2>2. handler' = [handler EXCEPT ![g] = [pc |-> "received", t |-> m.t, k |-> m.k,
                                           live |-> TRUE, metrics |-> FALSE]]
    BY <1>5 DEF Deliver, g
  <2> QED
    BY <2>1, <2>2 DEF TypeOK, HandlersTyped
<1>6. ASSUME NEW r \in Replicas, StopProcess(r)
      PROVE  Kept
  BY <1>6 DEF StopProcess, IdleHandler
<1>7. ASSUME NEW r \in Replicas, Disconnect(r)
      PROVE  Kept
  BY <1>7 DEF Disconnect, Severed, IdleHandler, TypeOK, HandlersTyped, HandlerState
<1>8. ASSUME BrokerCrash
      PROVE  Kept
  <2>1. handler'[h] = [handler[h] EXCEPT !.live = FALSE]
    BY <1>8 DEF BrokerCrash
  <2> QED
    BY <2>1, HandlerResets
<1>9. ASSUME NEW g \in Handlers, StatusQueryFails(g)
      PROVE  Kept
  BY <1>9 DEF StatusQueryFails, Goto, TypeOK, HandlersTyped, HandlerState
<1>10. ASSUME \/ \E t \in Tests :
                 \/ Submit(t) \/ ApiStep(t) \/ Cancel(t) \/ PublishCancel(t)
                 \/ PendingArrives(t) \/ RunningArrives(t) \/ Sweep(t) \/ LateSave(t)
              \/ \E r \in Replicas, t \in Tests : ReceiveCancel(r, t)
              \/ \E r \in Replicas : Reconnect(r)
              \/ ConsumerStep
              \/ ConsumerFails
              \/ UNCHANGED vars
       PROVE  Kept
  BY <1>10 DEF Submit, ApiStep, Dispatch, DispatchFails, Cancel, PublishCancel,
         PendingArrives, RunningArrives, Sweep, LateSave, ReceiveCancel, Reconnect,
         ConsumerStep, TakeResult, SaveResult, SaveResultFails, AckResult, ConsumerFails,
         vars, workerVars
<1>11. Kept \/ (Asked(handler'[h].t) /\ handler'[h].t \in Tests)
  <2> HIDE DEF Kept
  <2>1. CASE Fault
    <3>1. CASE \E r \in Replicas : Crash(r) \/ Disconnect(r)
      BY <1>6, <1>7, <3>1 DEF Crash
    <3>2. CASE \E g \in Handlers : StatusQueryFails(g)
      BY <1>9, <3>2
    <3> QED
      BY <1>8, <1>10, <2>1, <3>1, <3>2 DEF Fault
  <2>2. CASE Deliveries \/ \E m \in Messages : Persist(m)
    BY <1>4, <1>5, <2>2 DEF Deliveries
  <2>3. CASE \E g \in Handlers : HandlerStep(g) \/ ConfirmFails(g)
    BY <1>2, <1>3, <2>3
  <2>4. CASE \E r \in Replicas : Die(r)
    BY <1>6, <2>4 DEF Die
  <2> QED
    BY <1>10, <2>1, <2>2, <2>3, <2>4 DEF Next
<1> QED
  BY <1>1, <1>11, AskedForGood

LEMMA RequestInit == Init => RequestInv
BY DEF Init, RequestInv, CancelledOnlyOnRequest, NoRow, IdleHandler

LEMMA RequestCorrect == Spec => []RequestInv
<1>1. TypeOK /\ RequestInv /\ [Next]_vars => RequestInv'
  <2> SUFFICES ASSUME TypeOK, RequestInv, [Next]_vars PROVE RequestInv'
    OBVIOUS
  <2>1. CancelledOnlyOnRequest'
    BY RowAsked
  <2>2. \A r \in Replicas : \A t \in signals'[r] \cup cancelled'[r] : cancelReq'[t] # "none"
    BY FlagsAsked
  <2>3. \A h \in Handlers :
           handler'[h].pc \in {"stopping", "stoppingInCatch"} => cancelReq'[handler'[h].t] # "none"
    BY HandlersAsked
  <2> QED
    BY <2>1, <2>2, <2>3 DEF RequestInv, Asked, Test
<1> QED
  BY <1>1, RequestInit, TypeCorrect, PTL DEF Spec

\* A row shows 'cancelled' only if somebody asked for it, whatever failed, was
\* retried or was delivered again: a cancel reaches a row along the client's
\* call, or along signal, flag and handler, and each of them stands for a request.
THEOREM CancelledOnlyOnRequestCorrect == Spec => []CancelledOnlyOnRequest
<1>1. RequestInv => CancelledOnlyOnRequest
  BY DEF RequestInv
<1> QED
  BY <1>1, RequestCorrect, PTL

-----------------------------------------------------------------------------
(***************************************************************************)
(* No accepted test of BackendPipeline is lost.  NothingLost is not        *)
(* inductive: a published result that the broker has not persisted counts  *)
(* for it, and a crash of the broker drops that message.  What is kept is  *)
(* what survives: a persisted message, or one whose loss NothingLost       *)
(* admits.                                                                 *)
(***************************************************************************)

\* A message that no crash makes disappear unnoticed.  A first result, which a
\* handler waits to be confirmed, does not count until the broker has it.
Stands(m) ==
    \/ ready[m] > 0
    \/ (m.k > 0 \/ m.q \in DLQs) /\ (fresh[m] > 0 \/ m \in lost)

Taken(t) == consumer.pc # "idle" /\ consumer.t = t

\* A result of t is stored, or on its way, or known to be dead.
Answered(t) ==
    \/ row[t].metrics
    \/ Taken(t)
    \/ \E m \in Messages : m.t = t /\ m.q # "tests" /\ Stands(m)

Kept(t) ==
    \/ Asked(t) \/ Answered(t)
    \/ Working(t) # {}
    \/ \E m \in Messages : m.t = t /\ Stands(m)

\* An accepted test is kept; a handler acknowledges its delivery only with an
\* answer behind it or for a cancel; what the consumer acknowledges is stored.
DeliveryInv ==
    /\ \A t \in Tests : request[t] = "accepted" => Kept(t)
    /\ \A h \in Handlers : handler[h].pc \in {"acking", "ackingInCatch"} =>
           Asked(Test(h)) \/ Answered(Test(h))
    /\ consumer.pc = "saved" => row[consumer.t].metrics

-----------------------------------------------------------------------------
(* What a step does to the messages *)

\* What the broker gives back is added to its queue.
LEMMA GivenBack ==
    ASSUME TypeOK, NEW S \in SUBSET Handlers, NEW m \in Messages
    PROVE  /\ GiveBack(S)[m] \in Nat /\ GiveBack(S)[m] >= ready[m]
           /\ \A h \in S : Holds(h) /\ m = Msg("tests", Test(h), handler[h].k)
                               => GiveBack(S)[m] > 0
<1> DEFINE B == {h \in S : Holds(h) /\ m = Msg("tests", Test(h), handler[h].k)}
<1>1. IsFiniteSet(B) /\ Cardinality(B) \in Nat
  BY HandlerCount
<1>2. GiveBack(S)[m] = ready[m] + Cardinality(B)
  BY DEF GiveBack
<1>3. ready[m] \in Nat
  BY DEF TypeOK
<1>4. \A h \in B : Cardinality(B) > 0
  <2>1. Cardinality(B) = 0 <=> B = {}
    BY <1>1, FS_EmptySet
  <2> QED
    BY <1>1, <2>1
<1>5. \A h \in S : Holds(h) /\ m = Msg("tests", Test(h), handler[h].k) => h \in B
  OBVIOUS
<1> HIDE DEF B
<1>6. GiveBack(S)[m] \in Nat /\ GiveBack(S)[m] >= ready[m]
  BY <1>1, <1>2, <1>3
<1>7. \A h \in B : GiveBack(S)[m] > 0
  BY <1>1, <1>2, <1>3, <1>4
<1> QED
  BY <1>5, <1>6, <1>7

LEMMA Returned ==
    ASSUME TypeOK, NEW bag \in [Messages -> Nat], NEW m \in Messages
    PROVE  /\ ReturnResult(bag)[m] \in Nat /\ ReturnResult(bag)[m] >= bag[m]
           /\ consumer.pc # "idle" /\ m = Msg("results", consumer.t, consumer.k)
                  => ReturnResult(bag)[m] > 0
BY DEF ReturnResult, Enqueue

\* A connection that breaks takes only first results with it.
LEMMA ArrivedKeeps ==
    ASSUME TypeOK, NEW r \in Replicas, NEW dropped \in SUBSET Unconfirmed(r),
           NEW sent \in SUBSET Handlers, NEW m \in Messages,
           m.k > 0 \/ m.q \in DLQs, fresh[m] > 0
    PROVE  Arrived(sent, dropped)[m] > 0
<1>1. m \notin dropped
  BY DEF Unconfirmed, Msg, DLQs
<1>2. Cardinality({h \in sent : m = Republished(h)}) \in Nat
  <2>1. {h \in sent : m = Republished(h)} \in SUBSET Handlers
    OBVIOUS
  <2> QED
    BY <2>1, HandlerCount
<1>3. fresh[m] \in Nat
  BY DEF TypeOK
<1> QED
  BY <1>1, <1>2, <1>3 DEF Arrived

\* A step that takes nothing away from m.
Spared(m) ==
    /\ ready[m] > 0 => ready'[m] > 0
    /\ fresh[m] > 0 => fresh'[m] > 0 \/ ready'[m] > 0
    /\ lost \subseteq lost'

LEMMA SparedStands ==
    ASSUME NEW m \in Messages, Stands(m), Spared(m)
    PROVE  Stands(m)'
BY DEF Stands, Spared

\* A message that stands goes on standing until it is taken: then a handler
\* holds its test, or the consumer has its result.
LEMMA MessageStands ==
    ASSUME TypeOK, [Next]_vars, NEW m \in Messages, Stands(m)
    PROVE  \/ Stands(m)'
           \/ m.q = "tests" /\ (Working(m.t) # {})'
           \/ m.q = "results" /\ Taken(m.t)'
<1> USE DEF apiVars, brokerVars, workerVars, resultVars
<1>0. /\ ready \in [Messages -> Nat] /\ fresh \in [Messages -> Nat]
      /\ ready[m] \in Nat /\ fresh[m] \in Nat
  BY DEF TypeOK
<1>a. \A n \in Messages :
         /\ Enqueue(ready, n)[m] \in Nat /\ Enqueue(ready, n)[m] >= ready[m]
         /\ Enqueue(fresh, n)[m] \in Nat /\ Enqueue(fresh, n)[m] >= fresh[m]
  BY <1>0 DEF Enqueue
<1>b. ReturnResult(ready)[m] \in Nat /\ ReturnResult(ready)[m] >= ready[m]
  BY <1>0, Returned
<1>1. ASSUME NEW t \in Tests, ApiStep(t) \/ LateSave(t)
      PROVE  Spared(m)
  <2>1. Msg("tests", t, 0) \in Messages
    BY MessageTypes, ConstantsAssumption
  <2>2. UNCHANGED <<fresh, lost>> /\ ready' \in {ready, Enqueue(ready, Msg("tests", t, 0)),
                                                 ReturnResult(ready)}
    BY <1>1 DEF ApiStep, Dispatch, DispatchFails, LateSave
  <2> QED
    BY <1>0, <1>a, <1>b, <2>1, <2>2 DEF Spared
<1>2. ASSUME NEW h \in Handlers, PublishResult(h) \/ Retry(h)
      PROVE  Spared(m)
  <2>1. handler[h].pc # "idle" /\ Test(h) \in Tests
    BY <1>2, HandlerInUse DEF PublishResult, Retry, At, Test
  <2>2. Msg("results", Test(h), 0) \in Messages /\ Republished(h) \in Messages
    BY <2>1, MessageTypes, RepublishedType, ConstantsAssumption
  <2>3. UNCHANGED <<ready, lost>>
        /\ fresh' \in {fresh, Enqueue(fresh, Msg("results", Test(h), 0)),
                       Enqueue(fresh, Republished(h))}
    BY <1>2 DEF PublishResult, Retry
  <2> QED
    BY <1>0, <1>a, <2>2, <2>3 DEF Spared
<1>3. ASSUME NEW n \in Messages, Persist(n)
      PROVE  Spared(m)
  BY <1>0, <1>3 DEF Persist, Enqueue, Dequeue, Spared
<1>4. ASSUME NEW r \in Replicas, NEW n \in Messages, Deliver(r, n)
      PROVE  Spared(m) \/ (m.q = "tests" /\ (Working(m.t) # {})')
  <2>1. CASE n = m
    <3> DEFINE g == CHOOSE f \in IdleOf(r) : TRUE
    <3>1. g \in Handlers
      BY <1>4 DEF Deliver, IdleOf, Of
    <3> HIDE DEF g
    <3>2. handler' = [handler EXCEPT ![g] = [pc |-> "received", t |-> m.t, k |-> m.k,
                                             live |-> TRUE, metrics |-> FALSE]]
      BY <1>4, <2>1 DEF Deliver, g
    <3>3. g \in Working(m.t)'
      BY <3>1, <3>2 DEF Working, Holds, Test, TypeOK, HandlersTyped
    <3> QED
      BY <1>4, <2>1, <3>3 DEF Deliver
  <2>2. CASE n # m
    BY <1>0, <1>4, <2>2 DEF Deliver, Dequeue, Spared
  <2> QED
    BY <2>1, <2>2
<1>5. CASE ConsumerStep
  <2>1. ASSUME NEW t \in Tests, NEW k \in 0..MaxRetries, TakeResult(t, k)
        PROVE  Spared(m) \/ (m.q = "results" /\ Taken(m.t)')
    <3>1. CASE m = Msg("results", t, k)
      BY <2>1, <3>1 DEF TakeResult, Taken, Msg
    <3>2. CASE m # Msg("results", t, k)
      BY <1>0, <2>1, <3>2 DEF TakeResult, Dequeue, Spared
    <3> QED
      BY <3>1, <3>2
  <2>2. CASE SaveResultFails
    <3>1. PICK n : fresh' = Enqueue(fresh, n) /\ UNCHANGED <<ready, lost>>
      BY <2>2 DEF SaveResultFails
    <3>2. fresh'[m] \in {fresh[m], fresh[m] + 1}
      BY <1>0, <3>1 DEF Enqueue
    <3> QED
      BY <1>0, <3>1, <3>2, SparedStands DEF Spared
  <2>3. CASE SaveResult \/ AckResult
    <3>1. UNCHANGED <<ready, fresh, lost>>
      BY <2>3 DEF SaveResult, AckResult
    <3> QED
      BY <3>1, SparedStands DEF Spared
  <2> QED
    BY <1>5, <2>1, <2>2, <2>3, SparedStands DEF ConsumerStep
<1>6. ASSUME NEW r \in Replicas, StopProcess(r)
      PROVE  Spared(m)
  BY <1>0, <1>6, GivenBack DEF StopProcess, Spared, Of
<1>7. ASSUME NEW r \in Replicas, Disconnect(r)
      PROVE  Stands(m)'
  <2>1. ready'[m] >= ready[m] /\ ready'[m] \in Nat
    BY <1>7, GivenBack DEF Disconnect, Of
  <2>2. m.k > 0 \/ m.q \in DLQs => (fresh[m] > 0 => fresh'[m] > 0)
    <3>1. PICK cut \in SUBSET Leaving(r), dropped \in SUBSET Unconfirmed(r) :
             \E sent \in SUBSET {h \in cut : At(h, "retrying")} : fresh' = Arrived(sent, dropped)
      BY <1>7 DEF Disconnect
    <3>2. PICK sent \in SUBSET Handlers : fresh' = Arrived(sent, dropped)
      BY <3>1 DEF Leaving, Of
    <3> QED
      BY <3>2, ArrivedKeeps
  <2>3. lost' = lost
    BY <1>7 DEF Disconnect
  <2> QED
    BY <1>0, <2>1, <2>2, <2>3 DEF Stands
<1>8. CASE BrokerCrash
  <2>1. ready'[m] \in Nat /\ ready'[m] >= ready[m]
    <3>1. GiveBack(Handlers) \in [Messages -> Nat]
      BY <1>0, ReturnedTypes
    <3>2. ready' = ReturnResult(GiveBack(Handlers))
      BY <1>8 DEF BrokerCrash
    <3> QED
      BY <1>0, <3>1, <3>2, GivenBack, Returned
  <2>2. (fresh[m] > 0 => m \in lost') /\ lost \subseteq lost'
    BY <1>8 DEF BrokerCrash
  <2> QED
    BY <1>0, <2>1, <2>2 DEF Stands
<1>9. CASE ConsumerFails
  <2>1. ready' = ReturnResult(ready) /\ UNCHANGED <<fresh, lost>>
    BY <1>9 DEF ConsumerFails
  <2> QED
    BY <1>0, <1>b, <2>1, SparedStands DEF Spared
<1>10. CASE UNCHANGED brokerVars
  BY <1>10 DEF Spared, Stands
<1>11. CASE Fault
  <2>1. ASSUME NEW r \in Replicas, Crash(r) \/ Disconnect(r)
        PROVE  Stands(m)'
    BY <1>6, <1>7, <2>1, SparedStands DEF Crash
  <2>2. ASSUME NEW h \in Handlers, StatusQueryFails(h)
        PROVE  UNCHANGED brokerVars
    BY <2>2 DEF StatusQueryFails
  <2> QED
    BY <1>8, <1>9, <1>10, <1>11, <2>1, <2>2, SparedStands DEF Fault
<1>12. ASSUME NEW h \in Handlers, HandlerStep(h) \/ ConfirmFails(h)
       PROVE  UNCHANGED brokerVars \/ PublishResult(h) \/ Retry(h)
  BY <1>12 DEF HandlerStep, CheckStatus, LaunchFails, Spawn, K6Exits, RunResolves, RunThrows,
               SaveScriptFails, Acknowledge, NotifyCancelled, NotifyFailed, ConfirmFails
<1>13. ASSUME NEW t \in Tests,
              \/ Submit(t) \/ ApiStep(t) \/ Cancel(t) \/ PublishCancel(t)
              \/ PendingArrives(t) \/ RunningArrives(t) \/ Sweep(t) \/ LateSave(t)
       PROVE  UNCHANGED brokerVars \/ ApiStep(t) \/ LateSave(t)
  BY <1>13 DEF Submit, Cancel, PublishCancel, PendingArrives, RunningArrives, Sweep
<1>14. CASE \/ \E r \in Replicas, t \in Tests : ReceiveCancel(r, t)
            \/ \E r \in Replicas : Reconnect(r)
            \/ UNCHANGED vars
  BY <1>10, <1>14 DEF ReceiveCancel, Reconnect, vars
<1>15. CASE \/ Deliveries
            \/ \E n \in Messages : Persist(n)
            \/ \E r \in Replicas : Die(r)
  BY <1>3, <1>4, <1>6, <1>15, SparedStands DEF Deliveries, Die
<1>16. CASE \E t \in Tests :
              \/ Submit(t) \/ ApiStep(t) \/ Cancel(t) \/ PublishCancel(t)
              \/ PendingArrives(t) \/ RunningArrives(t) \/ Sweep(t) \/ LateSave(t)
  BY <1>1, <1>10, <1>13, <1>16, SparedStands
<1>17. CASE \E h \in Handlers : HandlerStep(h) \/ ConfirmFails(h)
  BY <1>2, <1>10, <1>12, <1>17, SparedStands
<1> QED
  BY <1>5, <1>11, <1>14, <1>15, <1>16, <1>17 DEF Next
-----------------------------------------------------------------------------
(* What a step does to the row, to the consumer and to the handlers *)

\* A stored result is never erased.
LEMMA MetricsKept ==
    ASSUME TypeOK, [Next]_vars, NEW t \in Tests, row[t].metrics
    PROVE  row'[t].metrics
<1>1. CASE UNCHANGED row
  BY <1>1
<1>2. ASSUME NEW u \in Tests, Written(u)
      PROVE  row'[t].metrics
  <2>1. row[u] \in Row /\ row[t] \in Row
    BY DEF TypeOK
  <2>2. ASSUME NEW x, Update(u, x)
        PROVE  row'[t] = IF t = u THEN x ELSE row[t]
    BY <2>2 DEF Update, TypeOK
  <2>3. CASE Update(u, InsertPending(row[u])) \/ Update(u, MarkRunning(row[u]))
    BY <2>1, <2>2, <2>3 DEF InsertPending, MarkRunning, Row
  <2>4. CASE Update(u, MarkFailed(row[u])) \/ Update(u, SweepStale(row[u]))
    BY <2>1, <2>2, <2>4 DEF MarkFailed, SweepStale, Row
  <2>5. CASE Update(u, UpsertResult(row[u]))
    BY <2>1, <2>2, <2>5 DEF UpsertResult
  <2>6. ASSUME NEW p \in BOOLEAN, Update(u, MarkCancelled(row[u], p))
        PROVE  row'[t].metrics
    BY <2>1, <2>2, <2>6 DEF MarkCancelled, Row
  <2> QED
    BY <1>1, <1>2, <2>3, <2>4, <2>5, <2>6 DEF Written
<1> QED
  BY <1>1, <1>2, OneStatement

\* Who moves the consumer.
LEMMA ConsumerMoves ==
    ASSUME [Next]_vars
    PROVE  \/ UNCHANGED consumer
           \/ ConsumerStep \/ BrokerCrash \/ ConsumerFails
           \/ \E u \in Tests : LateSave(u)
BY DEF Next, vars, resultVars, Submit, ApiStep, Dispatch, DispatchFails, Cancel,
       PublishCancel, PendingArrives, RunningArrives, Sweep, HandlerStep, CheckStatus,
       LaunchFails, Spawn, K6Exits, RunResolves, RunThrows, PublishResult,
       SaveScriptFails, Acknowledge, NotifyCancelled, NotifyFailed, Retry, ConfirmFails,
       Deliveries, Deliver, Persist, ReceiveCancel, Reconnect, Die, StopProcess, Fault,
       Crash, StatusQueryFails, Disconnect

\* A result in hand is stored, given back, retried or dead-lettered.
LEMMA ResultInHand ==
    ASSUME TypeOK, DeliveryInv, [Next]_vars, NEW t \in Tests, Taken(t)
    PROVE  \/ row'[t].metrics
           \/ Taken(t)'
           \/ \E m \in Messages : m.t = t /\ m.q # "tests" /\ Stands(m)'
<1>0. PICK given \in Messages :
         given = Msg("results", t, consumer.k) /\ consumer.k \in 0..MaxRetries
  BY MessageTypes DEF TypeOK
<1>1. ASSUME \/ ready' = ReturnResult(ready)
             \/ ready' = ReturnResult(GiveBack(Handlers))
      PROVE  Stands(given)' /\ given.t = t /\ given.q # "tests"
  <2>1. /\ ready \in [Messages -> Nat]
        /\ GiveBack(Handlers) \in [Messages -> Nat]
    BY ReturnedTypes DEF TypeOK
  <2>2. ready'[given] > 0
    BY <1>0, <1>1, <2>1, Returned, GivenBack DEF Taken
  <2> QED
    BY <1>0, <2>2 DEF Stands, Msg
<1>2. ASSUME NEW u \in Tests, LateSave(u)
      PROVE  \E m \in Messages : m.t = t /\ m.q # "tests" /\ Stands(m)'
  BY <1>0, <1>1, <1>2 DEF LateSave
<1>3. CASE BrokerCrash \/ ConsumerFails
  BY <1>0, <1>1, <1>3 DEF BrokerCrash, ConsumerFails
<1>4. CASE SaveResultFails
  <2>1. consumer.k < MaxRetries => consumer.k + 1 \in 0..MaxRetries /\ consumer.k + 1 > 0
    BY <1>0, ConstantsAssumption
  <2>2. PICK m \in Messages :
           /\ fresh' = Enqueue(fresh, m)
           /\ m.t = t /\ m.q # "tests" /\ (m.k > 0 \/ m.q \in DLQs)
    <3>1. CASE consumer.k < MaxRetries
      <4>1. fresh' = Enqueue(fresh, Msg("results", t, consumer.k + 1))
        BY <1>4, <3>1 DEF SaveResultFails, Taken
      <4> QED
        BY <2>1, <3>1, <4>1, MessageTypes DEF Msg
    <3>2. CASE ~(consumer.k < MaxRetries)
      <4>1. fresh' = Enqueue(fresh, Msg("results.dlq", t, consumer.k))
        BY <1>4, <3>2 DEF SaveResultFails, Taken
      <4> QED
        BY <1>0, <4>1, MessageTypes DEF Msg, DLQs
    <3> QED
      BY <3>1, <3>2
  <2>4. fresh'[m] > 0
    BY <2>2 DEF Enqueue, TypeOK
  <2> QED
    BY <2>2, <2>4 DEF Stands
<1>5. CASE SaveResult
  BY <1>5 DEF SaveResult, Taken, TypeOK
<1>6. CASE AckResult
  <2>1. row[t].metrics
    BY <1>6 DEF AckResult, Taken, DeliveryInv
  <2> QED
    BY <2>1, MetricsKept
<1>7. CASE UNCHANGED consumer
  BY <1>7 DEF Taken
<1>8. ASSUME NEW u \in Tests, NEW k \in 0..MaxRetries, TakeResult(u, k)
      PROVE  FALSE
  BY <1>8 DEF TakeResult, Taken
<1> QED
  BY <1>2, <1>3, <1>4, <1>5, <1>6, <1>7, <1>8, ConsumerMoves DEF ConsumerStep

LEMMA AnsweredForGood ==
    ASSUME TypeOK, DeliveryInv, [Next]_vars, NEW t \in Tests, Answered(t)
    PROVE  Answered(t)'
<1>1. CASE row[t].metrics
  BY <1>1, MetricsKept DEF Answered
<1>2. CASE Taken(t)
  BY <1>2, ResultInHand DEF Answered
<1>3. ASSUME NEW m \in Messages, m.t = t, m.q # "tests", Stands(m)
      PROVE  Answered(t)'
  BY <1>3, MessageStands DEF Answered
<1> QED
  BY <1>1, <1>2, <1>3 DEF Answered

\* What may happen to a handler in one step: nothing, a delivery, a step of its
\* own, the confirm it waits for, or the loss of its delivery, which the broker
\* then has again.
Disrupted(h) ==
    /\ \/ handler'[h] = IdleHandler
       \/ handler'[h] = [handler[h] EXCEPT !.live = FALSE]
    /\ Holds(h) => \E m \in Messages : /\ m = Msg("tests", Test(h), handler[h].k)
                                       /\ ready'[m] > 0

Confirmed(h) ==
    /\ At(h, "confirming") /\ Goto(h, "acking")
    /\ \E m \in Messages : m = Msg("results", Test(h), 0) /\ ready'[m] > 0

LEMMA HandlerMoves ==
    ASSUME TypeOK, [Next]_vars, NEW h \in Handlers
    PROVE  \/ handler'[h] = handler[h]
           \/ handler[h].pc = "idle" /\ handler'[h].pc = "received"
           \/ HandlerStep(h) \/ ConfirmFails(h) \/ StatusQueryFails(h)
           \/ Confirmed(h)
           \/ Disrupted(h)
<1>0. handler \in [Handlers -> HandlerState]
  BY DEF TypeOK, HandlersTyped
<1>1. ASSUME NEW g \in Handlers, g # h,
             HandlerStep(g) \/ ConfirmFails(g) \/ StatusQueryFails(g)
      PROVE  handler'[h] = handler[h]
  <2>1. CASE K6Exits(g)
    BY <1>0, <1>1, <2>1 DEF K6Exits, Goto
  <2>2. CASE ~K6Exits(g)
    <3>1. \E p : Goto(g, p) \/ AckOr(g, p)
      BY <1>1, <2>2
         DEF HandlerStep, CheckStatus, LaunchFails, Spawn, RunResolves, RunThrows,
             PublishResult, SaveScriptFails, Acknowledge, NotifyCancelled, NotifyFailed,
             Retry, ConfirmFails, StatusQueryFails
    <3> QED
      BY <1>1, <3>1, OneHandlerMoves
  <2> QED
    BY <2>1, <2>2
<1>2. ASSUME NEW n \in Messages, Persist(n)
      PROVE  handler'[h] = handler[h] \/ Confirmed(h)
  <2>1. CASE UNCHANGED handler
    BY <2>1
  <2>2. ASSUME NEW g \in Handlers, At(g, "confirming"), Goto(g, "acking"),
               n = Msg("results", Test(g), 0)
        PROVE  handler'[h] = handler[h] \/ Confirmed(h)
    <3>1. ready'[n] > 0
      BY <1>2 DEF Persist, Enqueue, TypeOK
    <3>2. CASE g = h
      BY <2>2, <3>1, <3>2 DEF Confirmed
    <3>3. CASE g # h
      BY <2>2, <3>3, OneHandlerMoves
    <3> QED
      BY <3>2, <3>3
  <2> QED
    BY <1>2, <2>1, <2>2 DEF Persist
<1>3. ASSUME NEW r \in Replicas, NEW n \in Messages, Deliver(r, n)
      PROVE  handler'[h] = handler[h] \/ (handler[h].pc = "idle" /\ handler'[h].pc = "received")
  <2> DEFINE g == CHOOSE f \in IdleOf(r) : TRUE
  <2>1. g \in Handlers /\ handler[g].pc = "idle"
    BY <1>3 DEF Deliver, IdleOf, Of
  <2> HIDE DEF g
  <2>2. handler' = [handler EXCEPT ![g] = [pc |-> "received", t |-> n.t, k |-> n.k,
                                           live |-> TRUE, metrics |-> FALSE]]
    BY <1>3 DEF Deliver, g
  <2> QED
    BY <1>0, <2>1, <2>2
<1>4. ASSUME NEW S \in SUBSET Handlers, h \in S, Holds(h),
             \A m \in Messages : ready'[m] >= GiveBack(S)[m] /\ ready'[m] \in Nat
      PROVE  \E m \in Messages : m = Msg("tests", Test(h), handler[h].k) /\ ready'[m] > 0
  <2>1. PICK m \in Messages : m = Msg("tests", Test(h), handler[h].k)
    BY <1>4, HandlerInUse, MessageTypes DEF Holds, Test
  <2>2. GiveBack(S)[m] \in Nat /\ GiveBack(S)[m] > 0
    BY <1>4, <2>1, GivenBack
  <2>3. ready'[m] > 0
    BY <1>4, <2>2
  <2> QED
    BY <2>1, <2>3
<1>5. \A S \in SUBSET Handlers : \A m \in Messages : GiveBack(S)[m] \in Nat
  BY GivenBack
<1>6. ASSUME NEW r \in Replicas, StopProcess(r) \/ Disconnect(r)
      PROVE  handler'[h] = handler[h] \/ Disrupted(h)
  <2>1. ready' = GiveBack(Of(r)) /\ Of(r) \in SUBSET Handlers
    BY <1>6 DEF StopProcess, Disconnect, Of
  <2>2. CASE h \in Of(r)
    <3>1. Holds(h) => \E m \in Messages : m = Msg("tests", Test(h), handler[h].k) /\ ready'[m] > 0
      BY <1>4, <1>5, <2>1, <2>2
    <3>2. \/ handler'[h] = IdleHandler
          \/ handler'[h] = [handler[h] EXCEPT !.live = FALSE]
      BY <1>6, <2>2 DEF StopProcess, Disconnect, Severed, Of
    <3> QED
      BY <3>1, <3>2 DEF Disrupted
  <2>3. CASE h \notin Of(r)
    BY <1>6, <2>3 DEF StopProcess, Disconnect, Severed, Of, Leaving
  <2> QED
    BY <2>2, <2>3
<1>7. CASE BrokerCrash
  <2>1. /\ ready' = ReturnResult(GiveBack(Handlers))
        /\ GiveBack(Handlers) \in [Messages -> Nat]
        /\ handler'[h] = [handler[h] EXCEPT !.live = FALSE]
    BY <1>7, ReturnedTypes DEF BrokerCrash, TypeOK
  <2>2. \A m \in Messages : ready'[m] >= GiveBack(Handlers)[m] /\ ready'[m] \in Nat
    BY <2>1, Returned
  <2> QED
    BY <1>4, <2>1, <2>2 DEF Disrupted
<1>8. CASE \/ \E t \in Tests :
                 \/ Submit(t) \/ ApiStep(t) \/ Cancel(t) \/ PublishCancel(t)
                 \/ PendingArrives(t) \/ RunningArrives(t) \/ Sweep(t) \/ LateSave(t)
           \/ \E r \in Replicas, t \in Tests : ReceiveCancel(r, t)
           \/ \E r \in Replicas : Reconnect(r)
           \/ ConsumerStep
           \/ ConsumerFails
           \/ UNCHANGED vars
  BY <1>8 DEF Submit, ApiStep, Dispatch, DispatchFails, Cancel, PublishCancel,
         PendingArrives, RunningArrives, Sweep, LateSave, ReceiveCancel, Reconnect,
         ConsumerStep, TakeResult, SaveResult, SaveResultFails, AckResult, ConsumerFails,
         vars, workerVars
<1>9. CASE Fault
  <2>1. CASE \E r \in Replicas : Crash(r) \/ Disconnect(r)
    BY <1>6, <2>1 DEF Crash
  <2>2. CASE \E g \in Handlers : StatusQueryFails(g)
    BY <1>1, <2>2
  <2> QED
    BY <1>7, <1>8, <1>9, <2>1, <2>2 DEF Fault
<1>10. CASE Deliveries \/ \E n \in Messages : Persist(n)
  BY <1>2, <1>3, <1>10 DEF Deliveries
<1>11. CASE \E g \in Handlers : HandlerStep(g) \/ ConfirmFails(g)
  BY <1>1, <1>11
<1>12. CASE \E r \in Replicas : Die(r)
  BY <1>6, <1>12 DEF Die
<1> QED
  BY <1>8, <1>9, <1>10, <1>11, <1>12 DEF Next

\* A handler acknowledges when the broker has its result, or for a cancel.
LEMMA AckedForReason ==
    ASSUME TypeOK, RequestInv, DeliveryInv, [Next]_vars,
           NEW h \in Handlers, handler'[h].pc \in {"acking", "ackingInCatch"}
    PROVE  (Asked(Test(h)) \/ Answered(Test(h)))'
<1>0. handler \in [Handlers -> HandlerState]
  BY DEF TypeOK, HandlersTyped
<1>1. ASSUME handler'[h].t = handler[h].t, handler[h].t \in Tests,
             Asked(Test(h)) \/ Answered(Test(h))
      PROVE  (Asked(Test(h)) \/ Answered(Test(h)))'
  <2>1. PICK t \in Tests : t = handler[h].t
    BY <1>1
  <2>2. (Asked(t) \/ Answered(t))'
    BY <1>1, <2>1, AskedForGood, AnsweredForGood DEF Test, Asked
  <2> QED
    BY <1>1, <2>1, <2>2 DEF Test
<1>2. ASSUME handler'[h].pc = handler[h].pc, handler'[h].t = handler[h].t
      PROVE  (Asked(Test(h)) \/ Answered(Test(h)))'
  <2>1. handler[h].t \in Tests
    BY <1>2, HandlerInUse
  <2> QED
    BY <1>1, <1>2, <2>1 DEF DeliveryInv
<1>3. CASE handler'[h] = handler[h]
  BY <1>2, <1>3
<1>4. CASE Disrupted(h)
  <2>1. handler'[h] # IdleHandler
    BY DEF IdleHandler
  <2> QED
    BY <1>2, <1>4, <2>1, HandlerResets DEF Disrupted
<1>5. CASE NotifyCancelled(h)
  <2>1. handler[h].pc \in {"stopping", "stoppingInCatch"} /\ Goto(h, handler'[h].pc)
    BY <1>0, <1>5 DEF NotifyCancelled, At, Goto, HandlerState
  <2>2. Asked(Test(h)) /\ handler[h].t \in Tests /\ handler'[h].t = handler[h].t
    BY <1>0, <2>1, HandlerInUse DEF RequestInv, Goto, HandlerState
  <2> QED
    BY <1>1, <2>2
<1>6. CASE Confirmed(h)
  <2>1. PICK m \in Messages : m = Msg("results", Test(h), 0) /\ ready'[m] > 0
    BY <1>6 DEF Confirmed
  <2>2. handler'[h].t = handler[h].t
    BY <1>0, <1>6 DEF Confirmed, Goto, HandlerState
  <2>3. m.t = handler'[h].t /\ m.q # "tests" /\ Stands(m)'
    BY <2>1, <2>2 DEF Msg, Stands, Test
  <2> QED
    BY <2>3 DEF Answered, Test
<1>7. ASSUME HandlerStep(h) \/ ConfirmFails(h) \/ StatusQueryFails(h), ~NotifyCancelled(h)
      PROVE  FALSE
  <2>1. \/ K6Exits(h)
        \/ \E p : /\ p \notin {"acking", "ackingInCatch"}
                  /\ Goto(h, p) \/ AckOr(h, p)
    BY <1>7
       DEF HandlerStep, CheckStatus, LaunchFails, Spawn, RunResolves, RunThrows,
           PublishResult, SaveScriptFails, Acknowledge, NotifyFailed, Retry, ConfirmFails,
           StatusQueryFails
  <2>2. CASE K6Exits(h)
    BY <1>0, <2>2 DEF K6Exits, Goto, HandlerState
  <2>3. ASSUME NEW p, p \notin {"acking", "ackingInCatch"}, Goto(h, p) \/ AckOr(h, p)
        PROVE  FALSE
    BY <1>0, <2>3 DEF Goto, AckOr, HandlerState, IdleHandler
  <2> QED
    BY <2>1, <2>2, <2>3
<1> QED
  BY <1>3, <1>4, <1>5, <1>6, <1>7, HandlerMoves

\* A delivery in somebody's hands stays there, goes back to the broker, is
\* retried, or is acknowledged for a reason.
LEMMA DeliveryInHand ==
    ASSUME TypeOK, RequestInv, DeliveryInv, [Next]_vars,
           NEW h \in Handlers, Holds(h)
    PROVE  \E t \in Tests : t = Test(h) /\ Kept(t)'
<1>0. /\ handler \in [Handlers -> HandlerState]
      /\ handler[h].t \in Tests /\ handler[h].k \in 0..MaxRetries
  BY HandlerInUse DEF TypeOK, HandlersTyped, Holds
<1>1. PICK t \in Tests : t = Test(h)
  BY <1>0 DEF Test
<1> SUFFICES Kept(t)'
  BY <1>1
<1>2. ASSUME Holds(h)', handler'[h].t = t
      PROVE  Kept(t)'
  BY <1>2 DEF Kept, Working, Test
<1>3. ASSUME Asked(t)
      PROVE  Kept(t)'
  BY <1>3, AskedForGood DEF Kept, Asked
<1>4. ASSUME Answered(t)
      PROVE  Kept(t)'
  BY <1>4, AnsweredForGood DEF Kept
<1>5. CASE handler'[h] = handler[h]
  BY <1>1, <1>2, <1>5 DEF Holds, Test
<1>6. CASE Disrupted(h)
  <2>1. PICK m \in Messages : m = Msg("tests", t, handler[h].k) /\ ready'[m] > 0
    BY <1>1, <1>6 DEF Disrupted
  <2> QED
    BY <2>1 DEF Kept, Stands, Msg
<1>7. CASE Confirmed(h)
  BY <1>0, <1>1, <1>2, <1>7 DEF Confirmed, Goto, Holds, HandlerState, Test
<1>8. ASSUME NEW p \in Steps, Goto(h, p)
      PROVE  Kept(t)'
  <2>1. handler'[h].pc = p /\ handler'[h].live /\ handler'[h].t = t
    BY <1>0, <1>1, <1>8 DEF Goto, HandlerState, Holds, Test
  <2> QED
    BY <1>2, <2>1 DEF Holds, Steps
<1>9. CASE CheckStatus(h)
  <2>1. row[t].status = "cancelled" => Asked(t)
    BY DEF RequestInv, CancelledOnlyOnRequest, Asked
  <2> QED
    BY <1>1, <1>3, <1>8, <1>9, <2>1 DEF CheckStatus, Steps
<1>10. CASE Acknowledge(h)
  <2>1. Asked(t) \/ Answered(t)
    BY <1>1, <1>10 DEF Acknowledge, At, DeliveryInv
  <2> QED
    BY <1>3, <1>4, <2>1
<1>11. CASE Retry(h)
  <2>1. Republished(h) \in Messages /\ fresh' = Enqueue(fresh, Republished(h))
    BY <1>11, RepublishedType DEF Retry, Holds
  <2>2. PICK m \in Messages : m = Republished(h) /\ fresh'[m] > 0
    BY <2>1 DEF Enqueue, TypeOK
  <2>3. m.t = t /\ (m.k > 0 \/ m.q \in DLQs)
    <3>1. CASE handler[h].k < MaxRetries
      BY <1>0, <1>1, <2>2, <3>1, ConstantsAssumption DEF Republished, Msg
    <3>2. CASE ~(handler[h].k < MaxRetries)
      BY <1>1, <2>2, <3>2 DEF Republished, Msg, DLQs
    <3> QED
      BY <3>1, <3>2
  <2> QED
    BY <2>2, <2>3 DEF Kept, Stands
<1>12. CASE K6Exits(h)
  BY <1>0, <1>1, <1>2, <1>8, <1>12 DEF K6Exits, HandlerState, Holds, Test, Steps
<1>13. ASSUME HandlerStep(h) \/ ConfirmFails(h) \/ StatusQueryFails(h),
              ~CheckStatus(h), ~Acknowledge(h), ~Retry(h), ~K6Exits(h)
       PROVE  Kept(t)'
  <2>1. \E p \in Steps : Goto(h, p)
    BY <1>13
       DEF HandlerStep, LaunchFails, Spawn, RunResolves, RunThrows, PublishResult,
           SaveScriptFails, NotifyCancelled, NotifyFailed, ConfirmFails,
           StatusQueryFails, Steps
  <2> QED
    BY <1>8, <2>1
<1> QED
  BY <1>5, <1>6, <1>7, <1>9, <1>10, <1>11, <1>12, <1>13, HandlerMoves DEF Holds

LEMMA KeptForGood ==
    ASSUME TypeOK, RequestInv, DeliveryInv, [Next]_vars, NEW t \in Tests, Kept(t)
    PROVE  Kept(t)'
<1>1. CASE Asked(t)
  BY <1>1, AskedForGood DEF Kept, Asked
<1>2. CASE Answered(t)
  BY <1>2, AnsweredForGood DEF Kept
<1>3. ASSUME NEW h \in Handlers, Holds(h), Test(h) = t
      PROVE  Kept(t)'
  BY <1>3, DeliveryInHand
<1>4. ASSUME NEW m \in Messages, m.t = t, Stands(m)
      PROVE  Kept(t)'
  BY <1>4, MessageStands DEF Kept, Answered
<1> QED
  BY <1>1, <1>2, <1>3, <1>4 DEF Kept, Working

\* A test becomes accepted when its message has been confirmed.
LEMMA AcceptedIsKept ==
    ASSUME TypeOK, RequestInv, DeliveryInv, [Next]_vars,
           NEW t \in Tests, request'[t] = "accepted"
    PROVE  Kept(t)'
<1>1. CASE request[t] = "accepted"
  BY <1>1, KeptForGood DEF DeliveryInv
<1>2. CASE Dispatch(t)
  <2>1. PICK m \in Messages : m = Msg("tests", t, 0) /\ ready' = Enqueue(ready, m)
    BY <1>2, MessageTypes, ConstantsAssumption DEF Dispatch
  <2>2. ready'[m] > 0
    BY <2>1 DEF Enqueue, TypeOK
  <2> QED
    BY <2>1, <2>2 DEF Kept, Stands, Msg
<1>3. request[t] = "accepted" \/ Dispatch(t)
  <2>1. ASSUME NEW u \in Tests, Submit(u) \/ DispatchFails(u)
        PROVE  request[t] = "accepted"
    BY <2>1 DEF Submit, DispatchFails, TypeOK
  <2>2. ASSUME NEW u \in Tests, Dispatch(u)
        PROVE  request[t] = "accepted" \/ Dispatch(t)
    BY <2>2 DEF Dispatch, TypeOK
  <2>3. CASE ~UNCHANGED request
    <3>1. \E u \in Tests : Submit(u) \/ ApiStep(u)
      BY <2>3 DEF Next, vars, apiVars, Cancel, PublishCancel,
           PendingArrives, RunningArrives, Sweep, LateSave, HandlerStep, CheckStatus,
           LaunchFails, Spawn, K6Exits, RunResolves, RunThrows, PublishResult,
           SaveScriptFails, Acknowledge, NotifyCancelled, NotifyFailed, Retry, ConfirmFails,
           Deliveries, Deliver, Persist, ReceiveCancel, Reconnect, Die, StopProcess,
           ConsumerStep, TakeResult, SaveResult, SaveResultFails, AckResult, Fault, Crash,
           StatusQueryFails, Disconnect, BrokerCrash, ConsumerFails
    <3> QED
      BY <2>1, <2>2, <3>1 DEF ApiStep
  <2> QED
    BY <2>3
<1> QED
  BY <1>1, <1>2, <1>3

\* The consumer comes to 'saved' by storing the result.
LEMMA SavedIsStored ==
    ASSUME TypeOK, DeliveryInv, [Next]_vars, consumer'.pc = "saved"
    PROVE  row'[consumer'.t].metrics
<1>1. CASE UNCHANGED consumer
  <2>1. consumer.t \in Tests /\ row[consumer.t].metrics
    BY <1>1 DEF DeliveryInv, TypeOK
  <2> QED
    BY <1>1, <2>1, MetricsKept
<1>2. CASE SaveResult
  BY <1>2 DEF SaveResult, Update, UpsertResult, TypeOK
<1>3. CASE \/ BrokerCrash \/ ConsumerFails \/ SaveResultFails \/ AckResult
           \/ \E u \in Tests : LateSave(u)
           \/ \E u \in Tests, k \in 0..MaxRetries : TakeResult(u, k)
  BY <1>3 DEF BrokerCrash, ConsumerFails, SaveResultFails, AckResult, LateSave, TakeResult,
              IdleConsumer
<1> QED
  BY <1>1, <1>2, <1>3, ConsumerMoves DEF ConsumerStep

LEMMA DeliveryInit == Init => DeliveryInv
BY DEF Init, DeliveryInv, IdleHandler, IdleConsumer

\* What stands is in a queue, or is a loss that NothingLost admits.
LEMMA KeptIsNotLost == TypeOK /\ DeliveryInv => NothingLost
<1> SUFFICES ASSUME TypeOK, DeliveryInv, NEW t \in Tests,
                    request[t] = "accepted", cancelReq[t] = "none"
             PROVE  Owed(t) \/ HasResult(t) \/ DeadLettered(t) \/ LostUnconfirmed(t)
  BY DEF NothingLost
<1>1. ASSUME NEW m \in Messages, m.t = t, Stands(m)
      PROVE  Owed(t) \/ HasResult(t) \/ DeadLettered(t) \/ LostUnconfirmed(t)
  <2>1. CASE m \in lost /\ (m.k > 0 \/ m.q \in DLQs)
    BY <1>1, <2>1 DEF LostUnconfirmed
  <2>2. CASE ready[m] > 0 \/ fresh[m] > 0
    <3>1. m.k \in 0..MaxRetries /\ m = Msg(m.q, t, m.k)
          /\ m.q \in {"tests", "results", "tests.dlq", "results.dlq"}
      BY <1>1 DEF Messages, Msg, Queues, DLQs
    <3>2. InFlight(m.q, t)
      BY <2>2, <3>1 DEF InFlight
    <3> QED
      BY <3>1, <3>2 DEF Owed, HasResult, DeadLettered, DLQs
  <2> QED
    BY <1>1, <2>1, <2>2 DEF Stands
<1>2. Kept(t)
  BY DEF DeliveryInv
<1> QED
  BY <1>1, <1>2 DEF Kept, Answered, Asked, Taken, HasResult, Owed

\* A test whose client was told it is queued, and that nobody cancelled, is
\* owed a run, has a result, is in a dead-letter queue, or had its unconfirmed
\* retry dropped by the broker: whatever crashes, disconnects or is repeated,
\* a delivery is acknowledged only after what replaces it was confirmed, or
\* was published by a retry that the code does not wait for.
THEOREM NothingLostCorrect == Spec => []NothingLost
<1>1. TypeOK /\ RequestInv /\ DeliveryInv /\ [Next]_vars => DeliveryInv'
  <2> SUFFICES ASSUME TypeOK, RequestInv, DeliveryInv, [Next]_vars PROVE DeliveryInv'
    OBVIOUS
  <2>1. \A t \in Tests : request'[t] = "accepted" => Kept(t)'
    BY AcceptedIsKept
  <2>2. \A h \in Handlers : handler'[h].pc \in {"acking", "ackingInCatch"} =>
           (Asked(Test(h)) \/ Answered(Test(h)))'
    BY AckedForReason
  <2>3. consumer'.pc = "saved" => row'[consumer'.t].metrics
    BY SavedIsStored
  <2> QED
    BY <2>1, <2>2, <2>3 DEF DeliveryInv
<1>2. Spec => []DeliveryInv
  BY <1>1, DeliveryInit, RequestCorrect, TypeCorrect, PTL DEF Spec
<1> QED
  BY <1>2, KeptIsNotLost, TypeCorrect, PTL

-----------------------------------------------------------------------------
(* The copies of a test.  Copies is a sum over the retry counts, computed by *)
(* a recursive function: a function that satisfies its equation is found for *)
(* each change of a bag, and is the one Copies computes, as two of them      *)
(* would differ first somewhere.                                             *)

LEMMA Least ==
    ASSUME NEW S \in SUBSET Nat, S # {}
    PROVE  \E n \in S : \A k \in S : n <= k
<1>1. PICK n \in S : \A k \in S : ~(<<k, n>> \in OpToRel(<, Nat))
  BY NatLessThanWellFounded, WFMin
<1>2. \A k \in S : ~(k < n)
  BY <1>1 DEF OpToRel
<1> QED
  BY <1>2

\* c counts the copies of q for t up to each retry count.
Counts(c, n, bag, q, t) ==
    /\ c \in [0..n -> Nat]
    /\ \A k \in 0..n : c[k] = bag[Msg(q, t, k)] + IF k = 0 THEN 0 ELSE c[k - 1]

LEMMA CountsStart ==
    ASSUME NEW bag, NEW q, NEW t, bag[Msg(q, t, 0)] \in Nat
    PROVE  \E c : Counts(c, 0, bag, q, t)
<1> DEFINE c == [k \in 0..0 |-> bag[Msg(q, t, k)]]
<1>1. Counts(c, 0, bag, q, t)
  BY DEF Counts
<1> QED
  BY <1>1

LEMMA CountsNext ==
    ASSUME NEW bag, NEW q, NEW t, NEW n \in Nat, n > 0, bag[Msg(q, t, n)] \in Nat,
           NEW d, Counts(d, n - 1, bag, q, t)
    PROVE  \E c : Counts(c, n, bag, q, t)
<1> DEFINE c == [k \in 0..n |-> IF k = n THEN bag[Msg(q, t, n)] + d[n - 1] ELSE d[k]]
<1>1. n - 1 \in 0..(n - 1) /\ d \in [0..(n - 1) -> Nat] /\ d[n - 1] \in Nat
  BY DEF Counts
<1>2. c \in [0..n -> Nat]
  BY <1>1
<1>3. ASSUME NEW k \in 0..n
      PROVE  c[k] = bag[Msg(q, t, k)] + IF k = 0 THEN 0 ELSE c[k - 1]
  <2>1. CASE k = n
    BY <2>1
  <2>2. CASE k # n
    <3>1. k \in 0..(n - 1) /\ (k # 0 => k - 1 \in 0..n /\ k - 1 # n)
      BY <2>2
    <3>2. c[k] = d[k] /\ (k # 0 => c[k - 1] = d[k - 1])
      BY <2>2, <3>1
    <3> HIDE DEF c
    <3> QED
      BY <3>1, <3>2 DEF Counts
  <2> QED
    BY <2>1, <2>2
<1> HIDE DEF c
<1>4. Counts(c, n, bag, q, t)
  BY <1>2, <1>3 DEF Counts
<1> QED
  BY <1>4

LEMMA CountsExist ==
    ASSUME NEW bag \in [Messages -> Nat], NEW q \in Queues \cup DLQs, NEW t \in Tests
    PROVE  \E c : Counts(c, MaxRetries, bag, q, t)
<1> DEFINE S == {n \in 0..MaxRetries : ~ \E c : Counts(c, n, bag, q, t)}
<1>1. \A n \in 0..MaxRetries : bag[Msg(q, t, n)] \in Nat
  BY DEF Messages, Msg
<1>2. S = {}
  <2> SUFFICES ASSUME S # {} PROVE FALSE
    OBVIOUS
  <2>1. S \in SUBSET Nat
    OBVIOUS
  <2>2. PICK n \in S : \A k \in S : n <= k
    <3> HIDE DEF S
    <3> QED
      BY <2>1, Least
  <2>3. n \in Nat /\ n \in 0..MaxRetries /\ bag[Msg(q, t, n)] \in Nat
    BY <1>1
  <2>4. CASE n = 0
    <3>1. \E c : Counts(c, n, bag, q, t)
      BY <2>3, <2>4, CountsStart
    <3> QED
      BY <3>1
  <2>5. CASE n # 0
    <3>1. n - 1 \notin S /\ n - 1 \in 0..MaxRetries
      BY <2>2, <2>3, <2>5, ConstantsAssumption
    <3>2. PICK d : Counts(d, n - 1, bag, q, t)
      BY <3>1
    <3>3. \E c : Counts(c, n, bag, q, t)
      BY <2>3, <2>5, <3>2, CountsNext
    <3> QED
      BY <3>3
  <2> QED
    BY <2>4, <2>5
<1>3. MaxRetries \in 0..MaxRetries
  BY ConstantsAssumption
<1>4. MaxRetries \notin S
  BY <1>2
<1> QED
  BY <1>3, <1>4

LEMMA CountsUnique ==
    ASSUME NEW bag, NEW q, NEW t, NEW c, NEW d, Counts(c, MaxRetries, bag, q, t),
           \A k \in 0..MaxRetries : d[k] = bag[Msg(q, t, k)] + IF k = 0 THEN 0 ELSE d[k - 1]
    PROVE  d[MaxRetries] = c[MaxRetries]
<1> DEFINE S == {n \in 0..MaxRetries : d[n] # c[n]}
<1>0. MaxRetries \in Nat
  BY ConstantsAssumption
<1>1. \A k \in 0..MaxRetries : d[k] = bag[Msg(q, t, k)] + IF k = 0 THEN 0 ELSE d[k - 1]
  OBVIOUS
<1>2. \A k \in 0..MaxRetries : c[k] = bag[Msg(q, t, k)] + IF k = 0 THEN 0 ELSE c[k - 1]
  BY DEF Counts
<1>3. S = {}
  <2> SUFFICES ASSUME S # {} PROVE FALSE
    OBVIOUS
  <2>1. S \in SUBSET Nat
    OBVIOUS
  <2>2. PICK n \in S : \A k \in S : n <= k
    <3> HIDE DEF S
    <3> QED
      BY <2>1, Least
  <2>3. n \in 0..MaxRetries /\ d[n] # c[n]
    OBVIOUS
  <2>4. CASE n = 0
    <3>1. d[n] = bag[Msg(q, t, n)] + 0 /\ c[n] = bag[Msg(q, t, n)] + 0
      BY <1>1, <1>2, <2>3, <2>4
    <3> QED
      BY <2>3, <3>1
  <2>5. CASE n # 0
    <3>1. n - 1 \in 0..MaxRetries /\ ~(n <= n - 1)
      BY <1>0, <2>3, <2>5
    <3>2. n - 1 \notin S
      BY <2>2, <3>1
    <3>3. d[n - 1] = c[n - 1]
      BY <3>1, <3>2
    <3>4. d[n] = bag[Msg(q, t, n)] + d[n - 1] /\ c[n] = bag[Msg(q, t, n)] + c[n - 1]
      BY <1>1, <1>2, <2>3, <2>5
    <3> QED
      BY <2>3, <3>3, <3>4
  <2> QED
    BY <2>4, <2>5
<1>4. MaxRetries \in 0..MaxRetries
  BY <1>0
<1> QED
  BY <1>3, <1>4

\* What Copies computes.
LEMMA CopiesAre ==
    ASSUME NEW bag, NEW q, NEW t, NEW c, Counts(c, MaxRetries, bag, q, t)
    PROVE  Copies(bag, q, t) = c[MaxRetries] /\ Copies(bag, q, t) \in Nat
<1> DEFINE F(x) == [k \in 0..MaxRetries |-> bag[Msg(q, t, k)] + IF k = 0 THEN 0 ELSE x[k - 1]]
           d == CHOOSE x : x = F(x)
<1>1. c = F(c)
  <2>1. c = [k \in 0..MaxRetries |-> c[k]]
    BY DEF Counts
  <2>2. \A k \in 0..MaxRetries : c[k] = bag[Msg(q, t, k)] + IF k = 0 THEN 0 ELSE c[k - 1]
    BY DEF Counts
  <2> QED
    BY <2>1, <2>2
<1>2. d = F(d)
  <2> HIDE DEF F
  <2> QED
    BY <1>1
<1>3. Copies(bag, q, t) = d[MaxRetries]
  BY DEF Copies
<1> HIDE DEF d
<1>4. d[MaxRetries] = c[MaxRetries]
  <2>1. \A k \in 0..MaxRetries : d[k] = bag[Msg(q, t, k)] + IF k = 0 THEN 0 ELSE d[k - 1]
    <3> DEFINE g == [k \in 0..MaxRetries |-> bag[Msg(q, t, k)] + IF k = 0 THEN 0 ELSE d[k - 1]]
    <3>1. d = g
      BY <1>2
    <3>2. \A k \in 0..MaxRetries : g[k] = bag[Msg(q, t, k)] + IF k = 0 THEN 0 ELSE d[k - 1]
      OBVIOUS
    <3> HIDE DEF g
    <3> QED
      BY <3>1, <3>2
  <2> QED
    BY <2>1, CountsUnique
<1>5. c[MaxRetries] \in Nat
  <2>1. MaxRetries \in 0..MaxRetries
    BY ConstantsAssumption
  <2> QED
    BY <2>1 DEF Counts
<1> QED
  BY <1>3, <1>4, <1>5

LEMMA CopiesType ==
    ASSUME NEW bag \in [Messages -> Nat], NEW q \in Queues \cup DLQs, NEW t \in Tests
    PROVE  Copies(bag, q, t) \in Nat
<1>1. PICK c : Counts(c, MaxRetries, bag, q, t)
  BY CountsExist
<1> QED
  BY <1>1, CopiesAre

\* Only the messages of the test in the queue count.
LEMMA CopiesSame ==
    ASSUME NEW bag \in [Messages -> Nat], NEW new, NEW q \in Queues \cup DLQs, NEW t \in Tests,
           \A k \in 0..MaxRetries : new[Msg(q, t, k)] = bag[Msg(q, t, k)]
    PROVE  Copies(new, q, t) = Copies(bag, q, t)
<1>1. PICK c : Counts(c, MaxRetries, bag, q, t)
  BY CountsExist
<1>2. Counts(c, MaxRetries, new, q, t)
  BY <1>1 DEF Counts
<1> QED
  BY <1>1, <1>2, CopiesAre

\* Adding the messages f of a set of handlers adds as many copies as are of q for t.
SentBy(f, m, S)    == {h \in S : f[h] = m}
SentTo(f, q, t, S) == {h \in S : f[h].q = q /\ f[h].t = t}

\* new is bag with one message f[h] more for each handler of S.
Added(new, bag, f, S) == \A m \in Messages : new[m] = bag[m] + Cardinality(SentBy(f, m, S))

LEMMA CopiesAdded ==
    ASSUME NEW bag \in [Messages -> Nat], NEW S \in SUBSET Handlers, NEW f \in [S -> Messages],
           NEW new, Added(new, bag, f, S), NEW q \in Queues \cup DLQs, NEW t \in Tests
    PROVE  Copies(new, q, t) = Copies(bag, q, t) + Cardinality(SentTo(f, q, t, S))
<1> USE DEF Added, SentBy, SentTo
<1> DEFINE Upto(k) == {h \in S : f[h].q = q /\ f[h].t = t /\ f[h].k <= k}
           One(k)  == {h \in S : f[h] = Msg(q, t, k)}
<1>0. MaxRetries \in Nat
  BY ConstantsAssumption
<1>1. PICK c : Counts(c, MaxRetries, bag, q, t)
  BY CountsExist
<1>2. \A h \in S : f[h].k \in 0..MaxRetries /\ f[h] = Msg(f[h].q, f[h].t, f[h].k)
  BY DEF Messages, Msg
<1>3. ASSUME NEW k \in 0..MaxRetries
      PROVE  /\ IsFiniteSet(Upto(k)) /\ Cardinality(Upto(k)) \in Nat
             /\ IsFiniteSet(One(k)) /\ Cardinality(One(k)) \in Nat
  <2>1. Upto(k) \in SUBSET Handlers /\ One(k) \in SUBSET Handlers
    OBVIOUS
  <2> HIDE DEF Upto, One
  <2> QED
    BY <2>1, HandlerCount
<1>4. ASSUME NEW k \in 0..MaxRetries
      PROVE  Cardinality(Upto(k)) = Cardinality(One(k)) + IF k = 0 THEN 0 ELSE Cardinality(Upto(k - 1))
  <2>1. CASE k = 0
    <3>1. \A h \in S : f[h].q = q /\ f[h].t = t /\ f[h].k <= k <=> f[h] = Msg(q, t, k)
      BY <1>2, <2>1 DEF Msg
    <3>2. Upto(k) = One(k)
      BY <3>1
    <3> HIDE DEF Upto, One
    <3> QED
      BY <1>3, <2>1, <3>2
  <2>2. CASE k # 0
    <3>1. k - 1 \in 0..MaxRetries
      BY <1>0, <2>2
    <3>2. \A h \in S : f[h].k <= k <=> f[h].k <= k - 1 \/ f[h].k = k
      BY <1>0, <1>2
    <3>3. \A h \in S : (f[h].q = q /\ f[h].t = t /\ f[h].k = k <=> f[h] = Msg(q, t, k)) /\ ~(k <= k - 1)
      BY <1>0, <1>2 DEF Msg
    <3>4. Upto(k) = Upto(k - 1) \cup One(k)
      BY <3>2, <3>3
    <3>5. Upto(k - 1) \cap One(k) = {}
      BY <3>3 DEF Msg
    <3>6. /\ IsFiniteSet(Upto(k - 1)) /\ Cardinality(Upto(k - 1)) \in Nat
          /\ IsFiniteSet(One(k)) /\ Cardinality(One(k)) \in Nat
      BY <1>3, <3>1
    <3> HIDE DEF Upto, One
    <3>7. Cardinality(Upto(k)) = Cardinality(Upto(k - 1)) + Cardinality(One(k)) - Cardinality({})
      BY <3>4, <3>5, <3>6, FS_Union
    <3> QED
      BY <2>2, <3>6, <3>7, FS_EmptySet
  <2> QED
    BY <2>1, <2>2
<1> DEFINE d == [k \in 0..MaxRetries |-> c[k] + Cardinality(Upto(k))]
<1>5. c \in [0..MaxRetries -> Nat] /\ \A k \in 0..MaxRetries : c[k] = bag[Msg(q, t, k)] + IF k = 0 THEN 0 ELSE c[k - 1]
  BY <1>1 DEF Counts
<1>6. ASSUME NEW k \in 0..MaxRetries
      PROVE  d[k] = new[Msg(q, t, k)] + IF k = 0 THEN 0 ELSE d[k - 1]
  <2>1. Msg(q, t, k) \in Messages /\ bag[Msg(q, t, k)] \in Nat
    BY DEF Msg, Messages
  <2>2. new[Msg(q, t, k)] = bag[Msg(q, t, k)] + Cardinality(One(k))
    BY <2>1
  <2>3. d[k] = c[k] + Cardinality(Upto(k))
    OBVIOUS
  <2>4. k # 0 => k - 1 \in 0..MaxRetries /\ d[k - 1] = c[k - 1] + Cardinality(Upto(k - 1))
    BY <1>0
  <2>5. k # 0 => c[k - 1] \in Nat /\ Cardinality(Upto(k - 1)) \in Nat
    BY <1>3, <1>5, <2>4
  <2>6. /\ c[k] = bag[Msg(q, t, k)] + IF k = 0 THEN 0 ELSE c[k - 1]
        /\ Cardinality(Upto(k)) = Cardinality(One(k)) + IF k = 0 THEN 0 ELSE Cardinality(Upto(k - 1))
        /\ Cardinality(One(k)) \in Nat
    BY <1>3, <1>4, <1>5
  <2> HIDE DEF d, Upto, One
  <2> QED
    BY <2>1, <2>2, <2>3, <2>4, <2>5, <2>6
<1>7. d \in [0..MaxRetries -> Nat]
  <2>1. \A k \in 0..MaxRetries : c[k] + Cardinality(Upto(k)) \in Nat
    <3> SUFFICES ASSUME NEW k \in 0..MaxRetries PROVE c[k] + Cardinality(Upto(k)) \in Nat
      OBVIOUS
    <3>1. Cardinality(Upto(k)) \in Nat /\ c[k] \in Nat
      BY <1>3, <1>5
    <3> HIDE DEF Upto
    <3> QED
      BY <3>1
  <2> HIDE DEF Upto
  <2> QED
    BY <2>1
<1>8. d[MaxRetries] = c[MaxRetries] + Cardinality(Upto(MaxRetries))
  BY <1>0
<1>9. Upto(MaxRetries) = {h \in S : f[h].q = q /\ f[h].t = t}
  BY <1>0, <1>2
<1> HIDE DEF d, Upto
<1>10. Counts(d, MaxRetries, new, q, t)
  BY <1>6, <1>7 DEF Counts
<1> QED
  BY <1>1, <1>8, <1>9, <1>10, CopiesAre

LEMMA CopiesEnqueue ==
    ASSUME NEW bag \in [Messages -> Nat], NEW m \in Messages, NEW q \in Queues \cup DLQs, NEW t \in Tests
    PROVE  Copies(Enqueue(bag, m), q, t) = Copies(bag, q, t) + IF m.q = q /\ m.t = t THEN 1 ELSE 0
<1> DEFINE w(k) == IF m.q = q /\ m.t = t /\ m.k <= k THEN 1 ELSE 0
<1>0. MaxRetries \in Nat /\ m.k \in 0..MaxRetries /\ m = Msg(m.q, m.t, m.k)
  BY ConstantsAssumption DEF Messages, Msg
<1>1. PICK c : Counts(c, MaxRetries, bag, q, t)
  BY CountsExist
<1>2. c \in [0..MaxRetries -> Nat] /\ \A k \in 0..MaxRetries : c[k] = bag[Msg(q, t, k)] + IF k = 0 THEN 0 ELSE c[k - 1]
  BY <1>1 DEF Counts
<1> DEFINE d == [k \in 0..MaxRetries |-> c[k] + w(k)]
<1>3. ASSUME NEW k \in 0..MaxRetries
      PROVE  d[k] = Enqueue(bag, m)[Msg(q, t, k)] + IF k = 0 THEN 0 ELSE d[k - 1]
  <2>1. Msg(q, t, k) \in Messages /\ bag[Msg(q, t, k)] \in Nat /\ (m = Msg(q, t, k) <=> m.q = q /\ m.t = t /\ m.k = k)
    <3>1. Msg(q, t, k) \in Messages
      BY DEF Msg, Messages
    <3>2. m = Msg(q, t, k) => m.q = q /\ m.t = t /\ m.k = k
      BY DEF Msg
    <3>3. m.q = q /\ m.t = t /\ m.k = k => m = Msg(q, t, k)
      BY <1>0
    <3> QED
      BY <3>1, <3>2, <3>3
  <2>2. Enqueue(bag, m)[Msg(q, t, k)] = bag[Msg(q, t, k)] + IF m.q = q /\ m.t = t /\ m.k = k THEN 1 ELSE 0
    BY <2>1 DEF Enqueue
  <2>3. d[k] = c[k] + w(k) /\ (k # 0 => k - 1 \in 0..MaxRetries /\ d[k - 1] = c[k - 1] + w(k - 1))
    BY <1>0
  <2>4. w(k) = (IF m.q = q /\ m.t = t /\ m.k = k THEN 1 ELSE 0) + IF k = 0 THEN 0 ELSE w(k - 1)
    BY <1>0
  <2>5. c[k] = bag[Msg(q, t, k)] + (IF k = 0 THEN 0 ELSE c[k - 1]) /\ (k # 0 => c[k - 1] \in Nat)
    BY <1>2, <2>3
  <2>6. w(k) \in Nat /\ w(k - 1) \in Nat
    OBVIOUS
  <2> HIDE DEF d, w
  <2> QED
    BY <2>1, <2>2, <2>3, <2>4, <2>5, <2>6
<1>4. d \in [0..MaxRetries -> Nat]
  BY <1>2
<1>5. d[MaxRetries] = c[MaxRetries] + IF m.q = q /\ m.t = t THEN 1 ELSE 0
  BY <1>0
<1> HIDE DEF d
<1>6. Counts(d, MaxRetries, Enqueue(bag, m), q, t)
  BY <1>3, <1>4 DEF Counts
<1> QED
  BY <1>1, <1>5, <1>6, CopiesAre

LEMMA CopiesDequeue ==
    ASSUME NEW bag \in [Messages -> Nat], NEW m \in Messages, bag[m] > 0, NEW q \in Queues \cup DLQs, NEW t \in Tests
    PROVE  Copies(Dequeue(bag, m), q, t) = Copies(bag, q, t) - IF m.q = q /\ m.t = t THEN 1 ELSE 0
<1>1. Dequeue(bag, m) \in [Messages -> Nat]
  BY BagTypes
<1>2. Enqueue(Dequeue(bag, m), m) = bag
  <2> DEFINE x == Enqueue(Dequeue(bag, m), m)
  <2>1. x \in [Messages -> Nat]
    BY <1>1, BagTypes
  <2>2. ASSUME NEW n \in Messages PROVE x[n] = bag[n]
    <3>1. bag[n] \in Nat /\ bag[m] \in Nat
      OBVIOUS
    <3> QED
      BY <3>1 DEF Enqueue, Dequeue
  <2> HIDE DEF x
  <2>3. x = bag
    BY <2>1, <2>2
  <2> QED
    BY <2>3 DEF x
<1>3. Copies(bag, q, t) = Copies(Dequeue(bag, m), q, t) + IF m.q = q /\ m.t = t THEN 1 ELSE 0
  BY <1>1, <1>2, CopiesEnqueue
<1>4. Copies(bag, q, t) \in Nat /\ Copies(Dequeue(bag, m), q, t) \in Nat
  BY <1>1, CopiesType
<1> QED
  BY <1>3, <1>4

-----------------------------------------------------------------------------
(* What a step does to the copies of a test.  A step adds a copy only when   *)
(* the test is dispatched; a fault adds at most one for each delivery held.  *)

TestQueues     == {"tests", "tests.dlq"}
TestsIn(bag, t) == Copies(bag, "tests", t) + Copies(bag, "tests.dlq", t)
Total(t)       == TestsIn(ready, t) + TestsIn(fresh, t) + Cardinality(Working(t))

LEMMA TestsInType ==
    ASSUME NEW bag \in [Messages -> Nat], NEW t \in Tests
    PROVE  TestsIn(bag, t) \in Nat
<1>1. Copies(bag, "tests", t) \in Nat /\ Copies(bag, "tests.dlq", t) \in Nat
  BY CopiesType DEF Queues, DLQs
<1> QED
  BY <1>1 DEF TestsIn

LEMMA TestsInSame ==
    ASSUME NEW bag \in [Messages -> Nat], NEW new, NEW t \in Tests,
           \A m \in Messages : m.q \in TestQueues => new[m] = bag[m]
    PROVE  TestsIn(new, t) = TestsIn(bag, t)
<1>1. \A k \in 0..MaxRetries : Msg("tests", t, k) \in Messages /\ Msg("tests.dlq", t, k) \in Messages
  BY DEF Messages, Msg, Queues, DLQs
<1>2. \A k \in 0..MaxRetries : /\ new[Msg("tests", t, k)] = bag[Msg("tests", t, k)]
                               /\ new[Msg("tests.dlq", t, k)] = bag[Msg("tests.dlq", t, k)]
  BY <1>1 DEF Msg, TestQueues
<1>3. Copies(new, "tests", t) = Copies(bag, "tests", t) /\ Copies(new, "tests.dlq", t) = Copies(bag, "tests.dlq", t)
  BY <1>2, CopiesSame DEF Queues, DLQs
<1> QED
  BY <1>3 DEF TestsIn

LEMMA TestsInEnqueue ==
    ASSUME NEW bag \in [Messages -> Nat], NEW m \in Messages, NEW t \in Tests
    PROVE  TestsIn(Enqueue(bag, m), t) = TestsIn(bag, t) + IF m.q \in TestQueues /\ m.t = t THEN 1 ELSE 0
<1>1. /\ Copies(Enqueue(bag, m), "tests", t) = Copies(bag, "tests", t) + IF m.q = "tests" /\ m.t = t THEN 1 ELSE 0
      /\ Copies(Enqueue(bag, m), "tests.dlq", t)
           = Copies(bag, "tests.dlq", t) + IF m.q = "tests.dlq" /\ m.t = t THEN 1 ELSE 0
  BY CopiesEnqueue DEF Queues, DLQs
<1>2. Copies(bag, "tests", t) \in Nat /\ Copies(bag, "tests.dlq", t) \in Nat
  BY CopiesType DEF Queues, DLQs
<1> QED
  BY <1>1, <1>2 DEF TestsIn, TestQueues

LEMMA TestsInDequeue ==
    ASSUME NEW bag \in [Messages -> Nat], NEW m \in Messages, bag[m] > 0, NEW t \in Tests
    PROVE  TestsIn(Dequeue(bag, m), t) = TestsIn(bag, t) - IF m.q \in TestQueues /\ m.t = t THEN 1 ELSE 0
<1>1. /\ Copies(Dequeue(bag, m), "tests", t) = Copies(bag, "tests", t) - IF m.q = "tests" /\ m.t = t THEN 1 ELSE 0
      /\ Copies(Dequeue(bag, m), "tests.dlq", t)
           = Copies(bag, "tests.dlq", t) - IF m.q = "tests.dlq" /\ m.t = t THEN 1 ELSE 0
  BY CopiesDequeue DEF Queues, DLQs
<1>2. Copies(bag, "tests", t) \in Nat /\ Copies(bag, "tests.dlq", t) \in Nat
  BY CopiesType DEF Queues, DLQs
<1> QED
  BY <1>1, <1>2 DEF TestsIn, TestQueues

LEMMA TestsInAdded ==
    ASSUME NEW bag \in [Messages -> Nat], NEW S \in SUBSET Handlers, NEW f \in [S -> Messages],
           NEW new, Added(new, bag, f, S), NEW t \in Tests, NEW B,
           B = {h \in S : f[h].q \in TestQueues /\ f[h].t = t}
    PROVE  TestsIn(new, t) = TestsIn(bag, t) + Cardinality(B)
<1> DEFINE A == SentTo(f, "tests", t, S)
           D == SentTo(f, "tests.dlq", t, S)
<1>1. /\ Copies(new, "tests", t) = Copies(bag, "tests", t) + Cardinality(A)
      /\ Copies(new, "tests.dlq", t) = Copies(bag, "tests.dlq", t) + Cardinality(D)
  <2>1. ASSUME NEW q \in Queues \cup DLQs
        PROVE  Copies(new, q, t) = Copies(bag, q, t) + Cardinality(SentTo(f, q, t, S))
    BY CopiesAdded
  <2>2. "tests" \in Queues \cup DLQs /\ "tests.dlq" \in Queues \cup DLQs
    BY DEF Queues, DLQs
  <2> QED
    BY <2>1, <2>2
<1>2. Copies(bag, "tests", t) \in Nat /\ Copies(bag, "tests.dlq", t) \in Nat
  BY CopiesType DEF Queues, DLQs
<1>3. B = A \cup D /\ A \cap D = {}
  BY DEF TestQueues, SentTo
<1>4. A \in SUBSET Handlers /\ D \in SUBSET Handlers
  BY DEF SentTo
<1> HIDE DEF A, D
<1>5. IsFiniteSet(A) /\ IsFiniteSet(D) /\ Cardinality(A) \in Nat /\ Cardinality(D) \in Nat
  BY <1>4, HandlerCount
<1>6. Cardinality(B) = Cardinality(A) + Cardinality(D) - Cardinality({})
  BY <1>3, <1>5, FS_Union
<1>7. Cardinality(B) = Cardinality(A) + Cardinality(D)
  BY <1>5, <1>6, FS_EmptySet
<1> QED
  BY <1>1, <1>2, <1>5, <1>7 DEF TestsIn

\* What the broker gives back are copies that were held.
LEMMA TestsInGivenBack ==
    ASSUME TypeOK, NEW S \in SUBSET Handlers, NEW t \in Tests
    PROVE  TestsIn(GiveBack(S), t) = TestsIn(ready, t) + Cardinality(Working(t) \cap S)
<1> DEFINE H == {h \in S : Holds(h)}
           f == [h \in H |-> Msg("tests", Test(h), handler[h].k)]
<1>1. ready \in [Messages -> Nat] /\ H \in SUBSET Handlers
  BY DEF TypeOK
<1>2. f \in [H -> Messages]
  <2>1. ASSUME NEW h \in H PROVE Msg("tests", Test(h), handler[h].k) \in Messages
    <3>1. Test(h) \in Tests /\ handler[h].k \in 0..MaxRetries
      BY DEF TypeOK, HandlersTyped, HandlerState, Test, Holds
    <3> QED
      BY <3>1 DEF Messages, Msg, Queues
  <2> QED
    BY <2>1
<1>3. Added(GiveBack(S), ready, f, H)
  <2>1. ASSUME NEW m \in Messages
        PROVE  GiveBack(S)[m] = ready[m] + Cardinality(SentBy(f, m, H))
    <3>1. {h \in S : Holds(h) /\ m = Msg("tests", Test(h), handler[h].k)} = SentBy(f, m, H)
      BY DEF SentBy
    <3> QED
      BY <3>1 DEF GiveBack
  <2> QED
    BY <2>1 DEF Added
<1>4. Working(t) \cap S = {h \in H : f[h].q \in TestQueues /\ f[h].t = t}
  <2>1. ASSUME NEW h \in H PROVE f[h].q \in TestQueues /\ f[h].t = Test(h)
    BY DEF Msg, TestQueues
  <2>2. H \in SUBSET Handlers /\ \A h \in Handlers : h \in H <=> h \in S /\ Holds(h)
    BY <1>1
  <2> HIDE DEF H, f
  <2> QED
    BY <2>1, <2>2 DEF Working
<1> HIDE DEF H, f
<1> QED
  BY <1>1, <1>2, <1>3, <1>4, TestsInAdded

\* The retries that arrived are copies that were held.
LEMMA TestsInArrived ==
    ASSUME TypeOK, NEW r \in Replicas, NEW dropped \in SUBSET Unconfirmed(r),
           NEW sent \in SUBSET {h \in Handlers : Holds(h)}, NEW t \in Tests
    PROVE  TestsIn(Arrived(sent, dropped), t) = TestsIn(fresh, t) + Cardinality(Working(t) \cap sent)
<1> DEFINE f   == [h \in sent |-> Republished(h)]
           bag == [m \in Messages |-> IF m \in dropped THEN fresh[m] - 1 ELSE fresh[m]]
<1>1. sent \in SUBSET Handlers /\ fresh \in [Messages -> Nat]
  BY DEF TypeOK
<1>2. f \in [sent -> Messages]
  BY RepublishedType DEF Holds
<1>3. bag \in [Messages -> Nat] /\ \A m \in Messages : m.q \in TestQueues => bag[m] = fresh[m]
  BY <1>1 DEF Unconfirmed, Msg, TestQueues
<1>4. Added(Arrived(sent, dropped), bag, f, sent)
  <2>1. ASSUME NEW m \in Messages
        PROVE  Arrived(sent, dropped)[m] = bag[m] + Cardinality(SentBy(f, m, sent))
    <3>1. {h \in sent : m = Republished(h)} = SentBy(f, m, sent)
      BY DEF SentBy
    <3> QED
      BY <3>1 DEF Arrived
  <2> QED
    BY <2>1 DEF Added
<1>5. Working(t) \cap sent = {h \in sent : f[h].q \in TestQueues /\ f[h].t = t}
  <2>1. ASSUME NEW h \in sent PROVE f[h].q \in TestQueues /\ f[h].t = Test(h)
    BY DEF Republished, Msg, TestQueues
  <2> HIDE DEF f
  <2> QED
    BY <1>1, <2>1 DEF Working
<1>6. TestsIn(bag, t) = TestsIn(fresh, t)
  <2> HIDE DEF bag
  <2> QED
    BY <1>1, <1>3, TestsInSame
<1> HIDE DEF f, bag
<1> QED
  BY <1>1, <1>2, <1>3, <1>4, <1>5, <1>6, TestsInAdded

\* The result the consumer had is no copy of the test.
LEMMA TestsInReturned ==
    ASSUME TypeOK, NEW bag \in [Messages -> Nat], NEW t \in Tests
    PROVE  TestsIn(ReturnResult(bag), t) = TestsIn(bag, t)
<1>1. CASE consumer.pc = "idle"
  BY <1>1 DEF ReturnResult
<1>2. CASE consumer.pc # "idle"
  <2> DEFINE m == Msg("results", consumer.t, consumer.k)
  <2>1. m \in Messages /\ m.q \notin TestQueues
    <3>1. m \in Messages
      BY <1>2, MessageTypes DEF TypeOK
    <3> QED
      BY <3>1 DEF Msg, TestQueues
  <2>2. TestsIn(bag, t) \in Nat
    BY TestsInType
  <2>3. ReturnResult(bag) = Enqueue(bag, m)
    BY <1>2 DEF ReturnResult
  <2> HIDE DEF m
  <2> QED
    BY <2>1, <2>2, <2>3, TestsInEnqueue
<1> QED
  BY <1>1, <1>2

\* The powers of two, which are the sizes of the sets of subsets.
LEMMA PowerSize ==
    ASSUME NEW n \in Nat
    PROVE  /\ IsFiniteSet(SUBSET (1..n)) /\ Cardinality(SUBSET (1..n)) = 2 ^ n
           /\ 2 ^ n \in Nat
<1>1. IsFiniteSet(1..n) /\ Cardinality(1..n) = n
  <2>1. 1 \in Int /\ n \in Int /\ (IF 1 > n THEN 0 ELSE n - 1 + 1) = n
    OBVIOUS
  <2> QED
    BY <2>1, FS_Interval
<1>2. IsFiniteSet(SUBSET (1..n)) /\ Cardinality(SUBSET (1..n)) = 2 ^ n
  BY <1>1, FS_SUBSET
<1> QED
  BY <1>2, FS_CardinalityType

LEMMA PowerDoubles ==
    ASSUME NEW n \in Nat
    PROVE  2 ^ (n + 1) = 2 * 2 ^ n
<1> DEFINE A == SUBSET (1..n)
           B == {x \cup {n + 1} : x \in A}
           f == [x \in A |-> x \cup {n + 1}]
<1>1. n + 1 \in Nat /\ 1..(n + 1) = (1..n) \cup {n + 1} /\ n + 1 \notin 1..n
  OBVIOUS
<1>2. f \in Bijection(A, B)
  <2>1. f \in [A -> B] /\ \A y \in B : \E x \in A : f[x] = y
    OBVIOUS
  <2>2. ASSUME NEW x \in A, NEW y \in A, f[x] = f[y] PROVE x = y
    <3>1. x = (x \cup {n + 1}) \ {n + 1} /\ y = (y \cup {n + 1}) \ {n + 1}
      BY <1>1
    <3> QED
      BY <2>2, <3>1
  <2> HIDE DEF A, B, f
  <2> QED
    BY <2>1, <2>2 DEF Bijection, Injection, Surjection, IsInjective
<1>3. SUBSET (1..(n + 1)) = A \cup B
  <2>1. ASSUME NEW y \in SUBSET (1..(n + 1)) PROVE y \in A \cup B
    <3>1. CASE n + 1 \in y
      <4>1. y \ {n + 1} \in A /\ y = (y \ {n + 1}) \cup {n + 1}
        BY <1>1, <3>1
      <4> QED
        BY <4>1
    <3>2. CASE n + 1 \notin y
      BY <1>1, <3>2
    <3> QED
      BY <3>1, <3>2
  <2>2. ASSUME NEW y \in A \cup B PROVE y \in SUBSET (1..(n + 1))
    BY <1>1, <2>2
  <2> QED
    BY <2>1, <2>2
<1>4. A \cap B = {}
  BY <1>1
<1>5. IsFiniteSet(A) /\ Cardinality(A) = 2 ^ n /\ 2 ^ n \in Nat
  BY PowerSize
<1>6. Cardinality(SUBSET (1..(n + 1))) = 2 ^ (n + 1)
  BY <1>1, PowerSize
<1> HIDE DEF A, B, f
<1>7. IsFiniteSet(B) /\ Cardinality(B) = Cardinality(A)
  BY <1>2, <1>5, FS_Bijection DEF ExistsBijection
<1>8. Cardinality(A \cup B) = Cardinality(A) + Cardinality(B) - Cardinality({})
  BY <1>4, <1>5, <1>7, FS_Union
<1>9. Cardinality({}) = 0
  BY FS_EmptySet
<1> DEFINE p == 2 ^ n
<1>10. p \in Nat /\ Cardinality(A) = p /\ Cardinality(B) = p
  BY <1>5, <1>7
<1> HIDE DEF p
<1>11. Cardinality(A \cup B) = 2 * p
  BY <1>8, <1>9, <1>10
<1>12. 2 ^ (n + 1) = 2 * p
  BY <1>3, <1>6, <1>11
<1> QED
  BY <1>12 DEF p

LEMMA PowerPositive ==
    ASSUME NEW n \in Nat
    PROVE  2 ^ n \in Nat /\ 1 <= 2 ^ n
<1> DEFINE A == SUBSET (1..n)
           p == 2 ^ n
<1>1. IsFiniteSet(A) /\ Cardinality(A) = p /\ p \in Nat
  BY PowerSize
<1>2. A # {}
  OBVIOUS
<1> HIDE DEF A, p
<1>3. p # 0
  BY <1>1, <1>2, FS_EmptySet
<1>4. p \in Nat /\ 1 <= p
  BY <1>1, <1>3
<1> QED
  BY <1>4 DEF p

LEMMA PowerStarts == 2 ^ 0 = 1
<1>1. 1..0 = {}
  OBVIOUS
<1>2. SUBSET {} = {{}}
  OBVIOUS
<1>3. Cardinality({{}}) = 1
  BY FS_Singleton
<1>4. Cardinality(SUBSET (1..0)) = 2 ^ 0
  BY PowerSize
<1> QED
  BY <1>1, <1>2, <1>3, <1>4

-----------------------------------------------------------------------------
\* A step after which only deliveries of other handlers than those of S are
\* held, and no new ones, leaves at most that much work.
LEMMA WorkingShrinks ==
    ASSUME TypeOK, NEW S \in SUBSET Handlers, NEW t \in Tests,
           \A g \in Handlers : Holds(g)' => Holds(g) /\ Test(g)' = Test(g) /\ g \notin S
    PROVE  /\ Cardinality(Working(t)') \in Nat
           /\ Cardinality(Working(t) \cap S) \in Nat
           /\ Cardinality(Working(t)') + Cardinality(Working(t) \cap S) <= Cardinality(Working(t))
<1>1. /\ Working(t) \in SUBSET Handlers /\ Working(t)' \in SUBSET Handlers
      /\ Working(t) \cap S \in SUBSET Handlers
      /\ Working(t)' \cup (Working(t) \cap S) \subseteq Working(t)
      /\ Working(t)' \cap (Working(t) \cap S) = {}
  BY DEF Working
<1> DEFINE A == Working(t)
           B == Working(t)'
           C == Working(t) \cap S
<1>2. /\ IsFiniteSet(A) /\ IsFiniteSet(B) /\ IsFiniteSet(C)
      /\ Cardinality(A) \in Nat /\ Cardinality(B) \in Nat /\ Cardinality(C) \in Nat
  BY <1>1, HandlerCount
<1>3. B \cup C \subseteq A /\ B \cap C = {}
  BY <1>1
<1> HIDE DEF A, B, C
<1>4. Cardinality(B \cup C) = Cardinality(B) + Cardinality(C) - Cardinality({})
  BY <1>2, <1>3, FS_Union
<1>5. Cardinality({}) = 0
  BY FS_EmptySet
<1>6. Cardinality(B \cup C) <= Cardinality(A)
  BY <1>2, <1>3, FS_Subset
<1>7. Cardinality(B) + Cardinality(C) <= Cardinality(A)
  BY <1>2, <1>4, <1>5, <1>6
<1> QED
  BY <1>2, <1>7 DEF A, B, C

\* At most half of what is held and given back, or republished, is new.
LEMMA HandlersOfTest ==
    ASSUME NEW t \in Tests, NEW S \in SUBSET Handlers
    PROVE  /\ Cardinality(Working(t) \cap S) \in Nat
           /\ Cardinality(Working(t)) \in Nat
           /\ Cardinality(Working(t) \cap S) <= Cardinality(Working(t))
<1>1. Working(t) \in SUBSET Handlers /\ Working(t) \cap S \in SUBSET Handlers
  BY DEF Working
<1>2. /\ IsFiniteSet(Working(t)) /\ Cardinality(Working(t)) \in Nat
      /\ Cardinality(Working(t) \cap S) \in Nat
  BY <1>1, HandlerCount
<1>3. Working(t) \cap S \subseteq Working(t)
  OBVIOUS
<1> QED
  BY <1>2, <1>3, FS_Subset

LEMMA TotalNext ==
    ASSUME NEW t \in Tests
    PROVE  Total(t)' = TestsIn(ready', t) + TestsIn(fresh', t) + Cardinality(Working(t)')
BY DEF Total

LEMMA TotalType ==
    ASSUME TypeOK, NEW t \in Tests
    PROVE  Total(t) \in Nat
<1>1. TestsIn(ready, t) \in Nat /\ TestsIn(fresh, t) \in Nat
  BY TestsInType DEF TypeOK
<1>2. Cardinality(Working(t)) \in Nat
  <2>1. Working(t) \in SUBSET Handlers
    BY DEF Working
  <2> QED
    BY <2>1, HandlerCount
<1> QED
  BY <1>1, <1>2 DEF Total

\* The queues lose no more than the handlers take.
NoMore(t) == Total(t)' <= Total(t)

LEMMA NoMoreSame ==
    ASSUME TypeOK, UNCHANGED <<ready, fresh, handler>>, NEW t \in Tests
    PROVE  Total(t)' = Total(t)
BY DEF Total, TestsIn, Copies, Working, Holds, Test

\* The queues stay, the handlers hold no more.
LEMMA NoMoreHeld ==
    ASSUME TypeOK, NEW t \in Tests, TestsIn(ready', t) = TestsIn(ready, t), TestsIn(fresh', t) = TestsIn(fresh, t),
           \A g \in Handlers : Holds(g)' => Holds(g) /\ Test(g)' = Test(g)
    PROVE  NoMore(t)
<1>1. {} \in SUBSET Handlers
  OBVIOUS
<1>2. /\ Cardinality(Working(t)') \in Nat
      /\ Cardinality(Working(t) \cap {}) \in Nat
      /\ Cardinality(Working(t)') + Cardinality(Working(t) \cap {}) <= Cardinality(Working(t))
  BY <1>1, WorkingShrinks
<1>3. TestsIn(ready, t) \in Nat /\ TestsIn(fresh, t) \in Nat
  BY TestsInType DEF TypeOK
<1>4. Cardinality(Working(t)) \in Nat
  BY <1>1, HandlersOfTest
<1> QED
  BY <1>2, <1>3, <1>4, TotalNext DEF NoMore, Total

LEMMA HeldByOthers ==
    ASSUME TypeOK, NEW h \in Handlers, handler[h].pc # "idle", NEW p, Goto(h, p) \/ AckOr(h, p)
    PROVE  \A g \in Handlers : Holds(g)' => Holds(g) /\ Test(g)' = Test(g)
<1>1. \A g \in Handlers \ {h} : handler'[g] = handler[g]
  BY DEF Goto, AckOr, TypeOK, HandlersTyped
<1>2. CASE handler' = [handler EXCEPT ![h].pc = p]
  <2>1. handler'[h].t = handler[h].t /\ handler'[h].live = handler[h].live
    BY <1>2 DEF TypeOK, HandlersTyped, HandlerState
  <2> QED
    BY <1>1, <2>1 DEF Holds, Test
<1>3. CASE handler' = [handler EXCEPT ![h] = IdleHandler]
  <2>1. handler'[h].pc = "idle"
    BY <1>3 DEF TypeOK, HandlersTyped, IdleHandler
  <2> QED
    BY <1>1, <2>1 DEF Holds, Test
<1> QED
  BY <1>2, <1>3 DEF Goto, AckOr

LEMMA CopiesHandler ==
    ASSUME TypeOK, NEW h \in Handlers, HandlerStep(h) \/ ConfirmFails(h) \/ StatusQueryFails(h), NEW t \in Tests
    PROVE  NoMore(t)
<1>0. ready \in [Messages -> Nat] /\ fresh \in [Messages -> Nat]
  BY DEF TypeOK
<1>1. CASE /\ UNCHANGED <<ready, fresh>> /\ handler[h].pc # "idle" /\ \E p : Goto(h, p) \/ AckOr(h, p)
  BY <1>1, HeldByOthers, NoMoreHeld
<1>2. CASE K6Exits(h)
  <2>1. \A g \in Handlers : Holds(g)' => Holds(g) /\ Test(g)' = Test(g)
    <3>0. handler \in [Handlers -> HandlerState] /\ handler[h].pc = "k6"
      BY <1>2 DEF K6Exits, At, TypeOK, HandlersTyped
    <3>1. CASE Goto(h, "caught")
      BY <3>0, <3>1, HeldByOthers
    <3>2. ASSUME NEW requests \in BOOLEAN,
                 handler' = [handler EXCEPT ![h].pc = "exited", ![h].metrics = requests]
          PROVE  \A g \in Handlers : Holds(g)' => Holds(g) /\ Test(g)' = Test(g)
      <4> DEFINE new == [handler[h] EXCEPT !.pc = "exited", !.metrics = requests]
      <4>1. new.t = handler[h].t /\ new.live = handler[h].live
        BY <3>0 DEF HandlerState
      <4>2. handler' = [handler EXCEPT ![h] = new]
        BY <3>2
      <4> HIDE DEF new
      <4> QED
        BY <3>0, <4>1, <4>2 DEF Holds, Test
    <3> QED
      BY <1>2, <3>1, <3>2 DEF K6Exits
  <2>2. UNCHANGED <<ready, fresh>>
    BY <1>2 DEF K6Exits, brokerVars
  <2> QED
    BY <2>1, <2>2, NoMoreHeld
<1>3. CASE PublishResult(h)
  <2> DEFINE m == Msg("results", Test(h), 0)
  <2>1. handler[h].pc # "idle" /\ \E p : Goto(h, p) \/ AckOr(h, p)
    BY <1>3 DEF PublishResult, At
  <2>2. \A g \in Handlers : Holds(g)' => Holds(g) /\ Test(g)' = Test(g)
    BY <2>1, HeldByOthers
  <2>3. Test(h) \in Tests
    BY <2>1 DEF TypeOK, HandlersTyped, Test
  <2>4. m \in Messages /\ m.q \notin TestQueues
    <3>1. m \in Messages
      BY <2>3, ConstantsAssumption DEF Msg, Messages, Queues
    <3> QED
      BY <3>1 DEF Msg, TestQueues
  <2>5. ready' = ready /\ fresh' \in {fresh, Enqueue(fresh, m)}
    BY <1>3 DEF PublishResult
  <2> HIDE DEF m
  <2>6. TestsIn(Enqueue(fresh, m), t) = TestsIn(fresh, t) + 0
    BY <1>0, <2>4, TestsInEnqueue
  <2>7. TestsIn(fresh', t) = TestsIn(fresh, t)
    BY <1>0, <2>5, <2>6, TestsInType
  <2> QED
    BY <2>2, <2>5, <2>7, NoMoreHeld
<1>4. CASE Retry(h)
  <2>0. handler[h].pc # "idle" /\ Test(h) \in Tests /\ ready' = ready
    BY <1>4 DEF Retry, At, TypeOK, HandlersTyped, Test
  <2>1. CASE ~handler[h].live
    <3>1. AckOr(h, "rejected") /\ fresh' = fresh
      BY <1>4, <2>1 DEF Retry
    <3>2. \A g \in Handlers : Holds(g)' => Holds(g) /\ Test(g)' = Test(g)
      BY <2>0, <3>1, HeldByOthers
    <3> QED
      BY <2>0, <3>1, <3>2, NoMoreHeld
  <2>2. CASE handler[h].live
    <3> DEFINE m == Republished(h)
               one == IF Test(h) = t THEN 1 ELSE 0
    <3>1. handler' = [handler EXCEPT ![h] = IdleHandler] /\ fresh' = Enqueue(fresh, m)
      BY <1>4, <2>2 DEF Retry, AckOr
    <3>2. m \in Messages
      BY <2>0, RepublishedType
    <3>3. m.q \in TestQueues /\ m.t = Test(h)
      BY DEF Republished, Msg, TestQueues
    <3>4. \A g \in Handlers : Holds(g)' => Holds(g) /\ Test(g)' = Test(g) /\ g \notin {h}
      BY <3>1 DEF TypeOK, HandlersTyped, IdleHandler, Holds, Test
    <3>5. {h} \in SUBSET Handlers
      OBVIOUS
    <3>6. /\ Cardinality(Working(t)') \in Nat
          /\ Cardinality(Working(t) \cap {h}) \in Nat
          /\ Cardinality(Working(t)') + Cardinality(Working(t) \cap {h}) <= Cardinality(Working(t))
      BY <3>4, <3>5, WorkingShrinks
    <3>7. Cardinality(Working(t) \cap {h}) = one
      <4>1. CASE Test(h) = t
        <5>1. Working(t) \cap {h} = {h}
          BY <2>0, <2>2, <4>1 DEF Working, Holds
        <5> QED
          BY <4>1, <5>1, FS_Singleton
      <4>2. CASE Test(h) # t
        <5>1. Working(t) \cap {h} = {}
          BY <4>2 DEF Working
        <5> QED
          BY <4>2, <5>1, FS_EmptySet
      <4> QED
        BY <4>1, <4>2
    <3> HIDE DEF m
    <3>8. TestsIn(fresh', t) = TestsIn(fresh, t) + one
      BY <1>0, <3>1, <3>2, <3>3, TestsInEnqueue
    <3>9. one \in Nat
      OBVIOUS
    <3> HIDE DEF one
    <3>10. TestsIn(ready, t) \in Nat /\ TestsIn(fresh, t) \in Nat /\ TestsIn(ready', t) = TestsIn(ready, t)
      BY <1>0, <2>0, TestsInType
    <3>11. Cardinality(Working(t)) \in Nat
      BY <3>5, HandlersOfTest
    <3> QED
      BY <3>6, <3>7, <3>8, <3>9, <3>10, <3>11, TotalNext DEF NoMore, Total
  <2> QED
    BY <2>1, <2>2
<1>5. CASE ~K6Exits(h) /\ ~PublishResult(h) /\ ~Retry(h)
  <2>1. UNCHANGED <<ready, fresh>> /\ handler[h].pc # "idle"
    BY <1>5 DEF HandlerStep, ConfirmFails, StatusQueryFails, CheckStatus, LaunchFails, Spawn, RunResolves,
                RunThrows, SaveScriptFails, Acknowledge, NotifyCancelled, NotifyFailed, brokerVars, At
  <2>2. \E p : Goto(h, p) \/ AckOr(h, p)
    BY <1>5 DEF HandlerStep, ConfirmFails, StatusQueryFails, CheckStatus, LaunchFails, Spawn, RunResolves,
                RunThrows, SaveScriptFails, Acknowledge, NotifyCancelled, NotifyFailed
  <2> QED
    BY <1>1, <2>1, <2>2
<1> QED
  BY <1>2, <1>3, <1>4, <1>5

\* No message, no copy.
LEMMA TestsInNone ==
    ASSUME NEW t \in Tests
    PROVE  TestsIn([m \in Messages |-> 0], t) = 0
<1> DEFINE bag == [m \in Messages |-> 0]
           c == [k \in 0..MaxRetries |-> 0]
<1>1. ASSUME NEW q \in Queues \cup DLQs
      PROVE  Copies(bag, q, t) = 0
  <2>1. MaxRetries \in 0..MaxRetries
    BY ConstantsAssumption
  <2>2. \A k \in 0..MaxRetries : bag[Msg(q, t, k)] = 0
    BY DEF Messages, Msg
  <2>3. c \in [0..MaxRetries -> Nat]
    OBVIOUS
  <2>4. \A k \in 0..MaxRetries : c[k] = 0 + IF k = 0 THEN 0 ELSE c[k - 1]
    BY ConstantsAssumption
  <2>5. c[MaxRetries] = 0
    BY <2>1
  <2> HIDE DEF c, bag
  <2>6. Counts(c, MaxRetries, bag, q, t)
    BY <2>2, <2>3, <2>4 DEF Counts
  <2> QED
    BY <2>5, <2>6, CopiesAre
<1>2. "tests" \in Queues \cup DLQs /\ "tests.dlq" \in Queues \cup DLQs
  BY DEF Queues, DLQs
<1>3. Copies(bag, "tests", t) = 0 /\ Copies(bag, "tests.dlq", t) = 0
  BY <1>1, <1>2
<1> QED
  BY <1>3 DEF TestsIn

\* The broker hands a message to a free handler.
LEMMA CopiesDelivered ==
    ASSUME TypeOK, NEW r \in Replicas, NEW m \in Messages, Deliver(r, m), NEW t \in Tests
    PROVE  NoMore(t)
<1> DEFINE h == CHOOSE g \in IdleOf(r) : TRUE
           one == IF m.t = t THEN 1 ELSE 0
<1>1. h \in IdleOf(r)
  BY DEF Deliver
<1>2. h \in Handlers /\ handler[h].pc = "idle"
  BY <1>1 DEF IdleOf, Of
<1>3. /\ m.q = "tests" /\ ready[m] > 0 /\ ready' = Dequeue(ready, m) /\ fresh' = fresh
      /\ handler' = [handler EXCEPT ![h] = [pc |-> "received", t |-> m.t, k |-> m.k,
                                            live |-> TRUE, metrics |-> FALSE]]
  BY DEF Deliver
<1> HIDE DEF h
<1>4. Working(t)' = IF m.t = t THEN Working(t) \cup {h} ELSE Working(t)
  BY <1>2, <1>3 DEF TypeOK, HandlersTyped, Working, Holds, Test
<1>5. h \notin Working(t) /\ Working(t) \in SUBSET Handlers
  BY <1>2 DEF Working, Holds
<1>6. IsFiniteSet(Working(t)) /\ Cardinality(Working(t)) \in Nat
  BY <1>5, HandlerCount
<1>7. Cardinality(Working(t) \cup {h}) = Cardinality(Working(t)) + 1
  BY <1>5, <1>6, FS_AddElement
<1>8. Cardinality(Working(t)') = Cardinality(Working(t)) + one
  BY <1>4, <1>6, <1>7
<1>9. TestsIn(ready', t) = TestsIn(ready, t) - one
  BY <1>3, TestsInDequeue DEF TypeOK, TestQueues
<1>10. TestsIn(ready, t) \in Nat /\ TestsIn(fresh, t) \in Nat /\ TestsIn(fresh', t) = TestsIn(fresh, t)
  BY <1>3, TestsInType DEF TypeOK
<1>11. one \in Nat
  OBVIOUS
<1> HIDE DEF one
<1> QED
  BY <1>6, <1>8, <1>9, <1>10, <1>11, TotalNext DEF NoMore, Total

\* A message moves from one bag to the other.
LEMMA CopiesPersisted ==
    ASSUME TypeOK, NEW m \in Messages, Persist(m), NEW t \in Tests
    PROVE  NoMore(t)
<1> DEFINE one == IF m.q \in TestQueues /\ m.t = t THEN 1 ELSE 0
<1>1. fresh[m] > 0 /\ fresh' = Dequeue(fresh, m) /\ ready' = Enqueue(ready, m)
  BY DEF Persist
<1>2. \A g \in Handlers : Holds(g)' => Holds(g) /\ Test(g)' = Test(g)
  <2>1. UNCHANGED handler \/ \E h \in Handlers : handler[h].pc = "confirming" /\ Goto(h, "acking")
    BY DEF Persist, At
  <2>2. CASE UNCHANGED handler
    BY <2>2 DEF Holds, Test
  <2>3. CASE \E h \in Handlers : handler[h].pc = "confirming" /\ Goto(h, "acking")
    <3>1. PICK h \in Handlers : handler[h].pc = "confirming" /\ Goto(h, "acking")
      BY <2>3
    <3>2. handler[h].pc # "idle"
      BY <3>1
    <3> QED
      BY <3>1, <3>2, HeldByOthers
  <2> QED
    BY <2>1, <2>2, <2>3
<1>3. {} \in SUBSET Handlers
  OBVIOUS
<1>4. /\ Cardinality(Working(t)') \in Nat
      /\ Cardinality(Working(t) \cap {}) \in Nat
      /\ Cardinality(Working(t)') + Cardinality(Working(t) \cap {}) <= Cardinality(Working(t))
  BY <1>2, <1>3, WorkingShrinks
<1>5. TestsIn(fresh', t) = TestsIn(fresh, t) - one
  BY <1>1, TestsInDequeue DEF TypeOK
<1>6. TestsIn(ready', t) = TestsIn(ready, t) + one
  BY <1>1, TestsInEnqueue DEF TypeOK
<1>7. TestsIn(ready, t) \in Nat /\ TestsIn(fresh, t) \in Nat
  BY TestsInType DEF TypeOK
<1>8. one \in Nat
  OBVIOUS
<1>9. Cardinality(Working(t)) \in Nat
  BY <1>3, HandlersOfTest
<1> HIDE DEF one
<1> QED
  BY <1>4, <1>5, <1>6, <1>7, <1>8, <1>9, TotalNext DEF NoMore, Total

\* Results are no copies of tests.
LEMMA CopiesConsumer ==
    ASSUME TypeOK, ConsumerStep \/ ConsumerFails \/ \E u \in Tests : LateSave(u), NEW t \in Tests
    PROVE  NoMore(t)
<1>0. ready \in [Messages -> Nat] /\ fresh \in [Messages -> Nat]
  BY DEF TypeOK
<1>1. TestsIn(ready, t) \in Nat /\ TestsIn(fresh, t) \in Nat
  BY <1>0, TestsInType
<1>2. UNCHANGED handler
  BY DEF ConsumerStep, ConsumerFails, LateSave, TakeResult, SaveResult, SaveResultFails, AckResult, workerVars
<1>3. TestsIn(ready', t) = TestsIn(ready, t)
  <2>1. ASSUME NEW u \in Tests, NEW k \in 0..MaxRetries, TakeResult(u, k)
        PROVE  TestsIn(ready', t) = TestsIn(ready, t)
    <3> DEFINE m == Msg("results", u, k)
    <3>1. m \in Messages /\ m.q \notin TestQueues
      BY DEF Msg, Messages, Queues, TestQueues
    <3>2. ready[m] > 0 /\ ready' = Dequeue(ready, m)
      BY <2>1 DEF TakeResult
    <3> HIDE DEF m
    <3>3. TestsIn(Dequeue(ready, m), t) = TestsIn(ready, t) - 0
      BY <1>0, <3>1, <3>2, TestsInDequeue
    <3> QED
      BY <1>1, <3>2, <3>3
  <2>2. CASE ready' \in {ready, ReturnResult(ready)}
    BY <1>0, <2>2, TestsInReturned
  <2> QED
    BY <2>1, <2>2 DEF ConsumerStep, ConsumerFails, LateSave, SaveResult, SaveResultFails, AckResult, brokerVars
<1>4. TestsIn(fresh', t) = TestsIn(fresh, t)
  <2>1. CASE SaveResultFails
    <3>1. PICK m \in {Msg("results", consumer.t, consumer.k + 1), Msg("results.dlq", consumer.t, consumer.k)} :
              fresh' = Enqueue(fresh, m) /\ m \in Messages
      <4>1. consumer.t \in Tests /\ consumer.k \in 0..MaxRetries
        BY <2>1 DEF SaveResultFails, TypeOK
      <4>2. consumer.k < MaxRetries => consumer.k + 1 \in 0..MaxRetries
        BY <4>1, ConstantsAssumption
      <4> QED
        BY <2>1, <4>1, <4>2 DEF SaveResultFails, Msg, Messages, Queues, DLQs
    <3>2. m.q \notin TestQueues
      BY DEF Msg, TestQueues
    <3>3. TestsIn(Enqueue(fresh, m), t) = TestsIn(fresh, t) + 0
      BY <1>0, <3>1, <3>2, TestsInEnqueue
    <3> QED
      BY <1>1, <3>1, <3>3
  <2>2. CASE ~SaveResultFails
    <3>1. fresh' = fresh
      BY <2>2 DEF ConsumerStep, ConsumerFails, LateSave, TakeResult, SaveResult, AckResult, brokerVars
    <3> QED
      BY <3>1
  <2> QED
    BY <2>1, <2>2
<1>5. \A g \in Handlers : Holds(g)' => Holds(g) /\ Test(g)' = Test(g)
  BY <1>2 DEF Holds, Test
<1> QED
  BY <1>3, <1>4, <1>5, NoMoreHeld

\* A process that stops gives back what it held.
LEMMA CopiesStopped ==
    ASSUME TypeOK, NEW r \in Replicas, StopProcess(r), NEW t \in Tests
    PROVE  NoMore(t)
<1>1. ready' = GiveBack(Of(r)) /\ fresh' = fresh
  BY DEF StopProcess
<1>2. Of(r) \in SUBSET Handlers
  BY DEF Of
<1>3. \A g \in Handlers : Holds(g)' => Holds(g) /\ Test(g)' = Test(g) /\ g \notin Of(r)
  BY DEF StopProcess, Of, Holds, Test, IdleHandler
<1>4. /\ Cardinality(Working(t)') \in Nat
      /\ Cardinality(Working(t) \cap Of(r)) \in Nat
      /\ Cardinality(Working(t)') + Cardinality(Working(t) \cap Of(r)) <= Cardinality(Working(t))
  BY <1>2, <1>3, WorkingShrinks
<1>5. TestsIn(ready', t) = TestsIn(ready, t) + Cardinality(Working(t) \cap Of(r))
  BY <1>1, <1>2, TestsInGivenBack
<1>6. TestsIn(ready, t) \in Nat /\ TestsIn(fresh, t) \in Nat /\ TestsIn(fresh', t) = TestsIn(fresh, t)
  BY <1>1, TestsInType DEF TypeOK
<1>7. Cardinality(Working(t)) \in Nat
  BY <1>2, HandlersOfTest
<1> QED
  BY <1>4, <1>5, <1>6, <1>7, TotalNext DEF NoMore, Total

\* The broker restarts with what it had persisted and what the handlers held.
LEMMA CopiesBrokerCrash ==
    ASSUME TypeOK, BrokerCrash, NEW t \in Tests
    PROVE  NoMore(t)
<1>1. ready' = ReturnResult(GiveBack(Handlers)) /\ fresh' = [m \in Messages |-> 0]
  BY DEF BrokerCrash
<1>2. Handlers \in SUBSET Handlers
  OBVIOUS
<1>3. \A g \in Handlers : Holds(g)' => Holds(g) /\ Test(g)' = Test(g) /\ g \notin Handlers
  BY DEF BrokerCrash, Holds, TypeOK, HandlersTyped, HandlerState
<1>4. /\ Cardinality(Working(t)') \in Nat
      /\ Cardinality(Working(t) \cap Handlers) \in Nat
      /\ Cardinality(Working(t)') + Cardinality(Working(t) \cap Handlers) <= Cardinality(Working(t))
  BY <1>2, <1>3, WorkingShrinks
<1>5. GiveBack(Handlers) \in [Messages -> Nat]
  <2>1. ready \in [Messages -> Nat]
    BY DEF TypeOK
  <2> QED
    BY <1>2, <2>1, ReturnedTypes
<1>6. TestsIn(ready', t) = TestsIn(ready, t) + Cardinality(Working(t) \cap Handlers)
  BY <1>1, <1>2, <1>5, TestsInReturned, TestsInGivenBack
<1>7. TestsIn(ready, t) \in Nat /\ TestsIn(fresh, t) \in Nat /\ TestsIn(fresh', t) = 0
  BY <1>1, TestsInType, TestsInNone DEF TypeOK
<1>8. Cardinality(Working(t)) \in Nat
  BY <1>2, HandlersOfTest
<1> QED
  BY <1>4, <1>6, <1>7, <1>8, TotalNext DEF NoMore, Total

\* A lost connection: a delivery held goes back to its queue, and the retry its
\* handler had already written may arrive as well.
LEMMA CopiesDisconnected ==
    ASSUME TypeOK, NEW r \in Replicas, Disconnect(r), NEW t \in Tests
    PROVE  Total(t)' <= 2 * Total(t)
<1>1. PICK cut \in SUBSET Leaving(r), dropped \in SUBSET Unconfirmed(r) :
         \E sent \in SUBSET {h \in cut : At(h, "retrying")} :
             handler' = Severed(r, cut) /\ fresh' = Arrived(sent, dropped)
  BY DEF Disconnect
<1>2. PICK sent \in SUBSET {h \in cut : At(h, "retrying")} :
             handler' = Severed(r, cut) /\ fresh' = Arrived(sent, dropped)
  BY <1>1
<1>3. Of(r) \in SUBSET Handlers /\ sent \in SUBSET {h \in Handlers : Holds(h)} /\ sent \in SUBSET Handlers
  BY <1>1, <1>2 DEF Of, Leaving
<1>4. \A g \in Handlers : Holds(g)' => Holds(g) /\ Test(g)' = Test(g) /\ g \notin Of(r)
  <2>1. handler \in [Handlers -> HandlerState]
    BY DEF TypeOK, HandlersTyped
  <2> QED
    BY <1>2, <2>1 DEF Severed, Of, Holds, Test, IdleHandler, HandlerState
<1>5. /\ Cardinality(Working(t)') \in Nat
      /\ Cardinality(Working(t) \cap Of(r)) \in Nat
      /\ Cardinality(Working(t)') + Cardinality(Working(t) \cap Of(r)) <= Cardinality(Working(t))
  BY <1>3, <1>4, WorkingShrinks
<1>6. TestsIn(ready', t) = TestsIn(ready, t) + Cardinality(Working(t) \cap Of(r))
  <2>1. ready' = GiveBack(Of(r))
    BY DEF Disconnect
  <2> QED
    BY <1>3, <2>1, TestsInGivenBack
<1>7. TestsIn(fresh', t) = TestsIn(fresh, t) + Cardinality(Working(t) \cap sent)
  BY <1>1, <1>2, <1>3, TestsInArrived
<1>8. /\ Cardinality(Working(t) \cap sent) \in Nat
      /\ Cardinality(Working(t)) \in Nat
      /\ Cardinality(Working(t) \cap sent) <= Cardinality(Working(t))
  BY <1>3, HandlersOfTest
<1>9. TestsIn(ready, t) \in Nat /\ TestsIn(fresh, t) \in Nat
  BY TestsInType DEF TypeOK
<1> QED
  BY <1>5, <1>6, <1>7, <1>8, <1>9, TotalNext DEF Total

\* Only the dispatch of a test adds a copy of it.
LEMMA CopiesDispatched ==
    ASSUME TypeOK, NEW u \in Tests, ApiStep(u), NEW t \in Tests
    PROVE  Total(t)' <= Total(t) + IF u = t THEN 1 ELSE 0
<1> DEFINE m == Msg("tests", u, 0)
           one == IF u = t THEN 1 ELSE 0
<1>1. m \in Messages /\ m.q \in TestQueues /\ m.t = u
  <2>1. m \in Messages
    BY ConstantsAssumption DEF Msg, Messages, Queues
  <2> QED
    BY <2>1 DEF Msg, TestQueues
<1>2. ready' \in {ready, Enqueue(ready, m)} /\ UNCHANGED <<fresh, handler>>
  BY DEF ApiStep, Dispatch, DispatchFails, workerVars
<1>3. ready \in [Messages -> Nat] /\ fresh \in [Messages -> Nat]
  BY DEF TypeOK
<1> HIDE DEF m
<1>4. TestsIn(Enqueue(ready, m), t) = TestsIn(ready, t) + one
  BY <1>1, <1>3, TestsInEnqueue
<1>5. TestsIn(ready, t) \in Nat /\ TestsIn(fresh, t) \in Nat
  BY <1>3, TestsInType
<1>6. one \in Nat
  OBVIOUS
<1> HIDE DEF one
<1>7. TestsIn(ready', t) \in Nat /\ TestsIn(ready', t) <= TestsIn(ready, t) + one
  BY <1>2, <1>4, <1>5, <1>6
<1>8. Working(t)' = Working(t) /\ TestsIn(fresh', t) = TestsIn(fresh, t)
  BY <1>2 DEF Working, Holds, Test
<1>9. Cardinality(Working(t)) \in Nat
  <2>1. {} \in SUBSET Handlers
    OBVIOUS
  <2> QED
    BY <2>1, HandlersOfTest
<1>10. Total(t)' <= Total(t) + one
  BY <1>5, <1>6, <1>7, <1>8, <1>9, TotalNext DEF Total
<1> QED
  BY <1>10 DEF one

-----------------------------------------------------------------------------
(* The invariant: before its dispatch a test has no copy, and then at most   *)
(* as many as its faults have doubled to.                                    *)

Fits(t) ==
    /\ Total(t) <= 2 ^ faults
    /\ request[t] \in {"new", "posting"} => Total(t) = 0

\* A test that was not dispatched is not, except by its own request.
LEMMA RequestKept ==
    ASSUME TypeOK, [Next]_vars, NEW t \in Tests, request'[t] \in {"new", "posting"}
    PROVE  request[t] \in {"new", "posting"} /\ ~ApiStep(t)
<1>1. CASE \E u \in Tests : Submit(u) \/ ApiStep(u)
  <2>1. PICK u \in Tests : Submit(u) \/ ApiStep(u)
    BY <1>1
  <2> QED
    BY <2>1 DEF Submit, ApiStep, Dispatch, DispatchFails, TypeOK
<1>2. CASE UNCHANGED request
  BY <1>2 DEF ApiStep, Dispatch, DispatchFails, TypeOK
<1> QED
  BY <1>1, <1>2
     DEF Next, vars, apiVars, Cancel, PublishCancel, PendingArrives, RunningArrives, Sweep, LateSave,
         HandlerStep, ConfirmFails, CheckStatus, LaunchFails, Spawn, K6Exits, RunResolves, RunThrows,
         PublishResult, SaveScriptFails, Acknowledge, NotifyCancelled, NotifyFailed, Retry,
         Deliveries, Deliver, Persist, ReceiveCancel, Reconnect, Die, StopProcess,
         ConsumerStep, TakeResult, SaveResult, SaveResultFails, AckResult,
         Fault, Crash, Disconnect, StatusQueryFails, BrokerCrash, ConsumerFails

\* Steps that move no message and no handler.
Aside ==
    \/ \E t \in Tests : Submit(t) \/ Cancel(t) \/ PublishCancel(t)
                        \/ PendingArrives(t) \/ RunningArrives(t) \/ Sweep(t)
    \/ \E r \in Replicas, t \in Tests : ReceiveCancel(r, t)
    \/ \E r \in Replicas : Reconnect(r)
    \/ UNCHANGED vars

LEMMA AsideKeeps ==
    ASSUME TypeOK, Aside
    PROVE  UNCHANGED <<ready, fresh, handler, faults>>
BY DEF Aside, vars, brokerVars, workerVars, Submit, Cancel, PublishCancel, PendingArrives, RunningArrives,
       Sweep, ReceiveCancel, Reconnect

\* What a step does to the copies of t.
LEMMA StepCopies ==
    ASSUME TypeOK, [Next]_vars, NEW t \in Tests
    PROVE  \/ NoMore(t) /\ faults' \in {faults, faults + 1}
           \/ Total(t)' <= 2 * Total(t) /\ faults' = faults + 1
           \/ ApiStep(t) /\ Total(t)' <= Total(t) + 1 /\ faults' = faults
<1>0. Total(t) \in Nat
  BY TotalType
<1>1. CASE Aside
  <2>1. UNCHANGED <<ready, fresh, handler>> /\ faults' = faults
    BY <1>1, AsideKeeps
  <2>2. Total(t)' = Total(t)
    BY <2>1, NoMoreSame
  <2> QED
    BY <1>0, <2>1, <2>2 DEF NoMore
<1>2. ASSUME NEW u \in Tests, ApiStep(u)
      PROVE  \/ NoMore(t) /\ faults' \in {faults, faults + 1}
             \/ ApiStep(t) /\ Total(t)' <= Total(t) + 1 /\ faults' = faults
  <2>1. Total(t)' <= Total(t) + IF u = t THEN 1 ELSE 0
    BY <1>2, CopiesDispatched
  <2>2. faults' = faults
    BY <1>2 DEF ApiStep, Dispatch, DispatchFails
  <2>3. CASE u = t
    BY <1>2, <2>1, <2>2, <2>3
  <2>4. CASE u # t
    <3>1. Total(t)' <= Total(t) + 0
      BY <2>1, <2>4
    <3>2. Total(t)' <= Total(t)
      BY <1>0, <3>1
    <3> QED
      BY <2>2, <3>2 DEF NoMore
  <2> QED
    BY <2>3, <2>4
<1>3. ASSUME NEW h \in Handlers, HandlerStep(h) \/ ConfirmFails(h) \/ StatusQueryFails(h)
      PROVE  NoMore(t) /\ faults' \in {faults, faults + 1}
  <2>1. NoMore(t)
    BY <1>3, CopiesHandler
  <2>2. faults' \in {faults, faults + 1}
    BY <1>3
       DEF HandlerStep, ConfirmFails, StatusQueryFails, CheckStatus, LaunchFails, Spawn, K6Exits, RunResolves,
           RunThrows, PublishResult, SaveScriptFails, Acknowledge, NotifyCancelled, NotifyFailed, Retry, Inject
  <2> QED
    BY <2>1, <2>2
<1>4. ASSUME NEW r \in Replicas, NEW m \in Messages, Deliver(r, m)
      PROVE  NoMore(t) /\ faults' \in {faults, faults + 1}
  BY <1>4, CopiesDelivered DEF Deliver
<1>5. ASSUME NEW m \in Messages, Persist(m)
      PROVE  NoMore(t) /\ faults' \in {faults, faults + 1}
  BY <1>5, CopiesPersisted DEF Persist
<1>6. CASE ConsumerStep \/ ConsumerFails \/ \E u \in Tests : LateSave(u)
  <2>1. NoMore(t)
    BY <1>6, CopiesConsumer
  <2>2. faults' \in {faults, faults + 1}
    BY <1>6 DEF ConsumerStep, ConsumerFails, LateSave, TakeResult, SaveResult, SaveResultFails, AckResult, Inject
  <2> QED
    BY <2>1, <2>2
<1>7. ASSUME NEW r \in Replicas, Crash(r) \/ Die(r)
      PROVE  NoMore(t) /\ faults' \in {faults, faults + 1}
  BY <1>7, CopiesStopped DEF Crash, Die, Inject
<1>8. ASSUME NEW r \in Replicas, Disconnect(r)
      PROVE  Total(t)' <= 2 * Total(t) /\ faults' = faults + 1
  BY <1>8, CopiesDisconnected DEF Disconnect, Inject
<1>9. CASE BrokerCrash
  BY <1>9, CopiesBrokerCrash DEF BrokerCrash, Inject
<1> QED
  BY <1>1, <1>2, <1>3, <1>4, <1>5, <1>6, <1>7, <1>8, <1>9 DEF Next, Aside, Deliveries, Fault

LEMMA TotalTypeNext ==
    ASSUME TypeOK', NEW t \in Tests
    PROVE  Total(t)' \in Nat
<1>1. ready' \in [Messages -> Nat] /\ fresh' \in [Messages -> Nat]
  BY DEF TypeOK
<1>2. TestsIn(ready', t) \in Nat /\ TestsIn(fresh', t) \in Nat
  BY <1>1, TestsInType
<1>3. Working(t)' \in SUBSET Handlers
  BY DEF Working
<1>4. Cardinality(Working(t)') \in Nat
  BY <1>3, HandlerCount
<1> QED
  BY <1>2, <1>4, TotalNext

LEMMA CopiesStep ==
    ASSUME TypeOK, TypeOK', [Next]_vars, NEW t \in Tests, Fits(t)
    PROVE  Fits(t)'
<1> DEFINE p == 2 ^ faults
           n == Total(t)
           m == Total(t)'
           q == 2 ^ faults'
<1>1. faults \in Nat /\ n \in Nat /\ m \in Nat
  BY TotalType, TotalTypeNext DEF TypeOK
<1>2. p \in Nat /\ 1 <= p /\ 2 ^ (faults + 1) = 2 * p
  BY <1>1, PowerPositive, PowerDoubles
<1>3. /\ faults' = faults => q = p
      /\ faults' = faults + 1 => q = 2 * p
  BY <1>2
<1>4. n <= p /\ (request[t] \in {"new", "posting"} => n = 0)
  BY DEF Fits
<1>5. \/ m <= n /\ faults' \in {faults, faults + 1}
      \/ m <= 2 * n /\ faults' = faults + 1
      \/ ApiStep(t) /\ m <= n + 1 /\ faults' = faults
  BY StepCopies DEF NoMore
<1>6. ApiStep(t) => request[t] = "posting"
  BY DEF ApiStep, Dispatch, DispatchFails
<1>7. request'[t] \in {"new", "posting"} => request[t] \in {"new", "posting"} /\ ~ApiStep(t)
  BY RequestKept
<1> HIDE DEF p, q, n, m
<1>8. m <= q
  BY <1>1, <1>2, <1>3, <1>4, <1>5, <1>6
<1>9. request'[t] \in {"new", "posting"} => m = 0
  BY <1>1, <1>4, <1>5, <1>7
<1> QED
  BY <1>8, <1>9 DEF Fits, m, q

LEMMA CopiesInit ==
    ASSUME Init, NEW t \in Tests
    PROVE  Fits(t)
<1>1. Working(t) = {}
  BY DEF Init, Working, Holds, IdleHandler
<1>2. Cardinality(Working(t)) = 0
  BY <1>1, FS_EmptySet
<1>3. TestsIn(ready, t) = 0 /\ TestsIn(fresh, t) = 0
  BY TestsInNone DEF Init
<1>4. faults = 0
  BY DEF Init
<1>5. Total(t) = 0
  BY <1>2, <1>3 DEF Total
<1>6. Total(t) <= 2 ^ faults
  BY <1>4, <1>5, PowerStarts
<1> QED
  BY <1>5, <1>6 DEF Fits

AllFit == \A t \in Tests : Fits(t)

\* A fault at most doubles the copies of a test among queues, handlers that
\* hold a delivery and dead letters, and nothing else adds one: without faults
\* no test is executed by two handlers or again after it was dead-lettered
\* (queue.ts and index.ts of worker-backend, for every number of faults).
THEOREM CopiesBoundedCorrect == Spec => []CopiesBounded
<1>1. Init => AllFit
  BY CopiesInit DEF AllFit
<1>2. TypeOK /\ TypeOK' /\ AllFit /\ [Next]_vars => AllFit'
  <2> SUFFICES ASSUME TypeOK, TypeOK', AllFit, [Next]_vars, NEW t \in Tests
               PROVE  Fits(t)'
    BY DEF AllFit
  <2>1. Fits(t)
    BY DEF AllFit
  <2> QED
    BY <2>1, CopiesStep
<1>3. TypeOK /\ AllFit => CopiesBounded
  <2> SUFFICES ASSUME TypeOK, AllFit, NEW t \in Tests
               PROVE  /\ Copies(ready, "tests", t) + Copies(fresh, "tests", t)
                         + Copies(ready, "tests.dlq", t) + Copies(fresh, "tests.dlq", t)
                         + Cardinality(Working(t)) <= 2 ^ faults
    BY DEF CopiesBounded
  <2> DEFINE a == Copies(ready, "tests", t)
             b == Copies(ready, "tests.dlq", t)
             c == Copies(fresh, "tests", t)
             d == Copies(fresh, "tests.dlq", t)
             w == Cardinality(Working(t))
  <2>1. "tests" \in Queues \cup DLQs /\ "tests.dlq" \in Queues \cup DLQs
    BY DEF Queues, DLQs
  <2>2. a \in Nat /\ b \in Nat /\ c \in Nat /\ d \in Nat
    BY <2>1, CopiesType DEF TypeOK
  <2>3. w \in Nat
    <3>1. {} \in SUBSET Handlers
      OBVIOUS
    <3> QED
      BY <3>1, HandlersOfTest
  <2>4. (a + b) + (c + d) + w <= 2 ^ faults
    BY DEF AllFit, Fits, Total, TestsIn
  <2>5. 2 ^ faults \in Nat
    BY PowerPositive DEF TypeOK
  <2> DEFINE p == 2 ^ faults
  <2> HIDE DEF a, b, c, d, w, p
  <2>6. a + c + b + d + w <= p
    BY <2>2, <2>3, <2>4, <2>5 DEF p
  <2> QED
    BY <2>6 DEF a, b, c, d, w, p
<1> QED
  BY <1>1, <1>2, <1>3, TypeCorrect, PTL DEF Spec
=============================================================================
