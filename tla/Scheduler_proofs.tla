-------------------------- MODULE Scheduler_proofs --------------------------
(***************************************************************************)
(* Theorems about Scheduler, for every set of schedules, replicas and      *)
(* clients, and any number of windows and crashes.                         *)
(***************************************************************************)
EXTENDS Scheduler, FiniteSetTheorems, TLAPS

\* Types and the absence of leaked tasks depend on each other: a task is only
\* stopped once because activeTasks holds it while it is started.
Inv == TypeOK /\ NoLeakedTask

\* removeSchedule and registerSchedule leave what activeTasks holds started, and
\* nothing else.
LEMMA RemoveKeeps ==
    ASSUME Inv, NEW K \in SUBSET Tasks, Remove(K)
    PROVE  /\ due' \subseteq Tasks /\ started' \in [Tasks -> Nat]
           /\ registry' \in [Tasks -> {"none", "live", "stopped"}]
           /\ executing' \in [Tasks -> 0..MaxWindow]
           /\ NoLeakedTask'
BY SchedulerAssumption DEF Inv, TypeOK, NoLeakedTask, Remove, Stopped, Forget

LEMMA RegisterKeeps ==
    ASSUME Inv, NEW K \in SUBSET Tasks, NEW enabled \in BOOLEAN, Register(K, enabled)
    PROVE  /\ due' \subseteq Tasks /\ started' \in [Tasks -> Nat]
           /\ registry' \in [Tasks -> {"none", "live", "stopped"}]
           /\ executing' \in [Tasks -> 0..MaxWindow]
           /\ NoLeakedTask'
<1>1. CASE enabled
  BY <1>1, SchedulerAssumption DEF Inv, TypeOK, NoLeakedTask, Register, Stopped, Forget
<1>2. CASE ~enabled
  BY <1>2, SchedulerAssumption DEF Inv, TypeOK, NoLeakedTask, Register, Stopped, Forget
<1> QED
  BY <1>1, <1>2

\* What becomes of a request.
LEMMA RequestKeeps ==
    ASSUME Inv, NEW c \in Clients
    PROVE  /\ \A pc \in RequestSteps, r \in Replicas, s \in Schedules, setting \in Settings :
                 StartRequest(c, pc, r, s, setting) => request' \in [Clients -> RequestState]
           /\ \A pc \in RequestSteps : ~In(c, "idle") /\ Proceed(c, pc) => request' \in [Clients -> RequestState]
           /\ Finish(c) => request' \in [Clients -> RequestState]
           /\ ~In(c, "idle") => /\ request[c].r \in Replicas /\ request[c].s \in Schedules
                                /\ request[c].set \in Settings /\ request[c].seen \in Rows
                                /\ {TaskOf(c)} \in SUBSET Tasks
<1> USE DEF Inv, TypeOK, RequestState, NoRequest
<1>1. ASSUME NEW pc \in RequestSteps, NEW r \in Replicas, NEW s \in Schedules, NEW setting \in Settings,
             StartRequest(c, pc, r, s, setting)
      PROVE  request' \in [Clients -> RequestState]
  BY <1>1 DEF StartRequest, Rows
<1>2. ASSUME NEW pc \in RequestSteps, ~In(c, "idle"), Proceed(c, pc)
      PROVE  request' \in [Clients -> RequestState]
  BY <1>2 DEF Proceed, In
<1>3. ASSUME Finish(c)
      PROVE  request' \in [Clients -> RequestState]
  BY <1>3 DEF Finish
<1>4. ASSUME ~In(c, "idle")
      PROVE  /\ request[c].r \in Replicas /\ request[c].s \in Schedules
             /\ request[c].set \in Settings /\ request[c].seen \in Rows
             /\ {TaskOf(c)} \in SUBSET Tasks
  BY <1>4 DEF In, TaskOf, Tasks
<1> QED
  BY <1>1, <1>2, <1>3, <1>4

\* A request that is under way keeps its fields as it goes on.
LEMMA BusyRequest ==
    ASSUME Inv, NEW c \in Clients, ~In(c, "idle"),
           NEW pc \in RequestSteps, NEW setting \in Settings, NEW seen \in Rows
    PROVE  /\ [request[c] EXCEPT !.pc = pc, !.set = setting]
                  \in [pc : RequestSteps, r : Replicas, s : Schedules, set : Settings, seen : Rows]
           /\ [request[c] EXCEPT !.pc = pc, !.seen = seen]
                  \in [pc : RequestSteps, r : Replicas, s : Schedules, set : Settings, seen : Rows]
<1>1. request[c] \in [pc : RequestSteps, r : Replicas, s : Schedules, set : Settings, seen : Rows]
  BY DEF Inv, TypeOK, RequestState, In
<1> QED
  BY <1>1

LEMMA EndFiringKeeps ==
    ASSUME Inv, NEW r \in Replicas, NEW s \in Schedules, NEW w \in Windows, EndFiring(r, s, w)
    PROVE  /\ firing' \in [Firings -> {"none"} \cup FiringSteps]
           /\ executing' \in [Tasks -> 0..MaxWindow]
BY SchedulerAssumption DEF Inv, TypeOK, EndFiring, Firings, Tasks, Windows

-----------------------------------------------------------------------------
LEMMA InvInit == Init => Inv
BY SchedulerAssumption DEF Init, Inv, TypeOK, NoLeakedTask, Rows, RequestState, NoRequest, FiringSteps, Windows

LEMMA InvFiring ==
    ASSUME Inv, NEW r \in Replicas, NEW s \in Schedules, NEW w \in Windows,
           Tick(r, s) \/ FiringStep(r, s, w)
    PROVE  Inv'
<1> USE SchedulerAssumption DEF tableVars, taskVars
<1>1. CASE Tick(r, s)
  <2>1. window \in Windows \/ window = 0
    BY DEF Inv, TypeOK, Windows
  <2> QED
    BY <1>1, <2>1 DEF Tick, Inv, TypeOK, NoLeakedTask, Firings, Tasks, FiringSteps
<1>2. CASE Claim(r, s, w)
  BY <1>2, EndFiringKeeps DEF Claim, Inv, TypeOK, NoLeakedTask, FiringSteps
<1>3. CASE Post(r, s, w)
  <2>1. /\ firing' \in [Firings -> {"none"} \cup FiringSteps]
        /\ executing' \in [Tasks -> 0..MaxWindow]
    BY <1>3, EndFiringKeeps DEF Post, Inv, TypeOK, FiringSteps
  <2>2. posts' \in [Schedules -> [Windows -> Nat]]
    <3>1. posts[s] \in [Windows -> Nat] /\ posts[s][w] + 1 \in Nat
      BY DEF Inv, TypeOK
    <3>2. [posts EXCEPT ![s][w] = @ + 1] \in [Schedules -> [Windows -> Nat]]
      BY <3>1 DEF Inv, TypeOK
    <3> QED
      BY <1>3, <3>2 DEF Post, Inv, TypeOK
  <2> QED
    BY <1>3, <2>1, <2>2 DEF Post, Inv, TypeOK, NoLeakedTask
<1>4. CASE Record(r, s, w)
  BY <1>4, EndFiringKeeps DEF Record, SetLastRun, Inv, TypeOK, NoLeakedTask
<1>5. CASE FiringFails(r, s, w)
  BY <1>5, EndFiringKeeps DEF FiringFails, Inv, TypeOK, NoLeakedTask
<1> QED
  BY <1>1, <1>2, <1>3, <1>4, <1>5 DEF FiringStep

LEMMA InvNewRequest ==
    ASSUME Inv, NEW c \in Clients, NEW r \in Replicas, NEW s \in Schedules, NewRequest(c, r, s)
    PROVE  Inv'
<1> USE RequestKeeps DEF tableVars, taskVars, RequestSteps, Settings
<1>1. CASE PostSchedule(c, r, s)
  BY <1>1 DEF PostSchedule, Inv, TypeOK, NoLeakedTask
<1>2. CASE PutSchedule(c, r, s)
  BY <1>2 DEF PutSchedule, Inv, TypeOK, NoLeakedTask
<1>3. CASE DeleteSchedule(c, r, s)
  <2>1. {<<r, s>>} \in SUBSET Tasks
    BY DEF Tasks
  <2> QED
    BY <1>3, <2>1, RemoveKeeps DEF DeleteSchedule, Inv, TypeOK
<1>4. CASE EraseTeam(c, r, s)
  BY <1>4 DEF EraseTeam, Inv, TypeOK, NoLeakedTask
<1>5. CASE RunNow(c, r, s)
  BY <1>5 DEF RunNow, Inv, TypeOK, NoLeakedTask
<1> QED
  BY <1>1, <1>2, <1>3, <1>4, <1>5 DEF NewRequest

LEMMA InvRequestStep ==
    ASSUME Inv, NEW c \in Clients, RequestStep(c)
    PROVE  Inv'
<1> USE RequestKeeps DEF tableVars, taskVars
<1>1. CASE CheckEnabled(c)
  BY <1>1 DEF CheckEnabled, In, RequestSteps, Inv, TypeOK, NoLeakedTask
<1>2. CASE CountQuota(c)
  BY <1>2 DEF CountQuota, In, RequestSteps, Inv, TypeOK, NoLeakedTask
<1>3. CASE Write(c)
  <2>1. request' \in [Clients -> RequestState]
    <3>1. CASE stored[request[c].s] = "deleted"
      BY <1>3, <3>1, RequestKeeps DEF Write
    <3>2. CASE stored[request[c].s] # "deleted"
      <4>1. request' = [request EXCEPT ![c] = [@ EXCEPT !.pc = "reloading", !.set = "same"]]
        BY <1>3, <3>2 DEF Write, Inv, TypeOK
      <4>2. ~In(c, "idle") /\ "reloading" \in RequestSteps /\ "same" \in Settings /\ "on" \in Rows
        BY <1>3 DEF Write, In, RequestSteps, Settings, Rows
      <4>3. [request[c] EXCEPT !.pc = "reloading", !.set = "same"] \in RequestState
        BY <4>2, BusyRequest DEF RequestState
      <4> QED
        BY <4>1, <4>3 DEF Inv, TypeOK
    <3> QED
      BY <3>1, <3>2
  <2>2. stored' \in [Schedules -> Rows]
    BY <1>3 DEF Write, In, Settings, Rows, Inv, TypeOK
  <2> QED
    BY <1>3, <2>1, <2>2 DEF Write, Inv, TypeOK, NoLeakedTask
<1>4. CASE ReadRow(c)
  <2>1. request' \in [Clients -> RequestState]
    <3>1. request' = [request EXCEPT ![c] = [@ EXCEPT !.pc = "registering", !.seen = stored[request[c].s]]]
      BY <1>4 DEF ReadRow, Inv, TypeOK
    <3>2. stored[request[c].s] \in Rows
      BY <1>4, RequestKeeps DEF ReadRow, In, Inv, TypeOK
    <3>3. ~In(c, "idle") /\ "registering" \in RequestSteps /\ "same" \in Settings
      BY <1>4 DEF ReadRow, In, RequestSteps, Settings
    <3>4. [request[c] EXCEPT !.pc = "registering", !.seen = stored[request[c].s]] \in RequestState
      BY <3>2, <3>3, BusyRequest DEF RequestState
    <3> QED
      BY <3>1, <3>4 DEF Inv, TypeOK
  <2> QED
    BY <1>4, <2>1 DEF ReadRow, Inv, TypeOK, NoLeakedTask
<1>5. CASE RegisterRow(c)
  BY <1>5, RemoveKeeps, RegisterKeeps DEF RegisterRow, In, Inv, TypeOK
<1>6. CASE DeleteRow(c)
  BY <1>6 DEF DeleteRow, In, Rows, Inv, TypeOK, NoLeakedTask
<1>7. CASE ListRows(c)
  <2>1. request' \in [Clients -> RequestState]
    <3>1. request' = [request EXCEPT ![c] = [@ EXCEPT !.pc = "erasing", !.seen = stored[request[c].s]]]
      BY <1>7 DEF ListRows, Inv, TypeOK
    <3>2. stored[request[c].s] \in Rows
      BY <1>7, RequestKeeps DEF ListRows, In, Inv, TypeOK
    <3>3. ~In(c, "idle") /\ "erasing" \in RequestSteps /\ "same" \in Settings
      BY <1>7 DEF ListRows, In, RequestSteps, Settings
    <3>4. [request[c] EXCEPT !.pc = "erasing", !.seen = stored[request[c].s]] \in RequestState
      BY <3>2, <3>3, BusyRequest DEF RequestState
    <3> QED
      BY <3>1, <3>4 DEF Inv, TypeOK
  <2> QED
    BY <1>7, <2>1 DEF ListRows, Inv, TypeOK, NoLeakedTask
<1>8. CASE EraseRow(c)
  BY <1>8 DEF EraseRow, In, Rows, RequestSteps, Inv, TypeOK, NoLeakedTask
<1>9. CASE EraseTask(c)
  BY <1>9, RemoveKeeps DEF EraseTask, In, Inv, TypeOK
<1>10. CASE PostNow(c)
  BY <1>10 DEF PostNow, In, RequestSteps, Inv, TypeOK, NoLeakedTask
<1>11. CASE RecordNow(c)
  BY <1>11 DEF RecordNow, SetLastRun, In, Inv, TypeOK, NoLeakedTask
<1>12. CASE RequestFails(c)
  BY <1>12 DEF RequestFails, Inv, TypeOK, NoLeakedTask
<1> QED
  BY <1>1, <1>2, <1>3, <1>4, <1>5, <1>6, <1>7, <1>8, <1>9, <1>10, <1>11, <1>12 DEF RequestStep

LEMMA InvRestart ==
    ASSUME Inv, NEW r \in Replicas, Restart(r)
    PROVE  Inv'
<1>1. started' \in [Tasks -> Nat] /\ registry' \in [Tasks -> {"none", "live", "stopped"}] /\ NoLeakedTask'
  BY DEF Restart, Inv, TypeOK, NoLeakedTask
<1>2. due' \subseteq Tasks /\ executing' \in [Tasks -> 0..MaxWindow]
  BY SchedulerAssumption DEF Restart, Forget, Inv, TypeOK
<1>3. firing' \in [Firings -> {"none"} \cup FiringSteps] /\ request' \in [Clients -> RequestState]
  BY DEF Restart, Inv, TypeOK, RequestState, NoRequest
<1> QED
  BY <1>1, <1>2, <1>3, SchedulerAssumption DEF Restart, tableVars, Inv, TypeOK

LEMMA InvNext == Inv /\ [Next]_vars => Inv'
<1> SUFFICES ASSUME Inv, [Next]_vars PROVE Inv'
  OBVIOUS
<1>1. CASE NextMinute
  BY <1>1, SchedulerAssumption DEF NextMinute, tableVars, Inv, TypeOK, NoLeakedTask
<1>2. ASSUME NEW r \in Replicas, NEW s \in Schedules, Tick(r, s)
      PROVE  Inv'
  <2>1. CASE Windows = {}
    BY <1>2, <2>1, SchedulerAssumption DEF Tick, Inv, TypeOK, Windows, NoLeakedTask, tableVars, Firings, Tasks
  <2>2. CASE Windows # {}
    BY <1>2, <2>2, InvFiring
  <2> QED
    BY <2>1, <2>2
<1>3. ASSUME NEW c \in Clients, NEW r \in Replicas, NEW s \in Schedules, NewRequest(c, r, s)
      PROVE  Inv'
  BY <1>3, InvNewRequest
<1>4. ASSUME NEW r \in Replicas, NEW s \in Schedules, NEW w \in Windows, FiringStep(r, s, w)
      PROVE  Inv'
  BY <1>4, InvFiring
<1>5. ASSUME NEW c \in Clients, RequestStep(c)
      PROVE  Inv'
  BY <1>5, InvRequestStep
<1>6. ASSUME NEW r \in Replicas, Restart(r)
      PROVE  Inv'
  BY <1>6, InvRestart
<1>7. CASE UNCHANGED vars
  BY <1>7 DEF vars, tableVars, taskVars, Inv, TypeOK, NoLeakedTask
<1> QED
  BY <1>1, <1>2, <1>3, <1>4, <1>5, <1>6, <1>7 DEF Next

\* Every reachable state of the scheduler is well typed.
THEOREM SchedulerTypeCorrect == Spec => []TypeOK
<1>1. Inv => TypeOK
  BY DEF Inv
<1> QED
  BY <1>1, InvInit, InvNext, PTL DEF Spec

\* However requests, reloads and restarts interleave, exactly the tasks that
\* activeTasks holds go on firing (scheduler.ts 94-126).
THEOREM NoLeakedTaskCorrect == Spec => []NoLeakedTask
<1>1. Inv => NoLeakedTask
  BY DEF Inv
<1> QED
  BY <1>1, InvInit, InvNext, PTL DEF Spec

-----------------------------------------------------------------------------
\* Two firings that hold the lock of a window are one.
Exclusive ==
    \A s \in Schedules, w \in Windows, r1, r2 \in Replicas :
        firing[<<r1, s, w>>] \in {"posting", "recording"} /\ firing[<<r2, s, w>>] \in {"posting", "recording"}
            => r1 = r2

LEMMA ExclusiveInit == Init => Exclusive
BY DEF Init, Exclusive, Firings

\* A step that lets no firing through the lock keeps them apart.
LEMMA NobodyEnters ==
    ASSUME Exclusive,
           \A f \in Firings : firing'[f] \in {"posting", "recording"} => firing[f] \in {"posting", "recording"}
    PROVE  Exclusive'
BY DEF Exclusive, Firings

LEMMA ExclusiveFiring ==
    ASSUME Inv, Exclusive, NEW r \in Replicas, NEW s \in Schedules, NEW w \in Windows, FiringStep(r, s, w)
    PROVE  Exclusive'
<1>0. <<r, s, w>> \in Firings /\ firing \in [Firings -> {"none"} \cup FiringSteps]
  BY DEF Firings, Inv, TypeOK
<1>1. CASE Claim(r, s, w)
  <2>1. CASE Locked(s, w)
    BY <1>0, <1>1, <2>1, NobodyEnters DEF Claim, EndFiring
  <2>2. CASE ~Locked(s, w)
    <3>1. firing' = [firing EXCEPT ![<<r, s, w>>] = "posting"]
      BY <1>1, <2>2 DEF Claim
    <3>2. \A q \in Replicas : firing[<<q, s, w>>] \notin {"posting", "recording"}
      BY <2>2 DEF Locked
    <3> QED
      BY <1>0, <3>1, <3>2 DEF Exclusive, Firings
  <2> QED
    BY <2>1, <2>2
<1>2. CASE Post(r, s, w)
  BY <1>0, <1>2, NobodyEnters DEF Post, EndFiring
<1>3. CASE Record(r, s, w)
  BY <1>0, <1>3, NobodyEnters DEF Record, EndFiring
<1>4. CASE FiringFails(r, s, w)
  BY <1>0, <1>4, NobodyEnters DEF FiringFails, EndFiring
<1> QED
  BY <1>1, <1>2, <1>3, <1>4 DEF FiringStep

LEMMA ExclusiveNext == Inv /\ Exclusive /\ [Next]_vars => Exclusive'
<1> SUFFICES ASSUME Inv, Exclusive, [Next]_vars PROVE Exclusive'
  OBVIOUS
<1>0. firing \in [Firings -> {"none"} \cup FiringSteps]
  BY DEF Inv, TypeOK
<1>1. ASSUME NEW r \in Replicas, NEW s \in Schedules, Tick(r, s)
      PROVE  Exclusive'
  BY <1>0, <1>1, NobodyEnters DEF Tick
<1>2. ASSUME NEW r \in Replicas, NEW s \in Schedules, NEW w \in Windows, FiringStep(r, s, w)
      PROVE  Exclusive'
  BY <1>2, ExclusiveFiring
<1>3. ASSUME NEW r \in Replicas, Restart(r)
      PROVE  Exclusive'
  BY <1>0, <1>3, NobodyEnters DEF Restart
<1>4. CASE UNCHANGED firing
  BY <1>4 DEF Exclusive
<1>5. ASSUME NEW c \in Clients, RequestStep(c)
      PROVE  UNCHANGED firing
  BY <1>5 DEF RequestStep, CheckEnabled, CountQuota, Write, ReadRow, RegisterRow, DeleteRow, ListRows,
              EraseRow, EraseTask, PostNow, RecordNow, RequestFails
<1>6. ASSUME NEW c \in Clients, NEW r \in Replicas, NEW s \in Schedules, NewRequest(c, r, s)
      PROVE  UNCHANGED firing
  BY <1>6 DEF NewRequest, PostSchedule, PutSchedule, DeleteSchedule, EraseTeam, RunNow
<1> QED
  BY <1>1, <1>2, <1>3, <1>4, <1>5, <1>6 DEF Next, NextMinute, vars

\* At most one of the replicas posts a window of a schedule at a time, whatever
\* their number (scheduler.ts 34-53).
THEOREM OneClaimCorrect == Spec => []OneClaim
<1>1. Exclusive => OneClaim
  <2> SUFFICES ASSUME Exclusive, NEW s \in Schedules, NEW w \in Windows
               PROVE  Cardinality({r \in Replicas : firing[<<r, s, w>>] \in {"posting", "recording"}}) <= 1
    BY DEF OneClaim
  <2> DEFINE S == {r \in Replicas : firing[<<r, s, w>>] \in {"posting", "recording"}}
  <2> SUFFICES Cardinality(S) <= 1
    OBVIOUS
  <2>0. \A q1, q2 \in S : q1 = q2
    BY DEF Exclusive
  <2> HIDE DEF S
  <2>1. CASE S = {}
    <3>1. Cardinality({}) = 0
      BY FS_EmptySet
    <3> QED
      BY <2>1, <3>1
  <2>2. CASE S # {}
    <3>1. PICK r \in S : TRUE
      BY <2>2
    <3>2. S = {r}
      BY <2>0, <3>1
    <3>3. Cardinality({r}) = 1
      BY FS_Singleton
    <3> QED
      BY <3>2, <3>3
  <2> QED
    BY <2>1, <2>2
<1>2. Init => Inv /\ Exclusive
  BY InvInit, ExclusiveInit
<1>3. Inv /\ Exclusive /\ [Next]_vars => (Inv /\ Exclusive)'
  BY InvNext, ExclusiveNext
<1> QED
  BY <1>1, <1>2, <1>3, PTL DEF Spec
=============================================================================
