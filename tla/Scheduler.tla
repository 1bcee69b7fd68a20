----------------------------- MODULE Scheduler -----------------------------
(***************************************************************************)
(* The scheduler of results-service: the schedules table, the cron tasks   *)
(* that each replica registers for it, the requests that change both, and  *)
(* the firing of a task, which claims a window with an advisory lock,      *)
(* posts the test and records the run.                                     *)
(*                                                                         *)
(* A window is a UTC minute.  node-cron starts a task at most once in a    *)
(* minute and not while its last execution is under way (noOverlap).       *)
(***************************************************************************)
EXTENDS Naturals, FiniteSets

CONSTANTS
    Schedules,    \* ids of schedules, all of one team
    Replicas,     \* results-service processes
    Clients,      \* admins that change schedules, one request at a time each
    MaxWindow,    \* the windows are 1..MaxWindow
    Limit,        \* the team's maxScheduledTests
    MaxCrashes    \* how many replicas crash in a behaviour

ASSUME SchedulerAssumption ==
    /\ IsFiniteSet(Schedules) /\ IsFiniteSet(Clients)
    /\ Clients # {}
    /\ MaxWindow \in Nat /\ Limit \in Nat /\ MaxCrashes \in Nat

VARIABLES
    stored,     \* the schedules table: each row's state
    lastRun,    \* the schedules whose last_run_at is set
    posts,      \* how many tests were posted for a schedule's window
    window,     \* the current minute
    due,        \* the cron tasks that have yet to fire in it
    started,    \* cron tasks created and not stopped, per replica and schedule
    registry,   \* activeTasks
    executing,  \* the window that the registered task is firing for, or 0
    firing,     \* executions of triggerSchedule
    request,    \* each client's request
    crashes     \* replicas crashed so far

tableVars == <<stored, lastRun, posts>>
taskVars  == <<due, started, registry, executing>>
vars == <<tableVars, taskVars, window, firing, request, crashes>>

Windows == 1..MaxWindow
Tasks   == Replicas \X Schedules
Firings == Replicas \X Schedules \X Windows

Rows == {"unborn", "on", "off", "deleted"}

\* A step of a firing is what it is about to do.
FiringSteps  == {"claiming", "posting", "recording"}
RequestSteps == {"checking", "counting", "writing", "reloading", "registering",
                 "deleting", "listing", "erasing", "unregistering", "posting", "recording"}

\* What a request sets 'enabled' to, if it does.
Settings == {"on", "off", "same"}

NoRequest == [pc |-> "idle"]
RequestState ==
    [pc : {"idle"}] \cup
    [pc : RequestSteps, r : Replicas, s : Schedules, set : Settings, seen : Rows]

TypeOK ==
    /\ stored \in [Schedules -> Rows]
    /\ lastRun \subseteq Schedules
    /\ posts \in [Schedules -> [Windows -> Nat]]
    /\ window \in 0..MaxWindow
    /\ due \subseteq Tasks
    /\ started \in [Tasks -> Nat]
    /\ registry \in [Tasks -> {"none", "live", "stopped"}]
    /\ executing \in [Tasks -> 0..MaxWindow]
    /\ firing \in [Firings -> {"none"} \cup FiringSteps]
    /\ request \in [Clients -> RequestState]
    /\ crashes \in 0..MaxCrashes

Init ==
    /\ stored = [s \in Schedules |-> "unborn"]
    /\ lastRun = {}
    /\ posts = [s \in Schedules |-> [w \in Windows |-> 0]]
    /\ window = 0
    /\ due = {}
    /\ started = [k \in Tasks |-> 0]
    /\ registry = [k \in Tasks |-> "none"]
    /\ executing = [k \in Tasks |-> 0]
    /\ firing = [f \in Firings |-> "none"]
    /\ request = [c \in Clients |-> NoRequest]
    /\ crashes = 0

-----------------------------------------------------------------------------
(* The cron tasks of a replica.  K is the set of tasks whose entry changes. *)

\* activeTasks.get(id)?.stop(), on every entry of K.
Stopped(K) ==
    [k \in Tasks |-> IF k \in K /\ registry[k] = "live" THEN started[k] - 1 ELSE started[k]]

Forget(K) ==
    /\ due' = due \ K
    /\ executing' = [k \in Tasks |-> IF k \in K THEN 0 ELSE executing[k]]

\* removeSchedule
Remove(K) ==
    /\ started' = Stopped(K)
    /\ registry' = [k \in Tasks |-> IF k \in K THEN "none" ELSE registry[k]]
    /\ Forget(K)

\* Mutant: the task that was registered before goes on.
RegisterLeaking(K, enabled) ==
    /\ started' = [k \in Tasks |-> IF k \in K /\ enabled THEN started[k] + 1 ELSE started[k]]
    /\ registry' = [k \in Tasks |-> IF k \notin K THEN registry[k]
                                    ELSE IF enabled THEN "live" ELSE "stopped"]
    /\ Forget(K)

\* registerSchedule: the old task is stopped, the new one too if it is disabled.
Register(K, enabled) ==
    /\ started' = [k \in Tasks |-> IF k \in K /\ enabled THEN Stopped(K)[k] + 1
                                                         ELSE Stopped(K)[k]]
    /\ registry' = [k \in Tasks |-> IF k \notin K THEN registry[k]
                                    ELSE IF enabled THEN "live" ELSE "stopped"]
    /\ Forget(K)

-----------------------------------------------------------------------------
(* Firing *)

\* The next minute begins; what did not fire in the last one is missed.
NextMinute ==
    /\ window < MaxWindow
    /\ window' = window + 1
    /\ due' = {k \in Tasks : started[k] > 0}
    /\ UNCHANGED <<tableVars, started, registry, executing, firing, request, crashes>>

\* The cron task's callback: the window is read now, the connection comes later.
Tick(r, s) ==
    /\ <<r, s>> \in due
    /\ due' = due \ {<<r, s>>}
    /\ IF executing[<<r, s>>] = 0
       THEN /\ firing' = [firing EXCEPT ![<<r, s, window>>] = "claiming"]
            /\ executing' = [executing EXCEPT ![<<r, s>>] = window]
       ELSE UNCHANGED <<firing, executing>>
    /\ UNCHANGED <<tableVars, window, started, registry, request, crashes>>

\* The end of an execution, with or without an error: ROLLBACK or COMMIT, and
\* the connection goes back to the pool.
EndFiring(r, s, w) ==
    /\ firing' = [firing EXCEPT ![<<r, s, w>>] = "none"]
    /\ executing' = [executing EXCEPT ![<<r, s>>] = IF @ = w THEN 0 ELSE @]

\* A transaction holds the advisory lock of the schedule's window.
Locked(s, w) == \E r \in Replicas : firing[<<r, s, w>>] \in {"posting", "recording"}

\* Mutant: the answer of pg_try_advisory_xact_lock is not looked at.
ClaimAnyway(r, s, w) ==
    /\ firing[<<r, s, w>>] = "claiming"
    /\ firing' = [firing EXCEPT ![<<r, s, w>>] = "posting"]
    /\ UNCHANGED <<tableVars, taskVars, window, request, crashes>>

\* pool.connect, BEGIN, pg_try_advisory_xact_lock.
Claim(r, s, w) ==
    /\ firing[<<r, s, w>>] = "claiming"
    /\ IF Locked(s, w)
       THEN EndFiring(r, s, w)
       ELSE /\ firing' = [firing EXCEPT ![<<r, s, w>>] = "posting"]
            /\ UNCHANGED executing
    /\ UNCHANGED <<tableVars, window, due, started, registry, request, crashes>>

\* POST /tests: accepted; accepted, but the answer is lost; or refused.
Post(r, s, w) ==
    /\ firing[<<r, s, w>>] = "posting"
    /\ \/ /\ posts' = [posts EXCEPT ![s][w] = @ + 1]
          /\ \/ firing' = [firing EXCEPT ![<<r, s, w>>] = "recording"] /\ UNCHANGED executing
             \/ EndFiring(r, s, w)
       \/ EndFiring(r, s, w) /\ UNCHANGED posts
    /\ UNCHANGED <<stored, lastRun, window, due, started, registry, request, crashes>>

SetLastRun(s) ==
    lastRun' = IF stored[s] \in {"on", "off"} THEN lastRun \cup {s} ELSE lastRun

\* UPDATE schedules SET last_run_at, COMMIT.
Record(r, s, w) ==
    /\ firing[<<r, s, w>>] = "recording"
    /\ SetLastRun(s)
    /\ EndFiring(r, s, w)
    /\ UNCHANGED <<stored, posts, window, due, started, registry, request, crashes>>

\* Any database call of the execution fails.
FiringFails(r, s, w) ==
    /\ firing[<<r, s, w>>] \in {"claiming", "recording"}
    /\ EndFiring(r, s, w)
    /\ UNCHANGED <<tableVars, window, due, started, registry, request, crashes>>

-----------------------------------------------------------------------------
(* Requests: each await of a route is a step, and requests of different      *)
(* clients interleave.  A replica that crashes drops the requests it serves. *)

In(c, pc) == request[c].pc = pc

StartRequest(c, pc, r, s, setting) ==
    /\ In(c, "idle")
    /\ request' = [request EXCEPT ![c] =
                      [pc |-> pc, r |-> r, s |-> s, set |-> setting, seen |-> "unborn"]]

Proceed(c, pc) == request' = [request EXCEPT ![c].pc = pc]
Finish(c)      == request' = [request EXCEPT ![c] = NoRequest]

\* The task that c's request is about, on the replica that serves it.
TaskOf(c) == <<request[c].r, request[c].s>>

\* POST /schedules: the id is a new one.
PostSchedule(c, r, s) ==
    /\ stored[s] = "unborn"
    /\ \A d \in Clients : ~In(d, "idle") => request[d].s # s
    /\ \/ StartRequest(c, "counting", r, s, "on")
       \/ StartRequest(c, "writing", r, s, "off")
    /\ UNCHANGED <<tableVars, taskVars, window, firing, crashes>>

\* PUT /schedules/:id
PutSchedule(c, r, s) ==
    /\ stored[s] # "unborn"
    /\ \/ StartRequest(c, "checking", r, s, "on")
       \/ \E setting \in {"off", "same"} : StartRequest(c, "writing", r, s, setting)
    /\ UNCHANGED <<tableVars, taskVars, window, firing, crashes>>

\* SELECT enabled: only a schedule that is off needs room under the quota.
CheckEnabled(c) ==
    /\ In(c, "checking")
    /\ Proceed(c, IF stored[request[c].s] = "off" THEN "counting" ELSE "writing")
    /\ UNCHANGED <<tableVars, taskVars, window, firing, crashes>>

EnabledSchedules == {s \in Schedules : stored[s] = "on"}

\* checkScheduleQuota
CountQuota(c) ==
    /\ In(c, "counting")
    /\ IF Cardinality(EnabledSchedules) >= Limit THEN Finish(c) ELSE Proceed(c, "writing")
    /\ UNCHANGED <<tableVars, taskVars, window, firing, crashes>>

\* Mutant: 'enabled' is written even by a request that does not mention it.
WriteAlways(c) ==
    LET s == request[c].s IN
    /\ In(c, "writing")
    /\ IF stored[s] = "deleted"
       THEN Finish(c) /\ UNCHANGED stored
       ELSE /\ stored' = [stored EXCEPT ![s] = request[c].set]
            /\ request' = [request EXCEPT ![c].pc = "reloading", ![c].set = "same"]
    /\ UNCHANGED <<lastRun, posts, taskVars, window, firing, crashes>>

\* INSERT or UPDATE ... RETURNING: an update of a deleted row is a 404.
Write(c) ==
    LET s == request[c].s
        setting == request[c].set IN
    /\ In(c, "writing")
    /\ IF stored[s] = "deleted"
       THEN Finish(c) /\ UNCHANGED stored
       ELSE /\ stored' = [stored EXCEPT ![s] = IF setting = "same" THEN @ ELSE setting]
            /\ request' = [request EXCEPT ![c].pc = "reloading", ![c].set = "same"]
    /\ UNCHANGED <<lastRun, posts, taskVars, window, firing, crashes>>

\* reloadSchedule: the row is read, and registered as it was when it was read.
ReadRow(c) ==
    /\ In(c, "reloading")
    /\ request' = [request EXCEPT ![c].pc = "registering", ![c].seen = stored[request[c].s]]
    /\ UNCHANGED <<tableVars, taskVars, window, firing, crashes>>

RegisterRow(c) ==
    /\ In(c, "registering")
    /\ IF request[c].seen = "deleted"
       THEN Remove({TaskOf(c)})
       ELSE Register({TaskOf(c)}, request[c].seen = "on")
    /\ Finish(c)
    /\ UNCHANGED <<tableVars, window, firing, crashes>>

\* DELETE /schedules/:id: the task goes at once, the row after it.
DeleteSchedule(c, r, s) ==
    /\ stored[s] # "unborn"
    /\ StartRequest(c, "deleting", r, s, "same")
    /\ Remove({<<r, s>>})
    /\ UNCHANGED <<tableVars, window, firing, crashes>>

DeleteRow(c) ==
    /\ In(c, "deleting")
    /\ \/ stored' = [stored EXCEPT ![request[c].s] = "deleted"]
       \/ UNCHANGED stored
    /\ Finish(c)
    /\ UNCHANGED <<lastRun, posts, taskVars, window, firing, crashes>>

\* DELETE /teams/:id/data: lists the schedules, deletes the rows, and then
\* stops the tasks of those it listed; here, of a team with one schedule.
EraseTeam(c, r, s) ==
    /\ StartRequest(c, "listing", r, s, "same")
    /\ UNCHANGED <<tableVars, taskVars, window, firing, crashes>>

ListRows(c) ==
    /\ In(c, "listing")
    /\ request' = [request EXCEPT ![c].pc = "erasing", ![c].seen = stored[request[c].s]]
    /\ UNCHANGED <<tableVars, taskVars, window, firing, crashes>>

EraseRow(c) ==
    LET s == request[c].s IN
    /\ In(c, "erasing")
    /\ stored' = [stored EXCEPT ![s] = IF @ = "unborn" THEN @ ELSE "deleted"]
    /\ IF request[c].seen \in {"on", "off"} THEN Proceed(c, "unregistering") ELSE Finish(c)
    /\ UNCHANGED <<lastRun, posts, taskVars, window, firing, crashes>>

EraseTask(c) ==
    /\ In(c, "unregistering")
    /\ Remove({TaskOf(c)})
    /\ Finish(c)
    /\ UNCHANGED <<tableVars, window, firing, crashes>>

\* POST /schedules/:id/run: the row is read, the test posted, the run recorded
\* if api-service accepted it.
RunNow(c, r, s) ==
    /\ stored[s] \in {"on", "off"}
    /\ StartRequest(c, "posting", r, s, "same")
    /\ UNCHANGED <<tableVars, taskVars, window, firing, crashes>>

PostNow(c) ==
    /\ In(c, "posting")
    /\ Proceed(c, "recording") \/ Finish(c)
    /\ UNCHANGED <<tableVars, taskVars, window, firing, crashes>>

RecordNow(c) ==
    /\ In(c, "recording")
    /\ SetLastRun(request[c].s)
    /\ Finish(c)
    /\ UNCHANGED <<stored, posts, taskVars, window, firing, crashes>>

\* Any other database call of a request fails: a 500, and nothing is undone.
RequestFails(c) ==
    /\ request[c].pc \in {"checking", "counting", "writing", "reloading", "listing", "erasing", "recording"}
    /\ Finish(c)
    /\ UNCHANGED <<tableVars, taskVars, window, firing, crashes>>

-----------------------------------------------------------------------------
(* A replica crashes and starts again: startScheduler registers every row    *)
(* that is enabled then.                                                     *)

Restart(r) ==
    LET mine == {k \in Tasks : k[1] = r}
        on   == {k \in mine : stored[k[2]] = "on"} IN
    /\ crashes < MaxCrashes
    /\ crashes' = crashes + 1
    /\ started' = [k \in Tasks |-> IF k \notin mine THEN started[k] ELSE IF k \in on THEN 1 ELSE 0]
    /\ registry' = [k \in Tasks |-> IF k \notin mine THEN registry[k]
                                    ELSE IF k \in on THEN "live" ELSE "none"]
    /\ Forget(mine)
    /\ firing' = [f \in Firings |-> IF f[1] = r THEN "none" ELSE firing[f]]
    /\ request' = [c \in Clients |-> IF ~In(c, "idle") /\ request[c].r = r
                                      THEN NoRequest ELSE request[c]]
    /\ UNCHANGED <<tableVars, window>>

-----------------------------------------------------------------------------
FiringStep(r, s, w) ==
    Claim(r, s, w) \/ Post(r, s, w) \/ Record(r, s, w) \/ FiringFails(r, s, w)

RequestStep(c) ==
    \/ CheckEnabled(c) \/ CountQuota(c) \/ Write(c) \/ ReadRow(c) \/ RegisterRow(c)
    \/ DeleteRow(c) \/ ListRows(c) \/ EraseRow(c) \/ EraseTask(c)
    \/ PostNow(c) \/ RecordNow(c) \/ RequestFails(c)

NewRequest(c, r, s) ==
    \/ PostSchedule(c, r, s) \/ PutSchedule(c, r, s) \/ DeleteSchedule(c, r, s)
    \/ EraseTeam(c, r, s) \/ RunNow(c, r, s)

Next ==
    \/ NextMinute
    \/ \E r \in Replicas, s \in Schedules :
          \/ Tick(r, s)
          \/ \E c \in Clients : NewRequest(c, r, s)
          \/ \E w \in Windows : FiringStep(r, s, w)
    \/ \E c \in Clients : RequestStep(c)
    \/ \E r \in Replicas : Restart(r)

Spec == Init /\ [][Next]_vars

-----------------------------------------------------------------------------
\* The replicas never post the same window of a schedule at the same time,
\* although none of them waits for the others (scheduler.ts 34-53).
OneClaim ==
    \A s \in Schedules, w \in Windows :
        Cardinality({r \in Replicas : firing[<<r, s, w>>] \in {"posting", "recording"}}) <= 1

\* A cron task that still fires is the one activeTasks holds: however requests,
\* reloads and restarts interleave, no task is left that nothing can stop
\* (scheduler.ts 94-126).
NoLeakedTask ==
    \A k \in Tasks : started[k] = IF registry[k] = "live" THEN 1 ELSE 0
=============================================================================
