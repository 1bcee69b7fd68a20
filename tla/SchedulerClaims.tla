-------------------------- MODULE SchedulerClaims --------------------------
(* What the documentation says of the scheduler and the code does not do.   *)
EXTENDS MCScheduler

\* "Leader election: only one replica may fire each schedule per cron tick"
\* (scheduler.ts 23); "scaling to N replicas fires every schedule exactly once
\* instead of N times" (docs/ARCHITECTURE.md 224).  The lock is gone when the
\* transaction of the first replica ends, and nothing else remembers the window.
FiresOnce == \A s \in Schedules, w \in Windows : posts[s][w] <= 1
=============================================================================
