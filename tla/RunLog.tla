------------------------------- MODULE RunLog -------------------------------
(***************************************************************************)
(* The execution log of a k6 run: the lines of stdout and of stderr, put   *)
(* together from chunks, are kept for the result and sent to viewers in    *)
(* batches (runK6Test of runner.ts, createBatcher of the shared package,   *)
(* POST /results/:testId/log-line of results.ts).                          *)
(***************************************************************************)
EXTENDS Naturals, Sequences, FiniteSets

CONSTANTS
    Streams,  \* stdout and stderr
    MaxKept,  \* MAX_LOG_LINES, and MAX_LOG_BYTES
    MaxBatch, \* maxBatchSize
    MaxLines  \* bound on the lines k6 prints

RunLogAssumption == {MaxKept, MaxLines} \subseteq Nat /\ MaxBatch \in Nat \ {0}

VARIABLES
    running, \* k6, until its streams are closed
    half,    \* the streams with the beginning of a line in their buffer
    printed, \* whole lines k6 printed that are not blank
    kept,    \* logLines, the number of each line
    pending, \* the batch of the batcher
    timer,   \* flush is scheduled
    sent,    \* batches under way
    viewed   \* what viewers were sent, and in which order

gvars == <<running, half, printed, kept, pending, timer, sent, viewed>>

RunLogTypeOK ==
    /\ running \in BOOLEAN /\ half \subseteq Streams /\ printed \in 0..MaxLines
    /\ Len(kept) <= MaxKept /\ Len(pending) < MaxBatch /\ timer \in BOOLEAN
    /\ \A b \in sent : Len(b) \in 1..MaxBatch

RunLogInit ==
    /\ running = TRUE /\ half = {} /\ printed = 0
    /\ kept = <<>> /\ pending = <<>> /\ timer = FALSE /\ sent = {} /\ viewed = <<>>

-----------------------------------------------------------------------------
\* flush of createBatcher.
Flushed(batch) == sent' = (IF batch = <<>> THEN sent ELSE sent \cup {batch}) /\ pending' = <<>> /\ timer' = FALSE

\* Mutant: a batch of maxBatchSize waits for the timer too.
PushedLate(line) ==
    LET batch == Append(pending, line) IN
    IF Len(batch) > MaxBatch THEN Flushed(batch) ELSE pending' = batch /\ timer' = TRUE /\ UNCHANGED sent

\* push: a full batch goes at once, another one when the timer fires.
Pushed(line) ==
    LET batch == Append(pending, line) IN
    IF Len(batch) = MaxBatch THEN Flushed(batch) ELSE pending' = batch /\ timer' = TRUE /\ UNCHANGED sent

\* A chunk, the beginning of a line.
Chunk(s) ==
    /\ running /\ s \notin half /\ printed < MaxLines
    /\ half' = half \cup {s}
    /\ UNCHANGED <<running, printed, kept, pending, timer, sent, viewed>>

\* The rest of the line: it is logged, unless it is blank or there are too many.
Line(s) ==
    /\ running /\ s \in half /\ printed < MaxLines
    /\ half' = half \ {s}
    /\ \/ UNCHANGED <<printed, kept, pending, timer, sent>>
       \/ /\ printed' = printed + 1
          /\ IF Len(kept) < MaxKept THEN kept' = Append(kept, printed') /\ Pushed(printed')
                                    ELSE UNCHANGED <<kept, pending, timer, sent>>
    /\ UNCHANGED <<running, viewed>>

TimerFires ==
    /\ timer /\ Flushed(pending)
    /\ UNCHANGED <<running, half, printed, kept, viewed>>

\* k6 is done or could not be started: the rest goes, with what is in no line.
Ends ==
    /\ running /\ running' = FALSE
    /\ Flushed(pending)
    /\ UNCHANGED <<half, printed, kept, viewed>>

\* A batch is sent on to the viewers, or lost; no request waits for another.
BatchArrives(b) ==
    /\ b \in sent /\ sent' = sent \ {b}
    /\ \/ viewed' = viewed \o b
       \/ UNCHANGED viewed
    /\ UNCHANGED <<running, half, printed, kept, pending, timer>>

RunLogNext ==
    \/ \E s \in Streams : Chunk(s) \/ Line(s)
    \/ TimerFires \/ Ends
    \/ \E b \in sent : BatchArrives(b)

RunLogSpec == RunLogInit /\ [][RunLogNext]_gvars

-----------------------------------------------------------------------------
\* A line is shown at most once, it is one of the result's log, nothing is left in
\* the batcher of a test that ended, and while it runs the timer is set for what is.
LogSentOnce ==
    /\ \A i, j \in DOMAIN viewed : viewed[i] = viewed[j] => i = j
    /\ \A i \in DOMAIN viewed : \E j \in DOMAIN kept : kept[j] = viewed[i]
    /\ pending # <<>> => running /\ timer
=============================================================================
