---------------------------- MODULE LiveMetrics ----------------------------
(***************************************************************************)
(* What worker-backend reads while k6 runs: runK6Test of runner.ts.        *)
(*                                                                         *)
(* k6 writes measurements, one a line, to live.json.  Every interval, and  *)
(* when k6 ends, a call of readAndPost reads what was added since the last *)
(* one and sends a window of it to results-service.  A call waits twice    *)
(* for the file, so calls overlap when the file is slow.                   *)
(*                                                                         *)
(* A line is written in two halves, 2k-1 and 2k for line k, the second one *)
(* with the end of the line; the file is the number of halves written.     *)
(***************************************************************************)
EXTENDS Naturals, Sequences, FiniteSetsExt

CONSTANTS
    Readers,  \* calls of readAndPost under way
    Closer,   \* the call made when k6 ends
    MaxLines  \* bound on the lines k6 writes

LiveAssumption == Closer \in Readers /\ MaxLines \in Nat

VARIABLES
    phase,    \* "running", "closing", "closed", "failed"
    written,  \* halves in the file
    measures, \* the lines that are a duration or a number of VUs
    offset,   \* fileOffset
    partial,  \* partialLine
    read,     \* reader -> [pc, size, from]
    windows,  \* line -> the windows it was counted in
    result,   \* the lines the result is made from
    overlap   \* two calls of readAndPost overlapped

wvars == <<phase, written, measures, offset, partial, read, windows, result, overlap>>

Lines == 1..MaxLines
Idle == [pc |-> "idle", size |-> 0, from |-> 0]

LiveTypeOK ==
    /\ phase \in {"running", "closing", "closed", "failed"}
    /\ written \in 0..2 * MaxLines /\ measures \subseteq Lines /\ offset \in 0..2 * MaxLines
    /\ \A i \in DOMAIN partial : partial[i] \in 1..2 * MaxLines
    /\ \A r \in Readers : read[r].pc \in {"idle", "sized", "reads"}
    /\ windows \in [Lines -> Nat] /\ result \subseteq Lines /\ overlap \in BOOLEAN

LiveInit ==
    /\ phase = "running" /\ written = 0 /\ measures = {} /\ offset = 0 /\ partial = <<>>
    /\ read = [r \in Readers |-> Idle]
    /\ windows = [k \in Lines |-> 0] /\ result = {} /\ overlap = FALSE

-----------------------------------------------------------------------------
\* k6 writes, and is done or killed, in the middle of a line maybe.
Writes ==
    /\ phase = "running" /\ written < 2 * MaxLines
    /\ written' = written + 1
    /\ \/ UNCHANGED measures
       \/ written % 2 = 0 /\ measures' = measures \cup {written \div 2 + 1}
    /\ UNCHANGED <<phase, offset, partial, read, windows, result, overlap>>

\* From then on the interval starts no more calls.
Closes ==
    /\ phase = "running" /\ phase' = "closing"
    /\ UNCHANGED <<written, measures, offset, partial, read, windows, result, overlap>>

\* k6 could not be started.
SpawnFails ==
    /\ phase = "running" /\ written = 0 /\ phase' = "failed"
    /\ UNCHANGED <<written, measures, offset, partial, read, windows, result, overlap>>

-----------------------------------------------------------------------------
\* readAndPost: the size of the file, once there is one, ...
Stat(r) ==
    /\ read[r].pc = "idle" /\ written > 0
    /\ phase = (IF r = Closer THEN "closing" ELSE "running")
    /\ read' = [read EXCEPT ![r] = [pc |-> "sized", size |-> written, from |-> 0]]
    /\ overlap' = (overlap \/ \E q \in Readers \ {r} : read[q].pc # "idle")
    /\ UNCHANGED <<phase, written, measures, offset, partial, windows, result>>

\* What is left is the last read that counts; then the whole file is parsed.
After(r) == read' = [read EXCEPT ![r] = Idle] /\ phase' = IF r = Closer THEN "closed" ELSE phase

\* parseK6JsonOutput skips what is not a whole line.
Parsed(r) == result' = IF r = Closer THEN {k \in Lines : 2 * k <= written} ELSE result

\* ... compared with the offset, which another call may have moved, ...
Begin(r) ==
    /\ read[r].pc = "sized"
    /\ IF read[r].size <= offset
       THEN After(r) /\ Parsed(r)
       ELSE /\ read' = [read EXCEPT ![r].pc = "reads", ![r].from = offset]
            /\ UNCHANGED <<phase, result>>
    /\ UNCHANGED <<written, measures, offset, partial, windows, overlap>>

\* The parts of a text that end in an end of line; only whole lines parse.
Cuts(text) == {i \in DOMAIN text : text[i] % 2 = 0}
LinesIn(text) ==
    {i \in Cuts(text) : i > 1 /\ text[i - 1] = text[i] - 1 /\ (i = 2 \/ i - 2 \in Cuts(text))}
Counts(text, k) == Cardinality({i \in LinesIn(text) : text[i] = 2 * k})

\* Mutant: an unfinished line is not kept for the next call.
RestDropped(text) == <<>>

Rest(text) == SubSeq(text, Max(Cuts(text) \cup {0}) + 1, Len(text))

\* aggregateWindow: nothing is sent of a window without a duration or a number of VUs.
IsWindow(text) == \E i \in LinesIn(text) : text[i] \div 2 \in measures

\* ... and read, into a window and the part of a line that is left.
Finish(r) ==
    LET bytes == [i \in 1..(read[r].size - read[r].from) |-> read[r].from + i]
        text  == partial \o bytes
    IN /\ read[r].pc = "reads"
       /\ offset' = read[r].size
       /\ partial' = Rest(text)
       /\ windows' = [k \in Lines |-> windows[k] + IF IsWindow(text) THEN Counts(text, k) ELSE 0]
       /\ After(r) /\ Parsed(r)
       /\ UNCHANGED <<written, measures, overlap>>

\* The file cannot be read: the next call reads it from the same place.
ReadFails(r) ==
    /\ read[r].pc # "idle" \/ (r = Closer /\ phase = "closing")
    /\ After(r) /\ Parsed(r)
    /\ UNCHANGED <<written, measures, offset, partial, windows, overlap>>

LiveNext ==
    \/ Writes \/ Closes \/ SpawnFails
    \/ \E r \in Readers : Stat(r) \/ Begin(r) \/ Finish(r) \/ ReadFails(r)

LiveSpec == LiveInit /\ [][LiveNext]_wvars

-----------------------------------------------------------------------------
\* Unless calls of readAndPost overlapped, every measurement up to the offset is in
\* exactly one of the windows a viewer is sent, and everything else in one at most;
\* and the result has every line k6 finished, whatever was read before.
LinesCounted ==
    /\ ~overlap => \A k \in Lines : IF k \in measures /\ 2 * k <= offset
                                    THEN windows[k] = 1 ELSE windows[k] <= 1
    /\ phase = "closed" => result = {k \in Lines : 2 * k <= written}
=============================================================================
