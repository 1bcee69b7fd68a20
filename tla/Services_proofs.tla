---------------------------- MODULE Services_proofs ----------------------------
(***************************************************************************)
(* Proofs about Recorder, Chat, AiCalls and Migrations, for all values of  *)
(* their constants.  A behaviour is one of one component: 'part' says      *)
(* which.                                                                  *)
(* For each component, a step of MCServices is a step of that component    *)
(* in its part, or leaves its variables alone, and its invariant is proved *)
(* of the behaviours of its part.                                          *)
(***************************************************************************)
EXTENDS MCServices, FiniteSetTheorems, WellFoundedInduction, TLAPS

\* A step of MCServices is one of the component of the behaviour, or leaves that
\* component alone; the component never changes.
LEMMA Frame ==
    ASSUME [Next]_allvars
    PROVE  /\ part' = part
           /\ part = "recorder" => Recorder \/ UNCHANGED rcvars
           /\ part = "schema"   => Schema \/ UNCHANGED mgvars
           /\ part = "calls"    => Calls \/ UNCHANGED aivars
           /\ part = "chat"     => Chat \/ UNCHANGED chvars
           /\ part = "plan"     => Plan \/ UNCHANGED lpvars
<1>1. CASE Recorder  BY <1>1 DEF Recorder, Rec
<1>2. CASE Scripts   BY <1>2 DEF Scripts, Scr
<1>3. CASE Edits     BY <1>3 DEF Edits, Edi
<1>4. CASE Schema    BY <1>4 DEF Schema, Sch
<1>5. CASE Capture   BY <1>5 DEF Capture, Cap
<1>6. CASE Calls     BY <1>6 DEF Calls, Cal
<1>7. CASE Chat      BY <1>7 DEF Chat, Cha
<1>8. CASE Plan      BY <1>8 DEF Plan, Pla
<1>9. CASE Live      BY <1>9 DEF Live, Liv
<1>10. CASE ExecutionLog BY <1>10 DEF ExecutionLog, Log
<1>11. CASE View     BY <1>11 DEF View, Vie
<1>12. CASE Asking   BY <1>12 DEF Asking, Rou
<1>13. CASE Judging  BY <1>13 DEF Judging, Ver
<1>14. CASE UNCHANGED allvars BY <1>14 DEF allvars
<1> QED BY <1>1, <1>2, <1>3, <1>4, <1>5, <1>6, <1>7, <1>8, <1>9, <1>10, <1>11, <1>12, <1>13, <1>14 DEF Next

-----------------------------------------------------------------------------
(* Recorder. *)

\* What is true of a recording in every state: a listed session has its browser
\* and was not finished before, a session that is being finished is listed no
\* more and is finished for the first time, and one that was never started, or
\* was not since the last restart, was not finished unless it was given up.
RecordingSound(i) ==
    /\ session[i].listed => session[i].browser /\ session[i].status # "none" /\ finishing[i] = "no"
                            /\ finished[i] = 0
    /\ finishing[i] # "no" => session[i].status # "none" /\ finished[i] = 0
    /\ session[i].status = "none" /\ i \notin gone => finished[i] = 0
    /\ finished[i] <= 1
RecordingKept(i) ==
    session[i].status # "none" =>
        \/ i \in gone \/ i \in completed \/ finishing[i] # "no"
        \/ session[i].listed /\ session[i].browser
RecorderInv == RC!RecorderTypeOK /\ \A i \in Recordings : RecordingSound(i) /\ RecordingKept(i)

\* What a session can be, and what marking it, closing it and capturing leave of it.
SessionOf == [status : {"none", "active", "stopping", "completed"}, listed : BOOLEAN, browser : BOOLEAN, steps : BOOLEAN]
LEMMA SessionTypes ==
    ASSUME RC!RecorderTypeOK, NEW i \in Recordings, NEW new \in SessionOf, session' = [session EXCEPT ![i] = new]
    PROVE  session' \in [Recordings -> SessionOf]
BY DEF RC!RecorderTypeOK, SessionOf
LEMMA SessionChanges ==
    ASSUME NEW s \in SessionOf, NEW status \in {"none", "active", "stopping", "completed"},
           NEW listed \in BOOLEAN, NEW browser \in BOOLEAN
    PROVE  /\ [s EXCEPT !.status = status] \in SessionOf
           /\ [s EXCEPT !.status = status, !.listed = listed] \in SessionOf
           /\ [s EXCEPT !.status = status, !.browser = browser] \in SessionOf
           /\ [s EXCEPT !.status = status, !.listed = listed, !.browser = browser] \in SessionOf
           /\ [s EXCEPT !.steps = TRUE] \in SessionOf
BY DEF SessionOf

\* A request is answered, or its page left.
LEMMA RequestChanges ==
    ASSUME NEW q \in RC!Requests
    PROVE  /\ \A a \in {"working", "active", "steps", "empty", "404", "409", "error"} : [q EXCEPT !.answer = a] \in RC!Requests
           /\ [q EXCEPT !.from = "left"] \in RC!Requests
BY DEF RC!Requests

\* The types of the recorder's and the page's variables, step by step.
LEMMA RecorderTypes ==
    ASSUME RC!RecorderAssumption, RC!RecorderTypeOK, Recorder
    PROVE  RC!RecorderTypeOK'
<1> USE DEF RC!RecorderTypeOK, RC!server, RC!page, RC!Recs, RC!Request, RC!NoRec, RC!Answer, RC!Asks
<1>0. \A i \in Recordings : session[i] \in SessionOf  BY DEF SessionOf
<1>c. \A q \in recAsked :
         /\ \A a \in {"working", "active", "steps", "empty", "404", "409", "error"} : [q EXCEPT !.answer = a] \in RC!Requests
         /\ [q EXCEPT !.from = "left"] \in RC!Requests
  <2> QED BY RequestChanges
<1>d. \A q \in recAsked : q.id \in Recordings  BY DEF RC!Requests
<1>a. ASSUME NEW q \in recAsked, NEW a \in {"working", "active", "steps", "empty", "404", "409", "error"}, RC!Answer(q, a)
      PROVE  recAsked' \subseteq RC!Requests
  <2>1. [q EXCEPT !.answer = a] \in RC!Requests  BY <1>c
  <2> QED BY <1>a, <2>1
<1>b. ASSUME NEW i \in Recordings, NEW kind \in {"start", "poll", "visible", "resume", "stop"}, NEW from \in {"page", "viewer"},
             RC!Asks(RC!Request(from, kind, i))
      PROVE  recAsked' \subseteq RC!Requests
  <2>1. RC!Request(from, kind, i) \in RC!Requests  BY DEF RC!Requests
  <2> HIDE DEF RC!Request
  <2> QED BY <1>b, <2>1
<1>1. ASSUME NEW q \in recAsked, RC!Start(q) PROVE RC!RecorderTypeOK'
  <2>1. CASE /\ session' \in {session, [session EXCEPT ![q.id].browser = TRUE]}
             /\ RC!Answer(q, "error") /\ UNCHANGED starting
    <3>1. [session[q.id] EXCEPT !.browser = TRUE] \in SessionOf /\ q.id \in Recordings
      <4>1. q.id \in Recordings /\ session[q.id] \in SessionOf  BY <1>0, <1>d
      <4>2. \A x \in SessionOf : [x EXCEPT !.browser = TRUE] \in SessionOf  BY DEF SessionOf
      <4> QED BY <4>1, <4>2
    <3>2. session' \in [Recordings -> SessionOf]
      BY <1>0, <2>1, <3>1, SessionTypes DEF SessionOf
    <3>3. recAsked' \subseteq RC!Requests  BY <1>a, <2>1
    <3>4. UNCHANGED <<starting, finishing, deleting, completed, finished, gone, RC!page, viewer>>
      BY <1>1, <2>1 DEF RC!Start
    <3> HIDE DEF RC!Answer
    <3> QED BY <3>2, <3>3, <3>4 DEF SessionOf
  <2>2. ASSUME NEW to \in {"navigating", "refusing"},
               starting' = [starting EXCEPT ![q.id] = to],
               session' = [session EXCEPT ![q.id] = [RC!Blank EXCEPT !.status = IF to = "refusing" THEN "stopping" ELSE "active",
                                                                    !.listed = TRUE, !.browser = TRUE]],
               RC!Answer(q, "working")
        PROVE  RC!RecorderTypeOK'
    <3> DEFINE new == [RC!Blank EXCEPT !.status = IF to = "refusing" THEN "stopping" ELSE "active",
                                       !.listed = TRUE, !.browser = TRUE]
    <3>1. new \in SessionOf  BY DEF SessionOf, RC!Blank
    <3>2. session' = [session EXCEPT ![q.id] = new] /\ q.id \in Recordings  BY <1>d, <2>2
    <3> HIDE DEF new
    <3>3. session' \in [Recordings -> SessionOf]  BY <3>1, <3>2, SessionTypes
    <3>4. starting' \in [Recordings -> {"no", "navigating", "refusing"}]  BY <2>2
    <3>5. [q EXCEPT !.answer = "working"] \in RC!Requests  BY <1>c
    <3>6. recAsked' \subseteq RC!Requests  BY <2>2, <3>5
    <3> QED BY <1>1, <3>3, <3>4, <3>6 DEF RC!Start, SessionOf
  <2> QED BY <1>1, <2>1, <2>2 DEF RC!Start
<1>2. ASSUME NEW q \in recAsked, RC!Started(q) PROVE RC!RecorderTypeOK'
  <2>1. recAsked' \subseteq RC!Requests  BY <1>2, <1>a DEF RC!Started
  <2>2. starting' \in [Recordings -> {"no", "navigating", "refusing"}]  BY <1>2, <1>d DEF RC!Started
  <2> HIDE DEF RC!Answer
  <2> QED BY <1>2, <2>1, <2>2 DEF RC!Started
<1>3. ASSUME NEW q \in recAsked, RC!RefuseUrl(q) PROVE RC!RecorderTypeOK'
  <2> DEFINE new == [session[q.id] EXCEPT !.status = "completed", !.listed = FALSE, !.browser = FALSE]
  <2>1. new \in SessionOf /\ q.id \in Recordings  BY <1>0, <1>d, SessionChanges
  <2>2. session' = [session EXCEPT ![q.id] = new]  BY Zenon, <1>3 DEF RC!RefuseUrl
  <2> HIDE DEF new
  <2>3. session' \in [Recordings -> SessionOf]  BY <2>1, <2>2, SessionTypes
  <2>4. recAsked' \subseteq RC!Requests  BY <1>3, <1>a DEF RC!RefuseUrl
  <2> HIDE DEF RC!Answer
  <2> QED BY <1>3, <1>d, <2>3, <2>4 DEF RC!RefuseUrl, SessionOf
<1>4. ASSUME NEW q \in recAsked, RC!ServeGet(q) PROVE RC!RecorderTypeOK'
  <2>1. RC!Status(q.id) \in {"active", "steps", "empty", "404"}  BY DEF RC!Status, RC!Settled
  <2>2. recAsked' \subseteq RC!Requests  BY <1>4, <1>a, <2>1 DEF RC!ServeGet
  <2> HIDE DEF RC!Answer
  <2> QED BY <1>4, <2>2 DEF RC!ServeGet
<1>5. ASSUME NEW q \in recAsked, RC!ServeStop(q) PROVE RC!RecorderTypeOK'
  <2>1. CASE UNCHANGED <<session, finishing>>  BY <1>5, <1>a, <2>1 DEF RC!ServeStop
  <2>2. CASE session' = [session EXCEPT ![q.id] = RC!Take(q.id)] /\ finishing' = [finishing EXCEPT ![q.id] = "closing"]
             /\ RC!Answer(q, "working")
    <3>1. RC!Take(q.id) \in SessionOf /\ q.id \in Recordings  BY <1>0, <1>d, SessionChanges DEF RC!Take
    <3>2. session' \in [Recordings -> SessionOf]  BY Zenon, <2>2, <3>1, SessionTypes
    <3>3. finishing' \in [Recordings -> {"no", "closing", "correlating"}]  BY <2>2
    <3>4. [q EXCEPT !.answer = "working"] \in RC!Requests  BY <1>c
    <3>5. recAsked' \subseteq RC!Requests  BY <2>2, <3>4
    <3> QED BY <1>5, <3>2, <3>3, <3>5 DEF RC!ServeStop, SessionOf
  <2> QED BY <1>5, <2>1, <2>2 DEF RC!ServeStop
<1>6. ASSUME NEW q \in recAsked, RC!Launched(q) PROVE RC!RecorderTypeOK'
  <2>1. recAsked' \subseteq recAsked /\ q.id \in Recordings  BY <1>d, <1>6 DEF RC!Launched, RC!Answered
  <2>2. rec' \in RC!Recs /\ saved' \in RC!Recs  BY <1>6, <2>1 DEF RC!Launched, RC!Shows
  <2>3. viewer' \in [Recordings -> {"closed", "open", "stopping", "done"}]  BY <1>6, <2>1 DEF RC!Launched
  <2>4. mounted' \in BOOLEAN /\ callback' \in {"none", "page", "left"} /\ imported' \in Recordings \cup {NoRecording}
    BY <1>6 DEF RC!Launched
  <2>5. UNCHANGED RC!server  BY <1>6 DEF RC!Launched
  <2> QED BY <2>1, <2>2, <2>3, <2>4, <2>5
<1>7. ASSUME NEW q \in recAsked, RC!Ignored(q) PROVE RC!RecorderTypeOK'  BY <1>7 DEF RC!Ignored, RC!Answered
<1>8. ASSUME NEW q \in recAsked, RC!PollAnswered(q) PROVE RC!RecorderTypeOK'
  BY <1>8, <1>d DEF RC!PollAnswered, RC!Answered, RC!Shows, RC!Applies, RC!Ended
<1>9. ASSUME NEW q \in recAsked, RC!StopAnswered(q) PROVE RC!RecorderTypeOK'
  BY <1>9, <1>d DEF RC!StopAnswered, RC!Answered, RC!Shows, RC!Applies, RC!Ended
<1>10. ASSUME NEW q \in recAsked, RC!ViewerAnswered(q) PROVE RC!RecorderTypeOK'
  BY <1>10, <1>d DEF RC!ViewerAnswered, RC!Answered, RC!Shows, RC!Applies
<1>11. ASSUME NEW i \in Recordings, RC!Capture(i) PROVE RC!RecorderTypeOK'
  <2> DEFINE new == [session[i] EXCEPT !.steps = TRUE]
  <2>1. new \in SessionOf /\ i \in Recordings  BY <1>0, SessionChanges
  <2>2. session' = [session EXCEPT ![i] = new]  BY Zenon, <1>11 DEF RC!Capture
  <2> HIDE DEF new
  <2>3. session' \in [Recordings -> SessionOf]  BY <2>1, <2>2, SessionTypes
  <2> QED BY <1>11, <2>3 DEF RC!Capture, SessionOf
<1>12. ASSUME NEW i \in Recordings, RC!Sweep(i) PROVE RC!RecorderTypeOK'
  <2> DEFINE new == RC!Take(i)
  <2>1. new \in SessionOf /\ i \in Recordings  BY <1>0, SessionChanges DEF RC!Take
  <2>2. session' = [session EXCEPT ![i] = new]  BY Zenon, <1>12 DEF RC!Sweep, RC!Take
  <2> HIDE DEF new
  <2>3. session' \in [Recordings -> SessionOf]  BY <2>1, <2>2, SessionTypes
  <2> QED BY <1>12, <2>3 DEF RC!Sweep, SessionOf
<1>13. ASSUME NEW i \in Recordings, RC!Closed(i) PROVE RC!RecorderTypeOK'
  <2> DEFINE new == [session[i] EXCEPT !.status = "completed", !.browser = FALSE]
  <2>1. new \in SessionOf /\ i \in Recordings  BY <1>0, SessionChanges
  <2>2. session' = [session EXCEPT ![i] = new]  BY Zenon, <1>13 DEF RC!Closed
  <2> HIDE DEF new
  <2>3. session' \in [Recordings -> SessionOf]  BY <2>1, <2>2, SessionTypes
  <2> QED BY <1>13, <2>3 DEF RC!Closed, SessionOf
<1>14. ASSUME NEW i \in Recordings, RC!Finish(i) PROVE RC!RecorderTypeOK'  
  <2>1. \A q \in recAsked : [q EXCEPT !.answer = RC!Settled(i)] \in RC!Requests
    <3>1. RC!Settled(i) \in {"steps", "empty"}  BY DEF RC!Settled
    <3> QED BY <1>c, <3>1
  <2>2. recAsked' \subseteq RC!Requests  BY <1>14, <2>1 DEF RC!Finish
  <2>3. finished' \in [Recordings -> Nat] /\ finishing' \in [Recordings -> {"no", "closing", "correlating"}]
    BY <1>14 DEF RC!Finish
  <2> QED BY <1>14, <2>2, <2>3 DEF RC!Finish, RC!Kept
<1>15. ASSUME NEW i \in Recordings, RC!Expire(i) PROVE RC!RecorderTypeOK'  BY <1>15 DEF RC!Expire
<1>16. ASSUME NEW i \in Recordings, RC!Delete(i) PROVE RC!RecorderTypeOK'
  <2> DEFINE new == [session[i] EXCEPT !.status = "stopping"]
  <2>1. new \in SessionOf /\ i \in Recordings  BY <1>0, SessionChanges
  <2>2. session' = [session EXCEPT ![i] = new]  BY Zenon, <1>16 DEF RC!Delete
  <2> HIDE DEF new
  <2>3. session' \in [Recordings -> SessionOf]  BY <2>1, <2>2, SessionTypes
  <2> QED BY <1>16, <2>3 DEF RC!Delete, SessionOf
<1>17. ASSUME NEW i \in Recordings, RC!Deleted(i) PROVE RC!RecorderTypeOK'
  <2> DEFINE new == [session[i] EXCEPT !.status = "completed", !.listed = FALSE, !.browser = FALSE]
  <2>1. new \in SessionOf /\ i \in Recordings  BY <1>0, SessionChanges
  <2>2. session' = [session EXCEPT ![i] = new]  BY Zenon, <1>17 DEF RC!Deleted
  <2> HIDE DEF new
  <2>3. session' \in [Recordings -> SessionOf]  BY <2>1, <2>2, SessionTypes
  <2> QED BY <1>17, <2>3 DEF RC!Deleted, SessionOf
<1>18. ASSUME NEW i \in Recordings, RC!StartRecording(i) PROVE RC!RecorderTypeOK'  BY <1>18, <1>b DEF RC!StartRecording
<1>19. ASSUME NEW i \in Recordings, RC!ViewerPoll(i) PROVE RC!RecorderTypeOK'  BY <1>19, <1>b DEF RC!ViewerPoll
<1>20. ASSUME NEW i \in Recordings, RC!ViewerStop(i) PROVE RC!RecorderTypeOK'  BY <1>20, <1>b DEF RC!ViewerStop
<1>21. CASE RC!Restart  
  <2>1. session' \in [Recordings -> SessionOf]  BY <1>21 DEF RC!Restart, RC!Blank, SessionOf
  <2>2. \A q \in recAsked : [q EXCEPT !.answer = "error"] \in RC!Requests  BY <1>c
  <2>3. recAsked' \subseteq RC!Requests  BY <1>21, <2>2 DEF RC!Restart
  <2> QED BY <1>21, <2>1, <2>3 DEF RC!Restart, SessionOf
<1>e. rec.status = "active" => rec.id \in Recordings
  BY DEF RC!RecorderAssumption
<1>f. saved # RC!NoRec => saved.id \in Recordings
  OBVIOUS
<1>22. CASE RC!StopRecording
  <2>1. recAsked' \subseteq RC!Requests  BY <1>22, <1>b, <1>e DEF RC!StopRecording
  <2> HIDE DEF RC!Asks
  <2> QED BY <1>22, <1>e, <2>1 DEF RC!StopRecording, RC!Shows
<1>23. CASE RC!Poll
  <2>1. recAsked' \subseteq RC!Requests  BY <1>23, <1>b, <1>e DEF RC!Poll
  <2> HIDE DEF RC!Asks
  <2> QED BY <1>23, <2>1 DEF RC!Poll
<1>24. CASE RC!Unmount  
  <2>1. \A q \in recAsked : [q EXCEPT !.from = "left"] \in RC!Requests  BY <1>c
  <2>2. recAsked' \subseteq RC!Requests  BY <1>24, <2>1 DEF RC!Unmount
  <2> QED BY <1>24, <2>2 DEF RC!Unmount
<1>25. CASE RC!Mount
  <2>1. recAsked' \subseteq RC!Requests  BY <1>25, <1>b, <1>f DEF RC!Mount
  <2> HIDE DEF RC!Asks
  <2> QED BY <1>25, <2>1 DEF RC!Mount
<1> QED BY <1>1, <1>2, <1>3, <1>4, <1>5, <1>6, <1>7, <1>8, <1>9, <1>10, <1>11, <1>12, <1>13, <1>14, <1>15, <1>16,
           <1>17, <1>18, <1>19, <1>20, <1>21, <1>22, <1>23, <1>24, <1>25 DEF Recorder, Rec

\* What one step may do to one recording, as far as the invariant goes: nothing,
\* or what the steps of its life do.
RecordingMoves(i) ==
    \/ /\ session'[i].status = session[i].status /\ session'[i].listed = session[i].listed
       /\ session'[i].browser = session[i].browser
       /\ UNCHANGED <<finishing[i], finished[i]>> /\ (i \in gone => i \in gone') /\ (i \in completed => i \in completed' \/ i \in gone')
    \/ /\ session[i] = RC!Blank /\ i \notin gone
       /\ session'[i].status = "none" /\ ~session'[i].listed
       /\ UNCHANGED <<finishing[i], finished[i], gone, completed>>
    \/ /\ session[i] = RC!Blank /\ i \notin gone
       /\ session'[i].listed /\ session'[i].browser /\ session'[i].status # "none"
       /\ UNCHANGED <<finishing[i], finished[i]>>
    \/ /\ session[i].listed
       /\ ~session'[i].listed /\ session'[i].status # "none" /\ finishing'[i] = "closing"
       /\ finished'[i] = finished[i]
    \/ /\ finishing[i] = "closing" /\ finishing'[i] = "correlating" /\ finished'[i] = finished[i]
       /\ session'[i].status # "none" /\ session'[i].listed = session[i].listed
    \/ /\ finishing[i] = "correlating" /\ finishing'[i] = "no" /\ finished'[i] = finished[i] + 1
       /\ session'[i] = session[i] /\ i \in completed'
    \/ /\ session[i].listed /\ session'[i].listed /\ session'[i].status # "none"
       /\ session'[i].browser = session[i].browser /\ UNCHANGED <<finishing[i], finished[i]>>
    \/ /\ i \in gone' /\ session'[i].status # "none" /\ ~session'[i].listed
       /\ UNCHANGED <<finishing[i], finished[i]>>
    \/ /\ session'[i] = RC!Blank /\ finishing'[i] = "no" /\ finished'[i] = finished[i]
       /\ \/ i \in gone'
          \/ session[i].status = "none" /\ (i \in gone => i \in gone')

LEMMA RecordingStaysSound ==
    ASSUME RC!RecorderTypeOK, RC!RecorderTypeOK', RecorderInv, NEW i \in Recordings, RecordingMoves(i)
    PROVE  RecordingSound(i)' /\ RecordingKept(i)'
<1>1. RecordingSound(i) /\ finished[i] \in Nat /\ finished'[i] \in Nat
  BY DEF RecorderInv, RC!RecorderTypeOK
<1>2. RecordingKept(i)
  BY DEF RecorderInv
<1> QED BY <1>1, <1>2 DEF RecordingMoves, RecordingSound, RecordingKept, RC!Blank

\* Every step does that to every recording.
LEMMA RecorderMoves ==
    ASSUME RC!RecorderTypeOK, RecorderInv, Recorder, NEW i \in Recordings
    PROVE  RecordingMoves(i)
<1>0. /\ session \in [Recordings -> SessionOf] /\ finishing \in [Recordings -> {"no", "closing", "correlating"}]
      /\ finished \in [Recordings -> Nat] /\ \A q \in recAsked : q.id \in Recordings
  BY DEF RC!RecorderTypeOK, SessionOf, RC!Requests
<1>a. RecordingSound(i)
  BY DEF RecorderInv
<1>b. UNCHANGED RC!server => RecordingMoves(i)
  BY DEF RC!server, RecordingMoves
<1>c. session'[i] = session[i] /\ UNCHANGED <<finishing, completed, finished, gone>> => RecordingMoves(i)
  BY DEF RecordingMoves
<1>1. ASSUME NEW q \in recAsked, RC!Start(q) PROVE RecordingMoves(i)
  <2>1. CASE session' \in {session, [session EXCEPT ![q.id].browser = TRUE]}
    <3>1. CASE session' = session  BY <1>1, <1>c, <3>1 DEF RC!Start
    <3>2. CASE session' = [session EXCEPT ![q.id].browser = TRUE] /\ i = q.id
      <4>1. session'[i].status = "none" /\ ~session'[i].listed
        BY <1>0, <1>1, <3>2 DEF RC!Start, RC!Blank, SessionOf
      <4> QED BY <1>1, <3>2, <4>1 DEF RC!Start, RecordingMoves
    <3>3. CASE session' = [session EXCEPT ![q.id].browser = TRUE] /\ i # q.id
      <4>1. session'[i] = session[i]  BY <1>0, <3>3
      <4> QED BY <1>1, <1>c, <4>1 DEF RC!Start
    <3> QED BY <2>1, <3>1, <3>2, <3>3
  <2>2. ASSUME NEW to \in {"navigating", "refusing"},
               session' = [session EXCEPT ![q.id] = [RC!Blank EXCEPT !.status = IF to = "refusing" THEN "stopping" ELSE "active",
                                                                    !.listed = TRUE, !.browser = TRUE]]
        PROVE  RecordingMoves(i)
    <3>1. CASE i = q.id
      <4>1. session'[i].listed /\ session'[i].browser /\ session'[i].status # "none"
        BY <1>0, <2>2, <3>1 DEF RC!Blank
      <4> QED BY <1>1, <3>1, <4>1 DEF RC!Start, RecordingMoves
    <3>2. CASE i # q.id
      <4>1. session'[i] = session[i]  BY <1>0, <2>2, <3>2
      <4> QED BY <1>1, <1>c, <4>1 DEF RC!Start
    <3> QED BY <3>1, <3>2
  <2> QED BY <1>1, <2>1, <2>2 DEF RC!Start
<1>2. ASSUME NEW q \in recAsked, RC!Started(q) PROVE RecordingMoves(i)
  BY <1>2, <1>c DEF RC!Started
<1>3. ASSUME NEW q \in recAsked, RC!RefuseUrl(q) PROVE RecordingMoves(i)
  <2>1. CASE i = q.id
    <3>1. session'[i].status # "none" /\ ~session'[i].listed /\ i \in gone'
      BY <1>0, <1>3, <2>1 DEF RC!RefuseUrl, SessionOf
    <3> QED BY <1>3, <3>1 DEF RC!RefuseUrl, RecordingMoves
  <2>2. CASE i # q.id
    BY <1>0, <1>3, <2>2 DEF RC!RefuseUrl, RecordingMoves
  <2> QED BY <2>1, <2>2
<1>5. ASSUME NEW q \in recAsked, RC!ServeStop(q) PROVE RecordingMoves(i)
  <2>1. CASE UNCHANGED <<session, finishing>>  BY <1>5, <1>c, <2>1 DEF RC!ServeStop
  <2>2. CASE session[q.id].listed /\ session' = [session EXCEPT ![q.id] = RC!Take(q.id)]
             /\ finishing' = [finishing EXCEPT ![q.id] = "closing"]
    <3>1. CASE i = q.id
      <4>1. session'[i].status # "none" /\ ~session'[i].listed /\ finishing'[i] = "closing"
        BY <1>0, <2>2, <3>1 DEF RC!Take, SessionOf
      <4> QED BY <1>5, <2>2, <3>1, <4>1 DEF RC!ServeStop, RecordingMoves
    <3>2. CASE i # q.id
      BY <1>0, <1>5, <2>2, <3>2 DEF RC!ServeStop, RecordingMoves
    <3> QED BY <3>1, <3>2
  <2> QED BY <1>5, <2>1, <2>2 DEF RC!ServeStop
<1>11. ASSUME NEW j \in Recordings, RC!Capture(j) PROVE RecordingMoves(i)
  <2>1. /\ session'[i].status = session[i].status /\ session'[i].listed = session[i].listed
        /\ session'[i].browser = session[i].browser
    BY <1>0, <1>11 DEF RC!Capture, SessionOf
  <2> QED BY <1>11, <2>1 DEF RC!Capture, RecordingMoves
<1>12. ASSUME NEW j \in Recordings, RC!Sweep(j) PROVE RecordingMoves(i)
  <2>1. CASE i = j
    <3>1. session'[i].status # "none" /\ ~session'[i].listed /\ finishing'[i] = "closing"
      BY <1>0, <1>12, <2>1 DEF RC!Sweep, RC!Take, SessionOf
    <3> QED BY <1>12, <2>1, <3>1 DEF RC!Sweep, RecordingMoves
  <2>2. CASE i # j
    BY <1>0, <1>12, <2>2 DEF RC!Sweep, RecordingMoves
  <2> QED BY <2>1, <2>2
<1>13. ASSUME NEW j \in Recordings, RC!Closed(j) PROVE RecordingMoves(i)
  <2>1. CASE i = j
    <3>1. session'[i].status # "none" /\ session'[i].listed = session[i].listed /\ finishing'[i] = "correlating"
      BY <1>0, <1>13, <2>1 DEF RC!Closed, SessionOf
    <3> QED BY <1>13, <2>1, <3>1 DEF RC!Closed, RecordingMoves
  <2>2. CASE i # j
    BY <1>0, <1>13, <2>2 DEF RC!Closed, RecordingMoves
  <2> QED BY <2>1, <2>2
<1>14. ASSUME NEW j \in Recordings, RC!Finish(j) PROVE RecordingMoves(i)
  <2>1. CASE i = j
    BY <1>0, <1>14, <2>1 DEF RC!Finish, RC!Kept, RecordingMoves
  <2>2. CASE i # j
    BY <1>0, <1>14, <2>2 DEF RC!Finish, RecordingMoves
  <2> QED BY <2>1, <2>2
<1>15. ASSUME NEW j \in Recordings, RC!Expire(j) PROVE RecordingMoves(i)
  BY <1>15 DEF RC!Expire, RecordingMoves
<1>16. ASSUME NEW j \in Recordings, RC!Delete(j) PROVE RecordingMoves(i)
  <2>1. CASE i = j
    <3>1. session'[i].status # "none" /\ session'[i].listed = session[i].listed /\ session'[i].browser = session[i].browser
      BY <1>0, <1>16, <2>1 DEF RC!Delete, SessionOf
    <3> QED BY <1>16, <2>1, <3>1 DEF RC!Delete, RecordingMoves
  <2>2. CASE i # j
    BY <1>0, <1>16, <2>2 DEF RC!Delete, RecordingMoves
  <2> QED BY <2>1, <2>2
<1>17. ASSUME NEW j \in Recordings, RC!Deleted(j) PROVE RecordingMoves(i)
  <2>1. CASE i = j
    <3>1. session'[i].status # "none" /\ ~session'[i].listed /\ i \in gone'
      BY <1>0, <1>17, <2>1 DEF RC!Deleted, SessionOf
    <3> QED BY <1>17, <3>1 DEF RC!Deleted, RecordingMoves
  <2>2. CASE i # j
    BY <1>0, <1>17, <2>2 DEF RC!Deleted, RecordingMoves
  <2> QED BY <2>1, <2>2
<1>21. CASE RC!Restart
  BY <1>0, <1>21 DEF RC!Restart, RecordingMoves
<1>22. CASE UNCHANGED RC!server
  BY <1>22, <1>b
<1>23. UNCHANGED RC!server \/ RC!Restart
       \/ (\E q \in recAsked : RC!Start(q) \/ RC!Started(q) \/ RC!RefuseUrl(q) \/ RC!ServeStop(q))
       \/ (\E j \in Recordings : RC!Capture(j) \/ RC!Sweep(j) \/ RC!Closed(j) \/ RC!Finish(j) \/ RC!Expire(j)
                                 \/ RC!Delete(j) \/ RC!Deleted(j))
  BY DEF Recorder, Rec, RC!ServeGet, RC!Launched, RC!Ignored, RC!PollAnswered, RC!StopAnswered, RC!ViewerAnswered,
         RC!StartRecording, RC!ViewerPoll, RC!ViewerStop, RC!StopRecording, RC!Poll, RC!Unmount, RC!Mount
<1> QED BY <1>1, <1>2, <1>3, <1>5, <1>11, <1>12, <1>13, <1>14, <1>15, <1>16, <1>17, <1>21, <1>22, <1>23

LEMMA RecorderStays ==
    ASSUME RC!RecorderAssumption, part = "recorder" => RecorderInv, [Next]_allvars
    PROVE  part' = "recorder" => RecorderInv'
<1> SUFFICES ASSUME part = "recorder" PROVE RecorderInv'  BY Frame
<1>1. CASE Recorder
  <2>1. RC!RecorderTypeOK /\ RC!RecorderTypeOK'  BY <1>1, RecorderTypes DEF RecorderInv
  <2>2. \A i \in Recordings : RecordingMoves(i)  BY <1>1, <2>1, RecorderMoves
  <2>3. \A i \in Recordings : RecordingSound(i)' /\ RecordingKept(i)'  BY <2>1, <2>2, RecordingStaysSound
  <2> QED BY <2>1, <2>3 DEF RecorderInv
<1>2. CASE UNCHANGED rcvars
  BY <1>2 DEF rcvars, RecorderInv, RC!RecorderTypeOK, RecordingSound, RecordingKept
<1> QED BY <1>1, <1>2, Frame

LEMMA RecorderStarts ==
    ASSUME Init
    PROVE  RecorderInv
<1>1. RC!RecorderInit  BY DEF Init
<1>2. RC!RecorderTypeOK
  BY <1>1 DEF RC!RecorderInit, RC!RecorderTypeOK, RC!Blank, RC!Recs, RC!NoRec
<1>3. \A i \in Recordings : RecordingSound(i) /\ RecordingKept(i)
  BY <1>1 DEF RC!RecorderInit, RecordingSound, RecordingKept, RC!Blank
<1> QED BY <1>2, <1>3 DEF RecorderInv

\* A recording is correlated once at most, and its browser or its steps are held
\* until it was deleted, has expired or the service was restarted (Recorder).
THEOREM RecordingCorrect == Spec => []RecordingKeptOnce
<1>1. RC!RecorderAssumption  BY Assumptions
<1>2. Init => (part = "recorder" => RecorderInv)  BY RecorderStarts
<1>3. (part = "recorder" => RecorderInv) /\ [Next]_allvars => (part = "recorder" => RecorderInv)'
  BY <1>1, RecorderStays
<1>4. (part = "recorder" => RecorderInv) => RecordingKeptOnce
  BY DEF RecorderInv, RecordingSound, RecordingKept, RecordingKeptOnce, RC!FinishedOnce, RC!NeverForgotten
<1> QED BY <1>2, <1>3, <1>4, PTL DEF Spec

-----------------------------------------------------------------------------
(* Chat. *)

\* Every card of the page, of a saved conversation, and of what a fetched
\* specification is to follow is an edit of the script it would be saved over.
ScriptOrNone == Saved \cup {NoScript}
OwnCards == {c \in [n : Nat, kind : {"preview", "edit", "status"}, script : ScriptOrNone, of : ScriptOrNone,
                    done : BOOLEAN, hidden : BOOLEAN] : c.script = c.of}
OwnConversations == [mode : {"none", "parse", "edit"}, cards : SUBSET OwnCards, script : ScriptOrNone]
OwnRequests == [kind : {"fetch", "parse", "turn", "save", "run", "script", "result"}, script : ScriptOrNone,
                card : Nat, had : SUBSET OwnCards, in : Chats]
ChatInv ==
    /\ mode \in {"parse", "edit"} /\ chat \in Chats /\ editing \in ScriptOrNone /\ made \in Nat
    /\ cards \subseteq OwnCards
    /\ history \in [Chats -> OwnConversations]
    /\ chatAsked \subseteq OwnRequests
    /\ holds \in [Saved -> Saved] /\ CH!EditsOfItself

LEMMA CardMade ==
    ASSUME NEW n \in Nat, NEW kind \in {"preview", "edit", "status"}, NEW s \in ScriptOrNone
    PROVE  CH!Card(n, kind, s, s) \in OwnCards
BY DEF CH!Card, OwnCards

\* Marking a card, or putting it aside, leaves its scripts alone.
LEMMA CardMarked ==
    ASSUME NEW cs \in SUBSET OwnCards, NEW n, NEW done \in BOOLEAN
    PROVE  /\ CH!Marked(cs, n, done) \subseteq OwnCards
           /\ \A c \in cs : [c EXCEPT !.hidden = TRUE] \in OwnCards
<1>1. \A c \in OwnCards : [c EXCEPT !.done = done] \in OwnCards /\ [c EXCEPT !.hidden = TRUE] \in OwnCards
  BY DEF OwnCards
<1> QED BY <1>1 DEF CH!Marked

LEMMA CardsShown ==
    ASSUME ChatInv, NEW cs \in SUBSET OwnCards, CH!Shows(cs), mode' \in {"parse", "edit"}, chat' \in Chats,
           editing' \in ScriptOrNone
    PROVE  cards' \subseteq OwnCards /\ history' \in [Chats -> OwnConversations]
<1> DEFINE new == [mode |-> mode', cards |-> cs, script |-> editing']
<1>1. new \in OwnConversations  BY DEF OwnConversations
<1>2. cards' = cs /\ history' = [history EXCEPT ![chat'] = new]  BY DEF CH!Shows
<1> HIDE DEF new
<1> QED BY <1>1, <1>2 DEF ChatInv

LEMMA RequestMade ==
    ASSUME ChatInv, NEW kind \in {"fetch", "parse", "turn", "save", "run", "script", "result"},
           NEW s \in ScriptOrNone, NEW n \in Nat, NEW had \in SUBSET OwnCards
    PROVE  /\ CH!Request(kind, s, n, had) \in OwnRequests
           /\ \A c \in Chats : [CH!Request(kind, s, n, had) EXCEPT !.in = c] \in OwnRequests
BY DEF CH!Request, OwnRequests, ChatInv

LEMMA ChatStep ==
    ASSUME CH!ChatAssumption, ChatInv, Chat
    PROVE  ChatInv'
<1> DEFINE Frozen == UNCHANGED <<mode, chat, editing>>
<1>a. /\ mode \in {"parse", "edit"} /\ chat \in Chats /\ editing \in ScriptOrNone /\ made \in Nat
      /\ cards \in SUBSET OwnCards /\ history \in [Chats -> OwnConversations] /\ chatAsked \subseteq OwnRequests
      /\ holds \in [Saved -> Saved] /\ CH!EditsOfItself
      /\ NoScript \in ScriptOrNone /\ {} \in SUBSET OwnCards /\ 0 \in Nat
  BY DEF ChatInv, ScriptOrNone
<1>b. ASSUME Frozen, NEW cs \in SUBSET OwnCards, CH!Shows(cs), chatAsked' \subseteq OwnRequests,
             made' \in Nat, UNCHANGED holds
      PROVE  ChatInv'
  <2>1. cards' \subseteq OwnCards /\ history' \in [Chats -> OwnConversations]  BY <1>a, <1>b, CardsShown
  <2> QED BY <1>a, <1>b, <2>1 DEF ChatInv, CH!EditsOfItself
<1>c. ASSUME UNCHANGED <<cards, history, holds>>, Frozen, chatAsked' \subseteq OwnRequests, made' \in Nat
      PROVE  ChatInv'
  BY <1>a, <1>c DEF ChatInv, CH!EditsOfItself
<1>d. \A q \in chatAsked : /\ q.script \in ScriptOrNone /\ q.card \in Nat /\ q.had \in SUBSET OwnCards
                           /\ CH!Done(q) => chatAsked' \subseteq OwnRequests
  BY <1>a DEF OwnRequests, CH!Done
<1>e. \A c \in cards : c.n \in Nat /\ c.script \in ScriptOrNone /\ c.of = c.script
  BY <1>a DEF OwnCards
<1>f. \A q \in OwnRequests : CH!Asks(q) => chatAsked' \subseteq OwnRequests
  BY <1>a DEF CH!Asks
<1>g. \A n, done : done \in BOOLEAN => CH!Marked(cards, n, done) \in SUBSET OwnCards
  BY <1>a, CardMarked
<1>h. \A s \in Chats : /\ history[s].cards \in SUBSET OwnCards /\ history[s].script \in ScriptOrNone
                       /\ history[s].mode # "none" => history[s].mode \in {"parse", "edit"}
  BY <1>a DEF OwnConversations
<1>1. CASE CH!StartNewChat
  BY <1>a, <1>1 DEF CH!StartNewChat, CH!Clears, ChatInv, CH!EditsOfItself
<1>2. CASE CH!ChangeMode
  BY <1>a, <1>2 DEF CH!ChangeMode, CH!Clears, ChatInv, CH!EditsOfItself
<1>3. CASE CH!Send
  <2>1. CH!Request("fetch", NoScript, 0, cards) \in OwnRequests /\ CH!Request("parse", NoScript, 0, {}) \in OwnRequests
    BY <1>a, RequestMade
  <2>2. CASE CH!Asks(CH!Request("fetch", NoScript, 0, cards)) /\ UNCHANGED <<cards, history, thinking>>
    BY <1>3, <1>a, <1>c, <1>f, <2>1, <2>2 DEF CH!Send, CH!Same
  <2>3. CASE CH!Asks(CH!Request("parse", NoScript, 0, {})) /\ CH!Shows(cards)
    BY <1>3, <1>a, <1>b, <1>f, <2>1, <2>3 DEF CH!Send, CH!Same
  <2> QED BY <1>3, <2>2, <2>3 DEF CH!Send
<1>4. CASE CH!EditTurn
  <2>1. CH!Request("turn", editing, 0, {}) \in OwnRequests  BY <1>a, RequestMade
  <2> QED BY <1>4, <1>a, <1>b, <1>f, <2>1 DEF CH!EditTurn, CH!Same
<1>5. ASSUME NEW s \in Chats, CH!LoadSession(s) PROVE ChatInv'
  <2> DEFINE old == history[s]
  <2>1. mode' \in {"parse", "edit"} /\ chat' \in Chats /\ editing' \in ScriptOrNone
    BY <1>5, <1>a, <1>h DEF CH!LoadSession
  <2>2. [CH!Request("script", old.script, 0, {}) EXCEPT !.in = s] \in OwnRequests
    BY <1>a, <1>h, RequestMade
  <2>3. chatAsked' \subseteq OwnRequests
    BY <1>5, <1>a, <1>f, <2>2 DEF CH!LoadSession
  <2>4. cards' \subseteq OwnCards /\ history' \in [Chats -> OwnConversations]
    BY <1>5, <1>h, <2>1, CardsShown DEF CH!LoadSession
  <2> QED BY <1>5, <1>a, <2>1, <2>3, <2>4 DEF CH!LoadSession, ChatInv, CH!EditsOfItself
<1>6. ASSUME NEW s \in Chats, CH!RemoveSession(s) PROVE ChatInv'
  <2>1. CH!NotSaved \in OwnConversations  BY <1>a DEF CH!NotSaved, OwnConversations
  <2>2. history' \in [Chats -> OwnConversations]  BY <1>6, <1>a, <2>1 DEF CH!RemoveSession
  <2>3. chat' \in Chats /\ cards' \subseteq OwnCards /\ editing' \in ScriptOrNone
    BY <1>6, <1>a DEF CH!RemoveSession
  <2> QED BY <1>6, <1>a, <2>2, <2>3 DEF CH!RemoveSession, ChatInv, CH!EditsOfItself
<1>7. ASSUME NEW s \in Saved, CH!PickScript(s) PROVE ChatInv'
  BY <1>7, <1>a DEF CH!PickScript, ChatInv, ScriptOrNone, CH!EditsOfItself
<1>8. ASSUME NEW q \in chatAsked, CH!Fetched(q) PROVE ChatInv'
  <2>1. CH!Request("parse", NoScript, 0, {}) \in OwnRequests  BY <1>a, RequestMade
  <2>2. chatAsked' \subseteq OwnRequests  BY <1>8, <1>a, <2>1 DEF CH!Fetched
  <2> QED BY <1>8, <1>a, <1>b, <1>d, <2>2 DEF CH!Fetched, CH!Same
<1>9. ASSUME NEW q \in chatAsked, CH!TurnAnswered(q) PROVE ChatInv'
  <2>1. CASE UNCHANGED <<cards, history, made>>
    BY <1>9, <1>a, <1>c, <1>d, <2>1 DEF CH!TurnAnswered, CH!Same
  <2>2. CASE made' = made + 1 /\ CH!Shows(cards \cup {CH!Card(made', IF q.kind = "turn" THEN "edit" ELSE "preview",
                                                             CH!Target(q), q.script)})
    <3> DEFINE card == CH!Card(made', IF q.kind = "turn" THEN "edit" ELSE "preview", CH!Target(q), q.script)
    <3>1. made' \in Nat  BY <1>a, <2>2
    <3>2. card \in OwnCards  BY <1>d, <3>1, CardMade DEF CH!Target
    <3> HIDE DEF card
    <3>3. cards \cup {card} \in SUBSET OwnCards  BY <1>a, <3>2
    <3>4. CH!Shows(cards \cup {card})  BY <2>2 DEF card
    <3> QED BY <1>9, <1>b, <1>d, <3>1, <3>3, <3>4 DEF CH!TurnAnswered, CH!Same
  <2> QED BY <1>9, <2>1, <2>2 DEF CH!TurnAnswered
<1>10. ASSUME NEW q \in chatAsked, CH!RunAnswered(q) PROVE ChatInv'
  <2>1. CH!Card(q.card, "status", NoScript, NoScript) \in OwnCards  BY <1>a, <1>d, CardMade
  <2>2. {c \in cards : c.n # q.card} \cup {CH!Card(q.card, "status", NoScript, NoScript)} \in SUBSET OwnCards
    BY <1>a, <2>1
  <2>3. \E cs \in SUBSET OwnCards : CH!Shows(cs)
    BY <1>10, <1>g, <2>2 DEF CH!RunAnswered
  <2> QED BY <1>10, <1>a, <1>b, <1>d, <2>3 DEF CH!RunAnswered, CH!Same
<1>11. ASSUME NEW q \in chatAsked, CH!SaveAnswered(q) PROVE ChatInv'
  <2>1. CASE UNCHANGED <<cards, history>>
    BY <1>11, <1>a, <1>c, <1>d, <2>1 DEF CH!SaveAnswered, CH!Same
  <2>2. CASE \E n \in CH!Place(q) : CH!Shows(CH!Marked(cards, n, TRUE))
    BY <1>11, <1>a, <1>b, <1>d, <1>g, <2>2 DEF CH!SaveAnswered, CH!Same
  <2> QED BY <1>11, <2>1, <2>2 DEF CH!SaveAnswered
<1>12. ASSUME NEW q \in chatAsked, CH!ScriptAnswered(q) PROVE ChatInv'
  BY <1>12, <1>a, <1>d DEF CH!ScriptAnswered, ChatInv, CH!EditsOfItself
<1>13. ASSUME NEW c \in cards, CH!KeepChatting(c) PROVE ChatInv'
  <2>1. (cards \ {c}) \cup {[c EXCEPT !.hidden = TRUE]} \in SUBSET OwnCards
    BY <1>a, CardMarked
  <2> QED BY <1>13, <1>a, <1>b, <2>1 DEF CH!KeepChatting, CH!Same
<1>14. ASSUME NEW c \in cards, CH!RunTest(c) PROVE ChatInv'
  <2>1. CH!Request("run", NoScript, c.n, {}) \in OwnRequests  BY <1>a, <1>e, RequestMade
  <2> QED BY <1>14, <1>a, <1>b, <1>f, <1>g, <2>1 DEF CH!RunTest, CH!Same
\* A card is saved over the script it is an edit of.
<1>15. ASSUME NEW c \in cards, CH!SaveScriptEdit(c) PROVE ChatInv'
  <2>1. CH!Request("save", c.script, c.n, {}) \in OwnRequests  BY <1>a, <1>e, RequestMade
  <2>2. chatAsked' \subseteq OwnRequests  BY <1>15, <1>f, <2>1 DEF CH!SaveScriptEdit
  <2>3. holds' \in [Saved -> Saved] /\ \A s \in Saved : holds'[s] = s
    BY <1>15, <1>a, <1>e DEF CH!SaveScriptEdit, CH!EditsOfItself, ScriptOrNone
  <2> QED BY <1>15, <1>a, <2>2, <2>3 DEF CH!SaveScriptEdit, ChatInv, CH!EditsOfItself
<1>16. ASSUME NEW c \in cards, CH!StatusArrives(c) PROVE ChatInv'
  BY <1>16, <1>a, <1>b, <1>g DEF CH!StatusArrives, CH!Same
<1> QED BY <1>1, <1>2, <1>3, <1>4, <1>5, <1>6, <1>7, <1>8, <1>9, <1>10, <1>11, <1>12, <1>13, <1>14, <1>15, <1>16
        DEF Chat, Cha

LEMMA ChatStarts ==
    ASSUME CH!ChatAssumption, Init, part = "chat"
    PROVE  ChatInv
<1>1. CH!ChatInit  BY DEF Init
<1>2. CH!NotSaved \in OwnConversations  BY DEF CH!NotSaved, OwnConversations, ScriptOrNone
<1> QED BY <1>1, <1>2 DEF CH!ChatInit, ChatInv, CH!EditsOfItself, ScriptOrNone

\* An edited script is only saved over the script it was made from (Chat).
THEOREM EditsCorrect == Spec => []EditsOfItself
<1>1. CH!ChatAssumption  BY Assumptions
<1>2. Init => (part = "chat" => ChatInv)  BY <1>1, ChatStarts
<1>3. (part = "chat" => ChatInv) /\ [Next]_allvars => (part = "chat" => ChatInv)'
  <2> SUFFICES ASSUME part = "chat", ChatInv, [Next]_allvars PROVE ChatInv'  BY Frame
  <2>1. CASE Chat  BY <1>1, <2>1, ChatStep
  <2>2. CASE UNCHANGED chvars  BY <2>2 DEF chvars, ChatInv, CH!EditsOfItself
  <2> QED BY <2>1, <2>2, Frame
<1>4. (part = "chat" => ChatInv) => EditsOfItself  BY DEF ChatInv, EditsOfItself
<1> QED BY <1>2, <1>3, <1>4, PTL DEF Spec

-----------------------------------------------------------------------------
(* AiCalls. *)

SettingOrNone == Settings \cup {NoSetting}
CallOf == [kind : AI!Kinds, pc : {"idle", "asked", "inherits", "replied", "calling", "waiting"},
           held : SettingOrNone, setting : SettingOrNone, took : 0..FetchTicks, late : BOOLEAN,
           at : Nat, limited : BOOLEAN, tries : Nat, answered : BOOLEAN]

\* The setting was in force at most d ticks ago.
Within(v, d) ==
    \/ left["team"][v] <= d
    \/ /\ left["team"][NoSetting] <= d
       /\ \/ left["global"][v] <= d
          \/ v = Default /\ left["global"][NoSetting] <= d

\* What a call holds is as old as the call has taken, no older; a route reads the
\* platform's row alone.
CallFresh(c) ==
    /\ c.late = FALSE
    /\ c.pc = "asked" => c.kind # "route"
    /\ c.pc = "inherits" /\ c.kind # "route" => left["team"][NoSetting] <= c.took
    /\ c.pc = "replied" => c.kind \notin {"route", "chat"} /\ c.setting \in Settings /\ Within(c.setting, c.took)

\* And what is cached is older than the cache has it by a fetch at most.
CacheFresh ==
    cache.setting # NoSetting /\ cache.age < CacheTicks => Within(cache.setting, FetchTicks + cache.age)

CallsTyped ==
    /\ setting \in [AI!Rows -> SettingOrNone]
    /\ left \in [AI!Rows -> [SettingOrNone -> 0..AI!Window]]
    /\ cache \in [setting : SettingOrNone, age : 0..CacheTicks]
    /\ call \in [Slots -> CallOf]
CallsInv ==
    /\ CallsTyped
    /\ \A r \in AI!Rows : left[r][setting[r]] = 0
    /\ CacheFresh
    /\ \A s \in Slots : CallFresh(call[s])

LEMMA CallConstants ==
    ASSUME AI!AiCallsAssumption
    PROVE  /\ Default \in Settings /\ NoSetting \notin Settings
           /\ FetchTicks \in Nat /\ CacheTicks \in Nat /\ CacheTicks > 0
           /\ AI!Window \in Nat /\ AI!Window = CacheTicks + FetchTicks
BY DEF AI!AiCallsAssumption, AI!Window

\* A setting in force within less than the window may be called with.
LEMMA WithinIsInForce ==
    ASSUME AI!AiCallsAssumption, CallsTyped, NEW v \in Settings, NEW d \in Nat, d < AI!Window, Within(v, d),
           NEW kind, kind # "route"
    PROVE  AI!InForce(kind, v)
<1>1. \A r \in AI!Rows, u \in SettingOrNone : left[r][u] \in Nat
  BY CallConstants DEF CallsTyped
<1>2. "team" \in AI!Rows /\ "global" \in AI!Rows /\ v \in SettingOrNone /\ NoSetting \in SettingOrNone
  BY DEF AI!Rows, SettingOrNone
<1> QED BY <1>1, <1>2, CallConstants DEF Within, AI!InForce, AI!HadDefault, AI!Had

\* A call made with a setting in force is not late; one whose fetch failed is not
\* judged.
LEMMA MadeInTime ==
    ASSUME AI!AiCallsAssumption, NEW c \in CallOf, NEW v \in Settings
    PROVE  /\ AI!InForce(c.kind, v) => AI!Made(c, v) \in CallOf /\ CallFresh(AI!Made(c, v))
           /\ [AI!Made(c, v) EXCEPT !.late = FALSE] \in CallOf
           /\ CallFresh([AI!Made(c, v) EXCEPT !.late = FALSE])
<1>1. PICK late \in BOOLEAN : late = ~AI!InForce(c.kind, v)
  <2>1. (~AI!InForce(c.kind, v)) \in BOOLEAN  OBVIOUS
  <2> WITNESS (~AI!InForce(c.kind, v)) \in BOOLEAN
  <2> QED OBVIOUS
<1>2. AI!Made(c, v) = IF AI!Range(v) \cap Configured = {} THEN AI!Idle
                      ELSE [c EXCEPT !.pc = "calling", !.held = NoSetting, !.setting = v, !.took = 0, !.late = late]
  BY <1>1 DEF AI!Made
<1>3. AI!Idle \in CallOf /\ AI!Idle.late = FALSE /\ AI!Idle.pc = "idle"
  BY CallConstants DEF AI!Idle, CallOf, SettingOrNone, AI!Kinds
<1> DEFINE calling == [c EXCEPT !.pc = "calling", !.held = NoSetting, !.setting = v, !.took = 0, !.late = late]
<1>0. late \in BOOLEAN /\ NoSetting \in SettingOrNone /\ v \in SettingOrNone /\ 0 \in 0..FetchTicks
  BY <1>1, CallConstants DEF SettingOrNone
<1>a. calling \in CallOf /\ calling.pc = "calling" /\ calling.late = late
  BY <1>0 DEF CallOf
<1>b. AI!Made(c, v) \in {AI!Idle, calling}
  BY <1>2
<1>c. AI!InForce(c.kind, v) => late = FALSE
  BY <1>1
<1> HIDE DEF calling
<1>4. /\ AI!Made(c, v) \in CallOf /\ AI!Made(c, v).pc \in {"idle", "calling"}
      /\ AI!InForce(c.kind, v) => AI!Made(c, v).late = FALSE
  BY <1>3, <1>a, <1>b, <1>c
<1> DEFINE m == AI!Made(c, v)
<1> HIDE DEF m
<1>5. /\ [m EXCEPT !.late = FALSE] \in CallOf /\ [m EXCEPT !.late = FALSE].pc = m.pc
      /\ [m EXCEPT !.late = FALSE].late = FALSE
  BY <1>4 DEF CallOf, m
<1> QED BY <1>4, <1>5 DEF CallFresh, m

\* A step of one call keeps the invariant when what the call becomes is fresh.
LEMMA CallMoves ==
    ASSUME CallsInv, UNCHANGED <<setting, left>>, cache' \in [setting : SettingOrNone, age : 0..CacheTicks], CacheFresh',
           NEW s \in Slots, NEW new \in CallOf, AI!Becomes(s, new), CallFresh(new)
    PROVE  CallsInv'
<1>1. call' \in [Slots -> CallOf]
  BY DEF AI!Becomes, CallsInv, CallsTyped
<1>2. CallsTyped'
  BY <1>1 DEF CallsInv, CallsTyped
<1>3. ASSUME NEW t \in Slots PROVE CallFresh(call[t])'
  <2>1. call'[t] = new \/ call'[t] = call[t]
    BY DEF AI!Becomes, CallsInv, CallsTyped
  <2> QED BY <2>1 DEF CallsInv, CallFresh, Within
<1> QED BY <1>2, <1>3 DEF CallsInv

\* A tick makes every setting a tick older at most, and every fetch a tick longer.
LEMMA TickAges ==
    ASSUME AI!AiCallsAssumption, CallsInv, AI!Tick
    PROVE  CallsInv'
<1>0. /\ setting \in [AI!Rows -> SettingOrNone] /\ left \in [AI!Rows -> [SettingOrNone -> 0..AI!Window]]
      /\ cache \in [setting : SettingOrNone, age : 0..CacheTicks] /\ call \in [Slots -> CallOf]
      /\ NoSetting \in SettingOrNone /\ "team" \in AI!Rows /\ "global" \in AI!Rows
      /\ \A v \in Settings : v \in SettingOrNone
      /\ AI!Window \in Nat /\ setting' = setting
  BY CallConstants DEF CallsInv, CallsTyped, SettingOrNone, AI!Rows, AI!Tick
<1>1. /\ left' \in [AI!Rows -> [SettingOrNone -> 0..AI!Window]]
      /\ \A r \in AI!Rows, v \in SettingOrNone : left[r][v] \in Nat /\ left'[r][v] \in Nat /\ left'[r][v] <= left[r][v] + 1
      /\ \A r \in AI!Rows : left'[r][setting[r]] = 0
  <2> DEFINE older(r, v) == IF v = setting[r] THEN 0 ELSE IF left[r][v] < AI!Window THEN left[r][v] + 1 ELSE AI!Window
  <2>1. left' = [r \in AI!Rows |-> [v \in SettingOrNone |-> older(r, v)]]
    BY DEF AI!Tick, SettingOrNone
  <2>2. \A r \in AI!Rows, v \in SettingOrNone :
           older(r, v) \in 0..AI!Window /\ left[r][v] \in Nat /\ older(r, v) <= left[r][v] + 1
    BY <1>0
  <2>3. \A r \in AI!Rows : older(r, setting[r]) = 0 /\ setting[r] \in SettingOrNone
    BY <1>0
  <2> HIDE DEF older
  <2>4. \A r \in AI!Rows, v \in SettingOrNone : left'[r][v] = older(r, v)
    BY <2>1
  <2>5. left' \in [AI!Rows -> [SettingOrNone -> 0..AI!Window]]
    BY <2>1, <2>2
  <2> QED BY <2>2, <2>3, <2>4, <2>5, <1>0
<1>2. ASSUME NEW v \in SettingOrNone, NEW d \in Nat, Within(v, d)
      PROVE  \/ left'["team"][v] <= d + 1
             \/ /\ left'["team"][NoSetting] <= d + 1
                /\ \/ left'["global"][v] <= d + 1
                   \/ v = Default /\ left'["global"][NoSetting] <= d + 1
  BY <1>0, <1>1, <1>2 DEF Within
<1>3. cache' = [cache EXCEPT !.age = IF cache.setting # NoSetting /\ @ < CacheTicks THEN @ + 1 ELSE @]
  BY DEF AI!Tick
<1>4. /\ cache' \in [setting : SettingOrNone, age : 0..CacheTicks] /\ cache'.setting = cache.setting
      /\ cache.age \in Nat /\ cache.setting \in SettingOrNone
      /\ cache'.setting # NoSetting /\ cache'.age < CacheTicks => cache.age < CacheTicks /\ cache'.age = cache.age + 1
  <2> DEFINE age == IF cache.setting # NoSetting /\ cache.age < CacheTicks THEN cache.age + 1 ELSE cache.age
  <2>1. cache.age \in 0..CacheTicks /\ cache.age \in Nat /\ cache.setting \in SettingOrNone
    BY <1>0
  <2>2. /\ age \in 0..CacheTicks
        /\ cache.setting # NoSetting /\ age < CacheTicks => cache.age < CacheTicks /\ age = cache.age + 1
    BY <2>1, CallConstants
  <2>3. cache' = [cache EXCEPT !.age = age]
    BY <1>3
  <2> HIDE DEF age
  <2>4. cache' \in [setting : SettingOrNone, age : 0..CacheTicks] /\ cache'.setting = cache.setting /\ cache'.age = age
    BY <1>0, <2>2, <2>3
  <2> QED BY <2>1, <2>2, <2>4
<1>5. CacheFresh'
  <2> SUFFICES ASSUME cache'.setting # NoSetting, cache'.age < CacheTicks
               PROVE  Within(cache.setting, FetchTicks + cache.age)'
    BY DEF CacheFresh
  <2> DEFINE v == cache.setting
             d == FetchTicks + cache.age
  <2>1. v \in SettingOrNone /\ d \in Nat /\ Within(v, d)
    BY <1>4, CallConstants DEF CallsInv, CacheFresh
  <2>2. cache'.setting = v /\ FetchTicks + cache'.age = d + 1
    BY <1>4, CallConstants
  <2> HIDE DEF v, d
  <2> QED BY <1>2, <2>1, <2>2 DEF Within
<1>6. ASSUME NEW s \in Slots
      PROVE  call'[s] \in CallOf /\ CallFresh(call[s])'
  <2> DEFINE c == call[s]
             fetching == c.pc \in {"asked", "inherits", "replied"}
             new == IF fetching THEN [c EXCEPT !.took = @ + 1] ELSE c
  <2>0. c \in CallOf /\ CallFresh(c)
    BY <1>0 DEF CallsInv
  <2>1. call'[s] = new /\ (fetching => c.took < FetchTicks)
    BY DEF AI!Tick
  <2>2. /\ new \in CallOf /\ new.pc = c.pc /\ new.kind = c.kind /\ new.late = c.late /\ new.setting = c.setting
        /\ c.took \in Nat /\ c.setting \in SettingOrNone
        /\ fetching => new.took = c.took + 1
    BY <2>0, <2>1, CallConstants DEF CallOf
  <2>3. c.pc = "inherits" /\ c.kind # "route" => left'["team"][NoSetting] <= c.took + 1
    <3> SUFFICES ASSUME c.pc = "inherits", c.kind # "route" PROVE left'["team"][NoSetting] <= c.took + 1
      OBVIOUS
    <3>1. left["team"][NoSetting] <= c.took  BY <2>0 DEF CallFresh
    <3>2. left'["team"][NoSetting] <= left["team"][NoSetting] + 1 /\ left["team"][NoSetting] \in Nat
          /\ left'["team"][NoSetting] \in Nat
      BY <1>0, <1>1
    <3>3. c.took \in Nat  BY <2>2
    <3> HIDE DEF c
    <3> QED BY <3>1, <3>2, <3>3
  <2>4. c.pc = "replied" => c.kind \notin {"route", "chat"} /\ c.setting \in Settings /\ Within(c.setting, c.took)
    BY <2>0 DEF CallFresh
  <2>5. CallFresh(call[s])'
    <3> DEFINE k == c.took
               v == c.setting
    <3>1. CASE c.pc = "replied"
      <4>1. v \in SettingOrNone /\ k \in Nat /\ Within(v, k)  BY <2>2, <2>4, <3>1
      <4>2. call'[s].setting = v /\ call'[s].took = k + 1 /\ call'[s].pc = "replied" /\ call'[s].late = FALSE
            /\ call'[s].kind \notin {"route", "chat"} /\ v \in Settings
        BY <2>0, <2>1, <2>2, <2>4, <3>1 DEF CallFresh
      <4> HIDE DEF k, v
      <4> QED BY <1>2, <4>1, <4>2 DEF CallFresh, Within
    <3>2. CASE c.pc # "replied"
      <4>1. call'[s].pc = c.pc /\ call'[s].late = FALSE /\ call'[s].kind = c.kind
            /\ (c.pc = "inherits" => call'[s].took = k + 1)
        BY <2>0, <2>1, <2>2 DEF CallFresh
      <4>2. c.pc = "asked" => c.kind # "route"
        BY <2>0 DEF CallFresh
      <4> HIDE DEF c
      <4> QED BY <2>3, <3>2, <4>1, <4>2 DEF CallFresh
    <3> QED BY <3>1, <3>2
  <2> QED BY <2>1, <2>2, <2>5
<1>7. call' \in [Slots -> CallOf]
  <2>1. call' = [s \in Slots |-> call'[s]]
    BY DEF AI!Tick
  <2> QED BY <1>6, <2>1
<1> QED BY <1>0, <1>1, <1>4, <1>5, <1>6, <1>7 DEF CallsInv, CallsTyped

\* A change of a row puts its new value in force, and no other back.
LEMMA PutKeepsFresh ==
    ASSUME AI!AiCallsAssumption, CallsInv, NEW r \in AI!Rows, NEW v \in SettingOrNone, AI!Put(r, v)
    PROVE  CallsInv'
<1>0. /\ setting \in [AI!Rows -> SettingOrNone] /\ left \in [AI!Rows -> [SettingOrNone -> 0..AI!Window]]
      /\ NoSetting \in SettingOrNone /\ "team" \in AI!Rows /\ "global" \in AI!Rows /\ Default \in SettingOrNone
      /\ AI!Window \in Nat /\ 0 \in 0..AI!Window /\ UNCHANGED <<cache, call>>
  BY CallConstants DEF CallsInv, CallsTyped, SettingOrNone, AI!Rows, AI!Put
<1>1. setting' = [setting EXCEPT ![r] = v] /\ left' = [left EXCEPT ![r] = [left[r] EXCEPT ![v] = 0]]
  BY DEF AI!Put
<1>2. setting' \in [AI!Rows -> SettingOrNone] /\ left' \in [AI!Rows -> [SettingOrNone -> 0..AI!Window]]
  BY <1>0, <1>1
<1>3. \A q \in AI!Rows, u \in SettingOrNone :
         left'[q][u] = (IF q = r /\ u = v THEN 0 ELSE left[q][u]) /\ left[q][u] \in Nat
  BY <1>0, <1>1
<1>4. \A q \in AI!Rows : left'[q][setting'[q]] = 0
  <2>1. \A q \in AI!Rows : setting'[q] \in SettingOrNone /\ setting'[q] = (IF q = r THEN v ELSE setting[q])
    BY <1>0, <1>1
  <2>2. \A q \in AI!Rows : left[q][setting[q]] = 0  BY DEF CallsInv
  <2> QED BY <1>3, <2>1, <2>2
<1>5. ASSUME NEW u \in SettingOrNone, NEW d \in Nat, Within(u, d) PROVE Within(u, d)'
  BY <1>0, <1>3, <1>5 DEF Within
<1>6. CacheFresh'
  <2>1. cache.setting \in SettingOrNone /\ FetchTicks + cache.age \in Nat
    BY CallConstants DEF CallsInv, CallsTyped
  <2> QED BY <1>0, <1>5, <2>1 DEF CallsInv, CacheFresh
<1>7. ASSUME NEW s \in Slots PROVE CallFresh(call[s])'
  <2>1. call[s] \in CallOf /\ CallFresh(call[s])  BY DEF CallsInv, CallsTyped
  <2>2. call[s].took \in Nat /\ call[s].setting \in SettingOrNone  BY <2>1, CallConstants DEF CallOf
  <2>3. call[s].pc = "inherits" /\ call[s].kind # "route" => left'["team"][NoSetting] <= call[s].took
    BY <1>0, <1>3, <2>1, <2>2 DEF CallFresh
  <2>4. call[s].pc = "replied" => Within(call[s].setting, call[s].took)'
    BY <1>0, <1>5, <2>1, <2>2 DEF CallFresh, Within
  <2> QED BY <1>0, <2>1, <2>3, <2>4 DEF CallFresh
<1> QED BY <1>0, <1>2, <1>4, <1>6, <1>7 DEF CallsInv, CallsTyped

\* The setting in a row is in force now.
LEMMA RowIsInForce ==
    ASSUME AI!AiCallsAssumption, CallsInv
    PROVE  /\ \A r \in AI!Rows : setting[r] \in SettingOrNone /\ left[r][setting[r]] = 0
           /\ setting["team"] # NoSetting => setting["team"] \in Settings /\ Within(setting["team"], 0)
           /\ LET v == IF setting["global"] = NoSetting THEN Default ELSE setting["global"] IN
              /\ v \in Settings /\ AI!HadDefault(v)
              /\ \A d \in Nat : left["team"][NoSetting] <= d => Within(v, d)
<1>1. \A r \in AI!Rows : setting[r] \in SettingOrNone /\ left[r][setting[r]] = 0
  BY DEF CallsInv, CallsTyped
<1>2. "team" \in AI!Rows /\ "global" \in AI!Rows  BY DEF AI!Rows
<1>3. \A v \in SettingOrNone : v # NoSetting => v \in Settings  BY DEF SettingOrNone
<1>4. 0 < AI!Window /\ \A d \in Nat : 0 <= d  BY CallConstants
<1>5. left["team"][setting["team"]] = 0 /\ left["global"][setting["global"]] = 0  BY <1>1, <1>2
<1> QED BY <1>1, <1>2, <1>3, <1>4, <1>5, CallConstants DEF Within, AI!HadDefault, AI!Had

\* A step of a call that leaves the cache alone.
LEMMA CallMovesOn ==
    ASSUME CallsInv, UNCHANGED <<setting, left, cache>>, NEW s \in Slots, NEW new \in CallOf, AI!Becomes(s, new), CallFresh(new)
    PROVE  CallsInv'
<1>1. cache' \in [setting : SettingOrNone, age : 0..CacheTicks] /\ CacheFresh'
  BY DEF CallsInv, CallsTyped, CacheFresh, Within
<1> QED BY <1>1, CallMoves

\* A call that begins.
LEMMA AskedTyped ==
    ASSUME AI!AiCallsAssumption, NEW kind \in AI!Kinds, NEW a \in {"idle", "asked", "inherits"}
    PROVE  /\ AI!Asked(kind, a) \in CallOf /\ AI!Asked(kind, a).kind = kind /\ AI!Asked(kind, a).pc = a
           /\ AI!Asked(kind, a).late = FALSE /\ AI!Asked(kind, a).took = 0
<1>1. 0 \in 0..FetchTicks /\ NoSetting \in SettingOrNone /\ 1 \in Nat /\ FALSE \in BOOLEAN
  BY CallConstants DEF SettingOrNone
<1>2. AI!Idle \in CallOf /\ AI!Idle.late = FALSE /\ AI!Idle.took = 0
  BY <1>1, CallConstants DEF AI!Idle, CallOf, SettingOrNone, AI!Kinds
<1>3. a \in {"idle", "asked", "inherits", "replied", "calling", "waiting"}
  OBVIOUS
<1>4. AI!Asked(kind, a) = [AI!Idle EXCEPT !.kind = kind, !.pc = a]
  BY DEF AI!Asked
<1> HIDE DEF AI!Idle
<1> QED BY <1>2, <1>3, <1>4 DEF CallOf

\* A setting in the cache is used only while it is fresh.
LEMMA AskKeepsFresh ==
    ASSUME AI!AiCallsAssumption, CallsInv, NEW s \in Slots, NEW kind \in AI!Kinds, AI!Ask(s, kind)
    PROVE  CallsInv'
<1>0. kind \in AI!Kinds /\ kind # "route" /\ kind # "chat" /\ UNCHANGED <<setting, left>>
  BY DEF AI!Ask
<1>1. \A a \in {"idle", "asked"} :
         /\ AI!Asked(kind, a) \in CallOf /\ AI!Asked(kind, a).kind = kind /\ AI!Asked(kind, a).pc = a
         /\ AI!Asked(kind, a).late = FALSE
  <2> TAKE a \in {"idle", "asked"}
  <2>1. a \in {"idle", "asked", "inherits"}  OBVIOUS
  <2> QED BY <2>1, AskedTyped
<1>2. cache.setting \in SettingOrNone /\ cache.age \in Nat /\ FetchTicks + cache.age \in Nat
  BY CallConstants DEF CallsInv, CallsTyped
<1>3. CASE cache.setting # NoSetting /\ cache.age < CacheTicks
  <2>1. AI!Becomes(s, AI!Made(AI!Asked(kind, "idle"), cache.setting)) /\ cache' = cache
    BY <1>3 DEF AI!Ask, AI!Hit
  <2>2. cache.setting \in Settings /\ FetchTicks + cache.age < AI!Window /\ Within(cache.setting, FetchTicks + cache.age)
    BY <1>2, <1>3, CallConstants DEF CallsInv, CacheFresh, SettingOrNone
  <2>3. AI!InForce(kind, cache.setting)
    BY <1>0, <1>2, <2>2, WithinIsInForce DEF CallsInv
  <2> DEFINE asks == AI!Asked(kind, "idle")
             v == cache.setting
  <2>4. asks \in CallOf /\ v \in Settings /\ AI!InForce(asks.kind, v)
    BY <1>1, <2>2, <2>3
  <2> HIDE DEF asks, v
  <2>5. AI!Made(asks, v) \in CallOf /\ CallFresh(AI!Made(asks, v))
    BY <2>4, MadeInTime
  <2> QED BY <1>0, <2>1, <2>5, CallMovesOn DEF asks, v
<1>4. CASE ~(cache.setting # NoSetting /\ cache.age < CacheTicks)
  <2> DEFINE new == [AI!Asked(kind, "asked") EXCEPT !.held = cache.setting]
  <2>1. AI!Becomes(s, new) /\ cache' = cache
    BY <1>4 DEF AI!Ask
  <2>2. new \in CallOf /\ new.late = FALSE /\ new.pc = "asked" /\ new.kind = kind
    BY <1>1, <1>2 DEF CallOf
  <2> HIDE DEF new
  <2>3. CallFresh(new)
    BY <1>0, <2>2 DEF CallFresh
  <2> QED BY <1>0, <2>1, <2>2, <2>3, CallMovesOn
<1> QED BY <1>3, <1>4

\* In force at most d ticks ago is in force at most e ago, for e >= d.
LEMMA WithinGrows ==
    ASSUME AI!AiCallsAssumption, CallsTyped, NEW v \in SettingOrNone, NEW d \in Nat, NEW e \in Nat, d <= e, Within(v, d)
    PROVE  Within(v, e)
<1>1. \A r \in AI!Rows, u \in SettingOrNone : left[r][u] \in Nat
  BY CallConstants DEF CallsTyped
<1>2. "team" \in AI!Rows /\ "global" \in AI!Rows /\ NoSetting \in SettingOrNone
  BY DEF AI!Rows, SettingOrNone
<1>3. \A n \in Nat : n <= d => n <= e  OBVIOUS
<1> QED BY <1>1, <1>2, <1>3 DEF Within

\* Reading the rows, and what comes of the setting read.
LEMMA ReadKeepsFresh ==
    ASSUME AI!AiCallsAssumption, CallsInv, NEW s \in Slots,
           AI!AskRoute(s) \/ AI!ReadTeam(s) \/ AI!ReadGlobal(s)
    PROVE  CallsInv'
<1> DEFINE c == call[s]
<1>0. c \in CallOf /\ CallFresh(c) /\ UNCHANGED <<setting, left, cache>>
  BY DEF CallsInv, CallsTyped, AI!AskRoute, AI!ReadTeam, AI!ReadGlobal
<1>1. ASSUME NEW new \in CallOf, AI!Becomes(s, new), CallFresh(new) PROVE CallsInv'
  BY <1>0, <1>1, CallMovesOn
<1>2. c.took \in Nat /\ c.took >= 0 /\ c.took \in 0..FetchTicks  BY <1>0, CallConstants DEF CallOf
<1>3. CASE AI!AskRoute(s)
  <2>1. \A kind \in {"route", "chat"} : kind \in AI!Kinds  BY DEF AI!Kinds
  <2>2. AI!Asked("route", "inherits") \in CallOf /\ CallFresh(AI!Asked("route", "inherits"))
    BY <2>1, AskedTyped DEF CallFresh
  <2>3. AI!Asked("chat", "asked") \in CallOf /\ CallFresh(AI!Asked("chat", "asked"))
    BY <2>1, AskedTyped DEF CallFresh
  <2> QED BY <1>1, <1>3, <2>2, <2>3 DEF AI!AskRoute
<1>4. CASE AI!ReadTeam(s)
  <2> DEFINE v == setting["team"]
  <2>0. c.pc = "asked" /\ c.kind # "route" /\ "team" \in AI!Rows
    BY <1>0, <1>4 DEF AI!ReadTeam, AI!Is, CallFresh, AI!Rows
  <2>1. CASE v = NoSetting
    <3> DEFINE new == [c EXCEPT !.pc = "inherits"]
    <3>1. AI!Becomes(s, new)  BY <1>4, <2>1 DEF AI!ReadTeam
    <3>2. new \in CallOf /\ new.pc = "inherits" /\ new.kind = c.kind /\ new.took = c.took /\ new.late = FALSE
      BY <1>0, <1>2 DEF CallOf, CallFresh
    <3>3. left["team"][NoSetting] = 0  BY <2>0, <2>1, RowIsInForce
    <3> HIDE DEF new, c
    <3>4. CallFresh(new)  BY <1>2, <3>2, <3>3 DEF CallFresh
    <3> QED BY <1>1, <3>1, <3>2, <3>4
  <2>2. CASE v # NoSetting /\ c.kind = "chat"
    <3>1. AI!Becomes(s, AI!Made(c, v))  BY <1>4, <2>2 DEF AI!ReadTeam
    <3>2. v \in Settings /\ Within(v, 0)  BY <2>2, RowIsInForce
    <3>3. AI!InForce(c.kind, v)  BY <2>0, <3>2, WithinIsInForce, CallConstants DEF CallsInv
    <3> HIDE DEF c, v
    <3>4. AI!Made(c, v) \in CallOf /\ CallFresh(AI!Made(c, v))  BY <1>0, <3>2, <3>3, MadeInTime
    <3> QED BY <1>1, <3>1, <3>4
  <2>3. CASE v # NoSetting /\ c.kind # "chat"
    <3> DEFINE new == [c EXCEPT !.pc = "replied", !.setting = v]
    <3>1. AI!Becomes(s, new)  BY <1>4, <2>3 DEF AI!ReadTeam
    <3>2. v \in Settings /\ Within(v, 0)  BY <2>3, RowIsInForce
    <3>3. new \in CallOf /\ new.pc = "replied" /\ new.kind = c.kind /\ new.took = c.took /\ new.late = FALSE /\ new.setting = v
      BY <1>0, <1>2, <3>2 DEF CallOf, CallFresh, SettingOrNone
    <3>4. Within(v, c.took)
      <4>1. v \in SettingOrNone /\ 0 \in Nat /\ 0 <= c.took  BY <1>2, <3>2 DEF SettingOrNone
      <4> HIDE DEF c, v
      <4> QED BY <1>2, <3>2, <4>1, WithinGrows DEF CallsInv
    <3> HIDE DEF new, c, v
    <3>5. CallFresh(new)  BY <2>0, <2>3, <3>2, <3>3, <3>4 DEF CallFresh
    <3> QED BY <1>1, <3>1, <3>3, <3>5
  <2> QED BY <2>1, <2>2, <2>3
<1>5. CASE AI!ReadGlobal(s)
  <2> DEFINE v == IF setting["global"] = NoSetting THEN Default ELSE setting["global"]
  <2>0. c.pc = "inherits" /\ v \in Settings /\ AI!HadDefault(v)
    BY <1>5, RowIsInForce DEF AI!ReadGlobal, AI!Is
  <2>1. c.kind # "route" => Within(v, c.took)
    BY <1>0, <1>2, <2>0, RowIsInForce DEF CallFresh
  <2>2. CASE c.kind \in {"chat", "route"}
    <3>1. AI!Becomes(s, AI!Made(c, v))  BY <1>5, <2>2 DEF AI!ReadGlobal
    <3>2. AI!InForce(c.kind, v)
      <4>1. CASE c.kind = "route"  BY <2>0, <4>1 DEF AI!InForce
      <4>2. CASE c.kind = "chat"
        <5>1. c.took < AI!Window  BY <1>2, CallConstants
        <5> QED BY <1>2, <2>0, <2>1, <4>2, <5>1, WithinIsInForce DEF CallsInv
      <4> QED BY <2>2, <4>1, <4>2
    <3> HIDE DEF c, v
    <3>3. AI!Made(c, v) \in CallOf /\ CallFresh(AI!Made(c, v))  BY <1>0, <2>0, <3>2, MadeInTime
    <3> QED BY <1>1, <3>1, <3>3
  <2>3. CASE c.kind \notin {"chat", "route"}
    <3> DEFINE new == [c EXCEPT !.pc = "replied", !.setting = v]
    <3>1. AI!Becomes(s, new)  BY <1>5, <2>3 DEF AI!ReadGlobal
    <3>2. v \in SettingOrNone  BY <2>0 DEF SettingOrNone
    <3> HIDE DEF v
    <3>3. new \in CallOf /\ new.pc = "replied" /\ new.kind = c.kind /\ new.took = c.took /\ new.late = FALSE /\ new.setting = v
      BY <1>0, <1>2, <3>2 DEF CallOf, CallFresh
    <3> HIDE DEF new, c
    <3>4. CallFresh(new)  BY <2>0, <2>1, <2>3, <3>3 DEF CallFresh
    <3> QED BY <1>1, <3>1, <3>3, <3>4
  <2> QED BY <2>2, <2>3
<1> QED BY <1>3, <1>4, <1>5

\* The answer of a fetch is at most FetchTicks old when it is cached, as of now.
LEMMA FetchedKeepsFresh ==
    ASSUME AI!AiCallsAssumption, CallsInv, NEW s \in Slots, AI!Fetched(s)
    PROVE  CallsInv'
<1> DEFINE c == call[s]
<1>a. PICK v : v = c.setting  OBVIOUS
<1>0. /\ c \in CallOf /\ CallFresh(c) /\ c.pc = "replied" /\ UNCHANGED <<setting, left>>
      /\ cache' = [setting |-> v, age |-> 0] /\ AI!Becomes(s, AI!Made(c, v))
  BY <1>a DEF CallsInv, CallsTyped, AI!Fetched, AI!Is
<1>1. v \in Settings /\ v \in SettingOrNone /\ Within(v, c.took) /\ c.kind # "route"
  BY <1>0, <1>a DEF CallFresh, SettingOrNone
<1>2. c.took \in Nat /\ FetchTicks \in Nat /\ c.took <= FetchTicks /\ FetchTicks < AI!Window /\ FetchTicks + 0 = FetchTicks
  BY <1>0, CallConstants DEF CallOf
<1>3. Within(v, FetchTicks)
  <2> HIDE DEF c
  <2> QED BY <1>1, <1>2, WithinGrows DEF CallsInv
<1>4. AI!InForce(c.kind, v)
  <2> HIDE DEF c
  <2> QED BY <1>1, <1>2, <1>3, WithinIsInForce DEF CallsInv
<1>5. AI!Made(c, v) \in CallOf /\ CallFresh(AI!Made(c, v))
  <2> HIDE DEF c
  <2> QED BY <1>0, <1>1, <1>4, MadeInTime
<1> HIDE DEF c
<1>6. cache' \in [setting : SettingOrNone, age : 0..CacheTicks] /\ cache'.setting = v /\ cache'.age = 0
  BY <1>0, <1>1, CallConstants
<1>7. CacheFresh'
  <2>1. Within(v, FetchTicks)'  BY <1>0, <1>3 DEF Within
  <2> QED BY <1>2, <1>6, <2>1 DEF CacheFresh, Within
<1> QED BY <1>0, <1>5, <1>6, <1>7, CallMoves

\* A call whose fetch failed is not judged by its setting.
LEMMA FetchFailsKeepsFresh ==
    ASSUME AI!AiCallsAssumption, CallsInv, NEW s \in Slots, AI!FetchFails(s)
    PROVE  CallsInv'
<1> DEFINE c == call[s]
           v == IF c.held = NoSetting THEN Default ELSE c.held
           new == [AI!Made(c, v) EXCEPT !.late = FALSE]
<1>1. c \in CallOf /\ AI!Becomes(s, new) /\ UNCHANGED <<setting, left, cache>>
  BY DEF CallsInv, CallsTyped, AI!FetchFails
<1>2. v \in Settings
  BY <1>1, CallConstants DEF CallOf, SettingOrNone
<1>3. new \in CallOf /\ CallFresh(new)
  <2> HIDE DEF c, v
  <2> QED BY <1>1, <1>2, MadeInTime
<1> HIDE DEF new
<1> QED BY <1>1, <1>3, CallMovesOn

\* The attempts of a call under way change nothing its freshness is about.
LEMMA AttemptsKeepFresh ==
    ASSUME AI!AiCallsAssumption, CallsInv, NEW s \in Slots,
           AI!Provides(s) \/ AI!ProviderFails(s) \/ AI!Failed(s) \/ AI!Retry(s) \/ AI!Deadline(s)
    PROVE  CallsInv'
<1> DEFINE c == call[s]
           underWay == {"calling", "waiting"}
<1>0. c \in CallOf /\ c.late = FALSE /\ c.pc \in underWay /\ UNCHANGED <<setting, left, cache>>
  BY DEF CallsInv, CallsTyped, CallFresh, AI!Is, AI!Provides, AI!ProviderFails, AI!Failed, AI!Retry, AI!Deadline
<1>1. ASSUME NEW new \in CallOf, AI!Becomes(s, new), new.late = FALSE, new.pc \in underWay \cup {"idle"} PROVE CallsInv'
  <2>1. CallFresh(new)  BY <1>1 DEF CallFresh
  <2> QED BY <1>0, <1>1, <2>1, CallMovesOn
<1>2. AI!Idle \in CallOf /\ AI!Idle.late = FALSE /\ AI!Idle.pc = "idle"
  BY CallConstants DEF AI!Idle, CallOf, SettingOrNone, AI!Kinds
<1>3. ASSUME AI!Becomes(s, AI!Idle) PROVE CallsInv'
  <2> HIDE DEF AI!Idle
  <2> QED BY <1>1, <1>2, <1>3
<1>4. CASE AI!Provides(s)  BY <1>3, <1>4 DEF AI!Provides
<1>5. CASE AI!ProviderFails(s)
  <2>1. PICK limited \in {FALSE, AI!Provider(s) \in Configured} :
            AI!Becomes(s, [c EXCEPT !.at = @ + 1, !.limited = limited])
    BY <1>5 DEF AI!ProviderFails
  <2>2. limited \in BOOLEAN
    <3>1. (AI!Provider(s) \in Configured) \in BOOLEAN  OBVIOUS
    <3> QED BY <3>1
  <2> DEFINE next == c.at + 1
             new == [c EXCEPT !.at = next, !.limited = limited]
  <2>4. next \in Nat  BY <1>0 DEF CallOf
  <2> HIDE DEF next
  <2>3. new \in CallOf /\ new.late = FALSE /\ new.pc = c.pc
    BY <1>0, <2>2, <2>4 DEF CallOf
  <2>5. AI!Becomes(s, new)  BY <2>1 DEF next
  <2> HIDE DEF new
  <2> QED BY <1>0, <1>1, <2>3, <2>5
<1>6. CASE AI!Failed(s)
  <2> DEFINE again == c.tries + 1
             new == [c EXCEPT !.pc = "waiting", !.at = 1, !.tries = again]
  <2>0. again \in Nat /\ 1 \in Nat  BY <1>0 DEF CallOf
  <2>1. AI!Becomes(s, new) \/ AI!Becomes(s, AI!Idle)
    BY <1>6 DEF AI!Failed
  <2> HIDE DEF again
  <2>2. new \in CallOf /\ new.late = FALSE /\ new.pc = "waiting"
    BY <1>0, <2>0 DEF CallOf
  <2> HIDE DEF new
  <2> QED BY <1>1, <1>3, <2>1, <2>2
<1>7. CASE AI!Retry(s)
  <2> DEFINE new == [c EXCEPT !.pc = "calling"]
  <2>1. AI!Becomes(s, new)  BY <1>7 DEF AI!Retry
  <2>2. new \in CallOf /\ new.late = FALSE /\ new.pc = "calling"
    BY <1>0 DEF CallOf
  <2> HIDE DEF new
  <2> QED BY <1>1, <2>1, <2>2
<1>8. CASE AI!Deadline(s)
  <2> DEFINE new == [c EXCEPT !.answered = TRUE]
  <2>1. AI!Becomes(s, new)  BY <1>8 DEF AI!Deadline
  <2>2. new \in CallOf /\ new.late = FALSE /\ new.pc = c.pc
    BY <1>0 DEF CallOf
  <2> HIDE DEF new
  <2> QED BY <1>0, <1>1, <2>1, <2>2
<1> QED BY <1>4, <1>5, <1>6, <1>7, <1>8

\* Every step of AiCalls keeps its invariant ...
LEMMA CallsStep ==
    ASSUME AI!AiCallsAssumption, CallsInv, Calls
    PROVE  CallsInv'
<1>1. ASSUME NEW s \in Slots, AI!Fetched(s) \/ AI!FetchFails(s)
      PROVE  CallsInv'
  BY <1>1, FetchedKeepsFresh, FetchFailsKeepsFresh
<1>2. ASSUME NEW s \in Slots, AI!AskRoute(s) \/ AI!ReadTeam(s) \/ AI!ReadGlobal(s)
      PROVE  CallsInv'
  BY <1>2, ReadKeepsFresh
<1>3. ASSUME NEW s \in Slots, AI!Provides(s) \/ AI!ProviderFails(s) \/ AI!Failed(s) \/ AI!Retry(s) \/ AI!Deadline(s)
      PROVE  CallsInv'
  BY <1>3, AttemptsKeepFresh
<1>4. ASSUME NEW s \in Slots, NEW kind \in AI!Kinds, AI!Ask(s, kind)
      PROVE  CallsInv'
  BY <1>4, AskKeepsFresh
<1>5. ASSUME NEW r \in AI!Rows, NEW v \in SettingOrNone, AI!Put(r, v)
      PROVE  CallsInv'
  BY <1>5, PutKeepsFresh
<1>6. CASE AI!Tick  BY <1>6, TickAges
<1> QED BY <1>1, <1>2, <1>3, <1>4, <1>5, <1>6 DEF Calls, Cal, SettingOrNone

\* ... which holds at first.
LEMMA CallsStart ==
    ASSUME AI!AiCallsAssumption, Init
    PROVE  CallsInv
<1>1. AI!AiCallsInit  BY DEF Init
<1>2. AI!Idle \in CallOf /\ AI!Idle.late = FALSE /\ AI!Idle.pc = "idle"
  BY CallConstants DEF AI!Idle, CallOf, SettingOrNone, AI!Kinds
<1>3. NoSetting \in SettingOrNone /\ AI!Window \in Nat /\ 0 \in 0..AI!Window /\ AI!Window \in 0..AI!Window /\ 0 \in 0..CacheTicks
  BY CallConstants DEF SettingOrNone
<1>4. /\ setting = [r \in AI!Rows |-> NoSetting]
      /\ left = [r \in AI!Rows |-> [v \in SettingOrNone |-> IF v = NoSetting THEN 0 ELSE AI!Window]]
      /\ cache = [setting |-> NoSetting, age |-> 0] /\ call = [s \in Slots |-> AI!Idle]
  BY <1>1 DEF AI!AiCallsInit, SettingOrNone, AI!Empty
<1> HIDE DEF AI!Idle
<1>5. CallsTyped /\ CacheFresh  BY <1>2, <1>3, <1>4 DEF CallsTyped, CacheFresh
<1>6. \A s \in Slots : CallFresh(call[s])  BY <1>2, <1>4 DEF CallFresh
<1>7. \A r \in AI!Rows : left[r][setting[r]] = 0  BY <1>3, <1>4
<1> QED BY <1>5, <1>6, <1>7 DEF CallsInv

\* Unless results-service could not be reached, a call to an AI provider is made with
\* a setting that was in force less than Window ago (AiCalls).
THEOREM FreshCorrect == Spec => []FreshSetting
<1>1. AI!AiCallsAssumption  BY Assumptions
<1>2. Init => (part = "calls" => CallsInv)  BY <1>1, CallsStart
<1>3. (part = "calls" => CallsInv) /\ [Next]_allvars => (part = "calls" => CallsInv)'
  <2> SUFFICES ASSUME part = "calls", CallsInv, [Next]_allvars PROVE CallsInv'  BY Frame
  <2>1. CASE Calls  BY <1>1, <2>1, CallsStep
  <2>2. CASE UNCHANGED aivars
    BY <2>2 DEF aivars, CallsInv, CallsTyped, CacheFresh, CallFresh, Within
  <2> QED BY <2>1, <2>2, Frame
<1>4. (part = "calls" => CallsInv) => FreshSetting
  BY DEF CallsInv, CallFresh, FreshSetting, AI!FreshSetting
<1> QED BY <1>2, <1>3, <1>4, PTL DEF Spec

-----------------------------------------------------------------------------
(* Migrations. *)

\* The places of one replica at a time are computed (SchemaAssumption).  What is
\* proved is that any number of replicas, ended anywhere, are never elsewhere:
\* they go by the lock, n migrations are recorded, and the next one has been
\* ended somewhere, or is at a statement of the replica that has the lock.
ReplicaOf == [pc : {"down", "connected", "locked", "migrating", "serving"}, todo : SUBSET MG!Versions, at : Nat]
SchemaAt(n) ==
    /\ n < Len(MG!MIGRATIONS) => MG!Place(n + 1, 1, schema) \in MG!Places
    /\ n = Len(MG!MIGRATIONS) => schema = MG!WholeSchema
MigratesAt(r, n) ==
    /\ replica[r].todo = (n + 1)..Len(MG!MIGRATIONS)
    /\ n < Len(MG!MIGRATIONS) => MG!Place(n + 1, replica[r].at, schema) \in MG!Places
InTurn(n) ==
    /\ replica \in [Replicas -> ReplicaOf]
    /\ n \in 0..Len(MG!MIGRATIONS)
    /\ applied \ {0} = 1..n
    /\ SchemaAt(n)
    /\ \A r \in Replicas :
          /\ replica[r].pc \in {"locked", "migrating"} => locked = r
          /\ replica[r].pc = "migrating" => MigratesAt(r, n)
          /\ replica[r].pc = "serving" => n = Len(MG!MIGRATIONS)

LEMMA MigrationCount == Len(MG!MIGRATIONS) \in Nat /\ 0 < Len(MG!MIGRATIONS)
<1>1. Len(MG!MIGRATIONS) = 18
  BY DEF MG!MIGRATIONS
<1> QED
  BY <1>1

LEMMA PlaceFollows ==
    ASSUME NEW v, NEW at, NEW db, MG!Place(v, at, db) \in MG!Places
    PROVE  /\ MG!Place(v, 1, db) \in MG!Places
           /\ at <= Len(MG!MIGRATIONS[v]) =>
                 /\ ~MG!Fails(db, MG!MIGRATIONS[v][at])
                 /\ MG!Place(v, at + 1, MG!Result(db, MG!MIGRATIONS[v][at])) \in MG!Places
           /\ at > Len(MG!MIGRATIONS[v]) =>
                 /\ v < Len(MG!MIGRATIONS) => MG!Place(v + 1, 1, db) \in MG!Places
                 /\ v = Len(MG!MIGRATIONS) => db = MG!WholeSchema
<1> DEFINE p == MG!Place(v, at, db)
<1>1. /\ MG!Further(p) \subseteq MG!Places
      /\ p.at <= Len(MG!MIGRATIONS[p.v]) => ~MG!Fails(p.db, MG!MIGRATIONS[p.v][p.at])
      /\ p.v = Len(MG!MIGRATIONS) /\ p.at > Len(MG!MIGRATIONS[p.v]) => p.db = MG!WholeSchema
  BY SchemaAssumption DEF MG!Replayable
<1>2. p.v = v /\ p.at = at /\ p.db = db
  BY DEF MG!Place
<1>3. MG!Place(v, 1, db) \in MG!Further(p)
  BY <1>2 DEF MG!Further
<1>4. at <= Len(MG!MIGRATIONS[v]) => MG!Place(v, at + 1, MG!Result(db, MG!MIGRATIONS[v][at])) \in MG!Further(p)
  BY <1>2 DEF MG!Further
<1>5. at > Len(MG!MIGRATIONS[v]) /\ v < Len(MG!MIGRATIONS) => MG!Place(v + 1, 1, db) \in MG!Further(p)
  BY <1>2 DEF MG!Further
<1> HIDE DEF p
<1> QED
  BY <1>1, <1>2, <1>3, <1>4, <1>5

\* Only the replica with the lock is at a migration: what it does to the schema
\* and to the versions is in turn for the others.
Turn(r, new, n) ==
    /\ replica' = [replica EXCEPT ![r] = new]
    /\ applied' \ {0} = applied \ {0} /\ schema' = schema
    /\ \/ locked' = locked
       \/ locked' = r /\ locked = Nobody
       \/ locked' = Nobody /\ locked = r
    /\ new.pc \in {"locked", "migrating"} => locked' = r
    /\ new.pc = "migrating" => MigratesAt(r, n)'
    /\ new.pc = "serving" => n = Len(MG!MIGRATIONS)

LEMMA TurnKept ==
    ASSUME NEW n \in Nat, InTurn(n), NEW r \in Replicas, NEW new \in ReplicaOf, Turn(r, new, n)
    PROVE  InTurn(n)'
<1> USE DEF Turn
<1>1. replica' \in [Replicas -> ReplicaOf]
  BY DEF InTurn
<1>2. SchemaAt(n)'
  BY DEF InTurn, SchemaAt
<1>3. ASSUME NEW q \in Replicas
      PROVE  /\ replica'[q].pc \in {"locked", "migrating"} => locked' = q
             /\ replica'[q].pc = "migrating" => MigratesAt(q, n)'
             /\ replica'[q].pc = "serving" => n = Len(MG!MIGRATIONS)
  <2>1. CASE q = r
    <3>1. replica'[q] = new
      BY <2>1 DEF InTurn
    <3> QED
      BY <2>1, <3>1
  <2>2. CASE q # r
    <3>1. replica'[q] = replica[q]
      BY <2>2 DEF InTurn
    <3>2. replica[q].pc \in {"locked", "migrating"} => locked = q /\ q # Nobody
      BY Assumptions DEF InTurn, MG!MigrationsAssumption
    <3> QED
      BY <2>2, <3>1, <3>2 DEF InTurn, MigratesAt
  <2> QED
    BY <2>1, <2>2
<1> QED
  BY <1>1, <1>2, <1>3 DEF InTurn

\* The first version that is to do.
LEMMA NextVersion ==
    ASSUME NEW n \in Nat, InTurn(n), NEW r \in Replicas, replica[r].pc = "migrating"
    PROVE  /\ replica[r].todo # {} <=> n < Len(MG!MIGRATIONS)
           /\ replica[r].todo # {} => MG!Version(r) = n + 1
<1>1. n \in Nat /\ Len(MG!MIGRATIONS) \in Nat /\ replica[r].todo = (n + 1)..Len(MG!MIGRATIONS)
  BY MigrationCount DEF InTurn, MigratesAt
<1>2. replica[r].todo # {} <=> n < Len(MG!MIGRATIONS)
  <2>1. CASE n < Len(MG!MIGRATIONS)
    <3>1. n + 1 \in (n + 1)..Len(MG!MIGRATIONS)
      BY <1>1, <2>1
    <3> QED
      BY <1>1, <2>1, <3>1
  <2>2. CASE ~(n < Len(MG!MIGRATIONS))
    <3>1. (n + 1)..Len(MG!MIGRATIONS) = {}
      BY <1>1, <2>2
    <3> QED
      BY <1>1, <2>2, <3>1
  <2> QED
    BY <2>1, <2>2
<1>3. ASSUME n < Len(MG!MIGRATIONS)
      PROVE  MG!Version(r) = n + 1
  <2> DEFINE T == replica[r].todo
             Best(v) == v \in T /\ \A w \in T : v <= w
  <2>1. T \subseteq Nat /\ n + 1 \in T /\ \A w \in T : n + 1 <= w
    BY <1>1, <1>3
  <2>2. Best(n + 1)
    BY <2>1
  <2>3. Best(MG!Version(r))
    BY <2>2 DEF MG!Version
  <2>4. MG!Version(r) \in Nat /\ MG!Version(r) <= n + 1 /\ n + 1 <= MG!Version(r)
    BY <2>1, <2>3
  <2> HIDE DEF T, Best
  <2> QED
    BY <1>1, <2>4
<1> QED
  BY <1>2, <1>3

LEMMA TodoChanges ==
    ASSUME NEW x \in ReplicaOf, NEW T \in SUBSET MG!Versions, NEW a \in Nat
    PROVE  [x EXCEPT !.todo = T, !.at = a] \in ReplicaOf
BY DEF ReplicaOf

LEMMA SchemaStep ==
    ASSUME NEW n \in Nat, InTurn(n), Schema
    PROVE  \E m \in Nat : InTurn(m)'
<1> DEFINE L == Len(MG!MIGRATIONS)
<1>0. L \in Nat /\ 0 < L /\ n <= L
  BY MigrationCount DEF InTurn
<1>a. PICK r \in Replicas :
          \/ MG!StartUp(r) \/ MG!Acquire(r) \/ MG!ReadApplied(r) \/ MG!Execute(r)
          \/ MG!Record(r) \/ MG!Unlock(r) \/ MG!End(r)
  BY DEF Schema, Sch
<1>b. replica[r] \in ReplicaOf /\ replica \in [Replicas -> ReplicaOf] /\ r # Nobody
  BY Assumptions DEF InTurn, MG!MigrationsAssumption
<1>1. CASE MG!StartUp(r)
  <2> DEFINE new == [pc |-> "connected", todo |-> {}, at |-> 1]
  <2>1. new \in ReplicaOf /\ new.pc = "connected"
    BY DEF ReplicaOf
  <2>2. replica' = [replica EXCEPT ![r] = new] /\ applied' \ {0} = applied \ {0} /\ UNCHANGED <<schema, locked>>
    BY <1>1 DEF MG!StartUp
  <2> HIDE DEF new
  <2>t. Turn(r, new, n)
    BY <2>1, <2>2 DEF Turn
  <2>3. InTurn(n)'
    BY <2>1, <2>t, TurnKept
  <2> QED
    BY <2>3
<1>2. CASE MG!Acquire(r)
  <2> DEFINE new == [replica[r] EXCEPT !.pc = "locked"]
  <2>1. new \in ReplicaOf /\ new.pc = "locked"
    BY <1>b DEF ReplicaOf
  <2>2. replica' = [replica EXCEPT ![r] = new] /\ locked' = r /\ locked = Nobody /\ UNCHANGED <<schema, applied>>
    BY <1>2 DEF MG!Acquire, MG!Goes
  <2> HIDE DEF new
  <2>t. Turn(r, new, n)
    BY <2>1, <2>2 DEF Turn
  <2>3. InTurn(n)'
    BY <2>1, <2>t, TurnKept
  <2> QED
    BY <2>3
<1>3. CASE MG!ReadApplied(r)
  <2> DEFINE new == [pc |-> "migrating", todo |-> MG!Versions \ applied, at |-> 1]
  <2>1. new \in ReplicaOf /\ new.pc = "migrating" /\ new.at = 1 /\ new.todo = MG!Versions \ applied
    BY DEF ReplicaOf
  <2>2. replica' = [replica EXCEPT ![r] = new] /\ UNCHANGED <<schema, applied, locked>>
    BY <1>3 DEF MG!ReadApplied
  <2>3. locked = r
    BY <1>3 DEF MG!ReadApplied, MG!MayRead, MG!At, InTurn
  <2>4. MG!Versions \ applied = (n + 1)..L
    <3>1. \A v \in 1..L : v \in applied <=> v \in 1..n
      BY <1>0 DEF InTurn
    <3> QED
      BY <1>0, <3>1 DEF MG!Versions
  <2> HIDE DEF new
  <2>5. MigratesAt(r, n)'
    <3>1. replica'[r] = new
      BY <1>b, <2>2
    <3> QED
      BY <2>1, <2>2, <2>4, <3>1 DEF MigratesAt, InTurn, SchemaAt
  <2>t. Turn(r, new, n)
    BY <2>1, <2>2, <2>3, <2>5 DEF Turn
  <2>6. InTurn(n)'
    BY <2>1, <2>t, TurnKept
  <2> QED
    BY <2>6
<1>6. CASE MG!Unlock(r)
  <2> DEFINE new == [replica[r] EXCEPT !.pc = "serving"]
  <2>1. new \in ReplicaOf /\ new.pc = "serving"
    BY <1>b DEF ReplicaOf
  <2>2. replica' = [replica EXCEPT ![r] = new] /\ UNCHANGED <<schema, applied>>
        /\ (locked' = locked \/ (locked' = Nobody /\ locked = r))
    BY <1>6 DEF MG!Unlock, MG!Goes
  <2>3. n = L
    BY <1>0, <1>6, NextVersion DEF MG!Unlock, MG!At
  <2> HIDE DEF new
  <2>t. Turn(r, new, n)
    BY <2>1, <2>2, <2>3 DEF Turn
  <2>4. InTurn(n)'
    BY <2>1, <2>t, TurnKept
  <2> QED
    BY <2>4
<1>7. CASE MG!End(r)
  <2> DEFINE new == [replica[r] EXCEPT !.pc = "down"]
  <2>1. new \in ReplicaOf /\ new.pc = "down"
    BY <1>b DEF ReplicaOf
  <2>2. replica' = [replica EXCEPT ![r] = new] /\ UNCHANGED <<schema, applied>>
        /\ (locked' = locked \/ (locked' = Nobody /\ locked = r))
    BY <1>7 DEF MG!End, MG!Goes
  <2> HIDE DEF new
  <2>t. Turn(r, new, n)
    BY <2>1, <2>2 DEF Turn
  <2>3. InTurn(n)'
    BY <2>1, <2>t, TurnKept
  <2> QED
    BY <2>3
<1>4. CASE MG!Execute(r)
  <2> DEFINE body == MG!MIGRATIONS[n + 1]
             at   == replica[r].at
             new  == [replica[r] EXCEPT !.at = at + 1]
  <2>1. replica[r].pc = "migrating" /\ replica[r].todo # {}
    BY <1>4 DEF MG!Execute, MG!At
  <2>2. n < L /\ MG!Body(r) = body
    BY <2>1, NextVersion DEF MG!Body
  <2>3. at <= Len(body) /\ UNCHANGED <<applied, locked>> /\ MG!At(r, "migrating")
    BY <1>4, <2>2 DEF MG!Execute
  <2>4. MG!Place(n + 1, at, schema) \in MG!Places /\ replica[r].todo = (n + 1)..L /\ locked = r
    BY <2>1, <2>2 DEF InTurn, MigratesAt
  <2>5. /\ ~MG!Fails(schema, body[at])
        /\ MG!Place(n + 1, at + 1, MG!Result(schema, body[at])) \in MG!Places
    BY <2>3, <2>4, PlaceFollows
  <2>6. schema' = MG!Result(schema, body[at]) /\ replica' = [replica EXCEPT ![r].at = @ + 1]
    BY <1>4, <2>2, <2>5 DEF MG!Execute
  <2>7. MG!Place(n + 1, 1, schema') \in MG!Places /\ MG!Place(n + 1, at + 1, schema') \in MG!Places
    BY <2>5, <2>6, PlaceFollows
  <2>8. /\ new \in ReplicaOf /\ new.pc = "migrating" /\ new.at = at + 1 /\ new.todo = (n + 1)..L
        /\ replica' = [replica EXCEPT ![r] = new]
    BY <1>b, <2>1, <2>4, <2>6 DEF ReplicaOf
  <2> HIDE DEF new, at, body
  <2>9. SchemaAt(n)'
    BY <1>0, <2>2, <2>7 DEF SchemaAt
  <2>10. ASSUME NEW q \in Replicas
         PROVE  /\ replica'[q].pc \in {"locked", "migrating"} => locked' = q
                /\ replica'[q].pc = "migrating" => MigratesAt(q, n)'
                /\ replica'[q].pc = "serving" => n = L
    <3>1. CASE q = r
      <4>1. replica'[q] = new
        BY <1>b, <2>8, <3>1
      <4> QED
        BY <2>3, <2>4, <2>7, <2>8, <3>1, <4>1 DEF MigratesAt
    <3>2. CASE q # r
      <4>1. replica'[q] = replica[q]
        BY <1>b, <2>8, <3>2
      <4>2. replica[q].pc \notin {"locked", "migrating"}
        BY <2>4, <3>2 DEF InTurn
      <4> QED
        BY <4>1, <4>2 DEF InTurn
    <3> QED
      BY <3>1, <3>2
  <2>11. replica' \in [Replicas -> ReplicaOf]
    BY <1>b, <2>8
  <2>12. InTurn(n)'
    BY <2>3, <2>9, <2>10, <2>11 DEF InTurn
  <2> QED
    BY <2>12
<1>5. CASE MG!Record(r)
  <2> DEFINE at  == replica[r].at
             new == [replica[r] EXCEPT !.todo = @ \ {n + 1}, !.at = 1]
  <2>1. replica[r].pc = "migrating" /\ replica[r].todo # {}
    BY <1>5 DEF MG!Record, MG!At
  <2>2. n < L /\ MG!Version(r) = n + 1
    BY <2>1, NextVersion
  <2>3. at > Len(MG!MIGRATIONS[n + 1]) /\ UNCHANGED <<schema, locked>>
    BY <1>5, <2>2 DEF MG!Record, MG!Body
  <2>4. MG!Place(n + 1, at, schema) \in MG!Places /\ replica[r].todo = (n + 1)..L /\ locked = r
    BY <2>1, <2>2 DEF InTurn, MigratesAt
  <2>5. n + 1 \notin applied
    <3>1. n + 1 \in applied => n + 1 \in 1..n
      BY <1>0 DEF InTurn
    <3> QED
      BY <1>0, <3>1
  <2>6. /\ applied' = applied \cup {n + 1}
        /\ replica' = [replica EXCEPT ![r].todo = @ \ {n + 1}, ![r].at = 1]
    BY <1>5, <2>2, <2>5 DEF MG!Record
  <2>7. /\ n + 1 < L => MG!Place(n + 1 + 1, 1, schema) \in MG!Places
        /\ n + 1 = L => schema = MG!WholeSchema
    BY <2>3, <2>4, PlaceFollows
  <2>8. applied' \ {0} = 1..(n + 1)
    <3>1. 1..(n + 1) = (1..n) \cup {n + 1} /\ n + 1 # 0
      BY <1>0
    <3> QED
      BY <2>6, <3>1 DEF InTurn
  <2>9. ((n + 1)..L) \ {n + 1} = (n + 1 + 1)..L
    BY <1>0
  <2>10. /\ new \in ReplicaOf /\ new.pc = "migrating" /\ new.at = 1 /\ new.todo = (n + 1 + 1)..L
         /\ replica' = [replica EXCEPT ![r] = new]
    <3>1. new.pc = "migrating" /\ new.at = 1 /\ new.todo = (n + 1 + 1)..L
      BY <1>b, <2>1, <2>4, <2>9 DEF ReplicaOf
    <3>2. new \in ReplicaOf
      <4>1. replica[r].todo \ {n + 1} \in SUBSET MG!Versions /\ 1 \in Nat
        BY <1>b DEF ReplicaOf
      <4> QED
        BY <1>b, <4>1, TodoChanges
    <3>3. replica' = [replica EXCEPT ![r] = new]
      BY <1>b, <2>6
    <3> QED
      BY <3>1, <3>2, <3>3
  <2> HIDE DEF new, at
  <2>11. SchemaAt(n + 1)'
    BY <2>3, <2>7 DEF SchemaAt
  <2>12. ASSUME NEW q \in Replicas
         PROVE  /\ replica'[q].pc \in {"locked", "migrating"} => locked' = q
                /\ replica'[q].pc = "migrating" => MigratesAt(q, n + 1)'
                /\ replica'[q].pc = "serving" => n + 1 = L
    <3>1. CASE q = r
      <4>1. replica'[q] = new
        BY <1>b, <2>10, <3>1
      <4> QED
        BY <2>3, <2>4, <2>7, <2>10, <3>1, <4>1 DEF MigratesAt
    <3>2. CASE q # r
      <4>1. replica'[q] = replica[q]
        BY <1>b, <2>10, <3>2
      <4>2. replica[q].pc \notin {"locked", "migrating"}
        BY <2>4, <3>2 DEF InTurn
      <4>3. replica[q].pc # "serving"
        BY <1>0, <2>2 DEF InTurn
      <4> QED
        BY <4>1, <4>2, <4>3
    <3> QED
      BY <3>1, <3>2
  <2>13. replica' \in [Replicas -> ReplicaOf] /\ n + 1 \in Nat /\ n + 1 \in 0..L
    BY <1>0, <1>b, <2>2, <2>10
  <2>14. InTurn(n + 1)'
    BY <2>8, <2>11, <2>12, <2>13 DEF InTurn
  <2> QED
    BY <2>13, <2>14
<1> QED
  BY <1>a, <1>1, <1>2, <1>3, <1>4, <1>5, <1>6, <1>7

LEMMA SchemaStarts ==
    ASSUME Init
    PROVE  InTurn(0)
<1>1. MG!SchemaInit
  BY DEF Init
<1>2. PICK old \in Legacy : schema = MG!OldSchema(old)
  BY <1>1 DEF MG!SchemaInit
<1>3. MG!Place(1, 1, schema) \in MG!Places
  BY <1>2, SchemaAssumption DEF MG!Replayable
<1>4. applied \ {0} = 1..0
  BY <1>1 DEF MG!SchemaInit
<1>5. SchemaAt(0)
  BY <1>3, MigrationCount DEF SchemaAt
<1>6. replica \in [Replicas -> ReplicaOf] /\ \A r \in Replicas : replica[r].pc = "down"
  BY <1>1 DEF MG!SchemaInit, ReplicaOf
<1> QED
  BY <1>4, <1>5, <1>6, MigrationCount DEF InTurn

SchemaInv == part = "schema" => \E n \in Nat : InTurn(n)

\* However many replicas start together and wherever they are ended, no statement
\* of the migrations fails and none serves without the whole schema: each reads
\* the versions when it has the lock, so they are never elsewhere than one of
\* them alone could be, and there no statement fails (createSchema in db.ts).
THEOREM SchemaCorrect == Spec => []StartsAndServes
<1>1. Init => SchemaInv
  BY SchemaStarts DEF SchemaInv
<1>2. SchemaInv /\ [Next]_allvars => SchemaInv'
  <2> SUFFICES ASSUME SchemaInv, [Next]_allvars, part = "schema"
               PROVE  \E m \in Nat : InTurn(m)'
    BY Frame DEF SchemaInv
  <2>1. PICK n \in Nat : InTurn(n)
    BY DEF SchemaInv
  <2>2. CASE Schema
    BY <2>1, <2>2, SchemaStep
  <2>3. CASE UNCHANGED mgvars
    BY <2>1, <2>3 DEF mgvars, InTurn, SchemaAt, MigratesAt
  <2> QED
    BY <2>2, <2>3, Frame
<1>3. SchemaInv => StartsAndServes
  <2> SUFFICES ASSUME SchemaInv, part = "schema", NEW r \in Replicas
               PROVE  /\ replica[r].pc # "broken"
                      /\ replica[r].pc = "serving" => schema = MG!WholeSchema /\ MG!Versions \subseteq applied
    BY DEF StartsAndServes, MG!StartsAndServes, MG!At
  <2>1. PICK n \in Nat : InTurn(n)
    BY DEF SchemaInv
  <2>2. replica[r].pc # "broken"
    BY <2>1 DEF InTurn, ReplicaOf
  <2>3. CASE replica[r].pc = "serving"
    <3>1. n = Len(MG!MIGRATIONS)
      BY <2>1, <2>3 DEF InTurn
    <3>2. schema = MG!WholeSchema /\ applied \ {0} = MG!Versions
      BY <2>1, <3>1 DEF InTurn, SchemaAt, MG!Versions
    <3> QED
      BY <2>2, <3>2
  <2> QED
    BY <2>2, <2>3
<1> QED
  BY <1>1, <1>2, <1>3, PTL DEF Spec

-----------------------------------------------------------------------------
(* LoadPlan: sums. *)

\* The cardinality that LoadPlan instantiates is that of the library's theorems.
LEMMA PlanCounts ==
    ASSUME NEW S
    PROVE  LP!Cardinality(S) = Cardinality(S)
BY DEF LP!Cardinality, Cardinality

\* Of sets of subsets of a finite set, some member has no member inside it.
LEMMA Smallest ==
    ASSUME NEW S, IsFiniteSet(S), NEW B \in SUBSET (SUBSET S), B # {}
    PROVE  \E s \in B : \A t \in B : t \subseteq s => t = s
<1>1. IsWellFoundedOn(StrictSubsetOrdering(S), FiniteSubsetsOf(S))
  BY FS_StrictSubsetOrderingWellFounded
<1>2. B \subseteq FiniteSubsetsOf(S)  BY FS_Subset DEF FiniteSubsetsOf
<1>3. PICK s \in B : \A t \in B : <<t, s>> \notin StrictSubsetOrdering(S)  BY <1>1, <1>2, WFMin
<1>4. ASSUME NEW t \in B, t \subseteq s PROVE t = s
  <2>1. t \subseteq S /\ s \subseteq S  OBVIOUS
  <2> QED BY <1>3, <1>4, <2>1 DEF StrictSubsetOrdering
<1> QED BY <1>4

\* What a sum counts: the units of the members of S.
Units(f, S) == {u \in S \X Nat : u[2] \in 1..f[u[1]]}
Sum(f, S) == Cardinality(Units(f, S))
Summable(f, S) == IsFiniteSet(S) /\ \A x \in S : f[x] \in Nat

LEMMA UnitsOfOne ==
    ASSUME NEW f, NEW x, f[x] \in Nat
    PROVE  /\ IsFiniteSet({x} \X (1..f[x])) /\ Cardinality({x} \X (1..f[x])) = f[x]
<1>1. IsFiniteSet({x}) /\ Cardinality({x}) = 1  BY FS_Singleton
<1>2. IsFiniteSet(1..f[x]) /\ Cardinality(1..f[x]) = f[x]
  <2>1. 0 <= f[x]  OBVIOUS
  <2> QED BY <2>1, FS_Interval
<1> DEFINE X == {x}
           N == 1..f[x]
<1> HIDE DEF X, N
<1>3. IsFiniteSet(X) /\ IsFiniteSet(N)  BY <1>1, <1>2 DEF X, N
<1>4. IsFiniteSet(X \X N) /\ Cardinality(X \X N) = Cardinality(X) * Cardinality(N)  BY <1>3, FS_Product
<1>5. Cardinality(X) = 1 /\ Cardinality(N) = f[x]  BY <1>1, <1>2 DEF X, N
<1>6. 1 * f[x] = f[x]  OBVIOUS
<1> QED BY <1>4, <1>5, <1>6 DEF X, N

LEMMA UnitsOfMore ==
    ASSUME NEW f, NEW S, NEW x \in S, f[x] \in Nat
    PROVE  /\ Units(f, S) = Units(f, S \ {x}) \cup ({x} \X (1..f[x]))
           /\ Units(f, S \ {x}) \cap ({x} \X (1..f[x])) = {}
<1>1. \A u \in {x} \X (1..f[x]) : u \in Units(f, S) /\ u \notin Units(f, S \ {x})  BY DEF Units
<1>2. \A u \in Units(f, S) : u \in Units(f, S \ {x}) \/ u \in {x} \X (1..f[x])
  <2> TAKE u \in Units(f, S)
  <2>1. PICK y \in S, n \in Nat : u = <<y, n>> /\ n \in 1..f[y]  BY DEF Units
  <2> QED BY <2>1 DEF Units
<1>3. Units(f, S \ {x}) \subseteq Units(f, S)  BY DEF Units
<1> QED BY <1>1, <1>2, <1>3

LEMMA UnitsFinite ==
    ASSUME NEW f, NEW S, Summable(f, S)
    PROVE  IsFiniteSet(Units(f, S))
<1> DEFINE B == {s \in SUBSET S : ~IsFiniteSet(Units(f, s))}
<1>1. B = {}
  <2> SUFFICES ASSUME B # {} PROVE FALSE  OBVIOUS
  <2>1. PICK s \in B : \A t \in B : t \subseteq s => t = s
    <3>1. IsFiniteSet(S) /\ B \in SUBSET (SUBSET S)  BY DEF Summable
    <3> HIDE DEF B
    <3> QED BY <3>1, Smallest
  <2>2. s \subseteq S /\ ~IsFiniteSet(Units(f, s))  OBVIOUS
  <2>3. CASE s = {}
    <3>1. Units(f, s) = {}  BY <2>3 DEF Units
    <3> QED BY <2>2, <3>1, FS_EmptySet
  <2>4. CASE s # {}
    <3>1. PICK x \in s : TRUE  BY <2>4
    <3>2. s \ {x} \subseteq s /\ s \ {x} # s /\ s \ {x} \subseteq S  BY <2>2, <3>1
    <3>3. s \ {x} \notin B  BY <2>1, <3>2
    <3>4. IsFiniteSet(Units(f, s \ {x}))  BY <3>2, <3>3
    <3>5. f[x] \in Nat  BY <2>2 DEF Summable
    <3>6. IsFiniteSet(Units(f, s \ {x}) \cup ({x} \X (1..f[x])))  BY <3>4, <3>5, UnitsOfOne, FS_Union
    <3> QED BY <2>2, <3>5, <3>6, UnitsOfMore
  <2> QED BY <2>3, <2>4
<1>2. S \notin B  BY <1>1
<1> QED BY <1>2

\* The laws of sums.
LEMMA SumEmpty == ASSUME NEW f PROVE Sum(f, {}) = 0
<1>1. Units(f, {}) = {}  BY DEF Units
<1> QED BY <1>1, FS_EmptySet DEF Sum
LEMMA SumType == ASSUME NEW f, NEW S, Summable(f, S) PROVE Sum(f, S) \in Nat
BY UnitsFinite, FS_CardinalityType DEF Sum
LEMMA SumOut ==
    ASSUME NEW f, NEW S, Summable(f, S), NEW x \in S
    PROVE  Sum(f, S) = f[x] + Sum(f, S \ {x}) /\ Summable(f, S \ {x})
<1>1. f[x] \in Nat /\ Summable(f, S \ {x})
  <2>1. IsFiniteSet(S \ {x})  BY FS_Subset DEF Summable
  <2> QED BY <2>1 DEF Summable
<1>2. IsFiniteSet(Units(f, S \ {x})) /\ Cardinality(Units(f, S \ {x})) \in Nat
  BY <1>1, UnitsFinite, FS_CardinalityType
<1> DEFINE A == Units(f, S \ {x})
           C == {x} \X (1..f[x])
<1>3. IsFiniteSet(C) /\ Cardinality(C) = f[x]  BY <1>1, UnitsOfOne
<1>4. Units(f, S) = A \cup C /\ A \cap C = {}  BY <1>1, UnitsOfMore
<1>5. IsFiniteSet(A) /\ Cardinality(A) \in Nat  BY <1>2
<1> HIDE DEF A, C
<1>6. Cardinality(A \cup C) = Cardinality(A) + Cardinality(C) - Cardinality(A \cap C)
  BY <1>3, <1>5, FS_Union
<1>7. Cardinality(A \cap C) = 0  BY <1>4, FS_EmptySet
<1>8. Cardinality(A \cup C) = f[x] + Cardinality(A)  BY <1>1, <1>3, <1>5, <1>6, <1>7
<1> QED BY <1>1, <1>4, <1>8 DEF A, Sum

\* Sums of the same numbers are the same.
LEMMA SumSame ==
    ASSUME NEW f, NEW g, NEW S, \A x \in S : f[x] = g[x]
    PROVE  Sum(f, S) = Sum(g, S)
<1>1. Units(f, S) = Units(g, S)
  <2>1. \A u \in S \X Nat : f[u[1]] = g[u[1]]  OBVIOUS
  <2> QED BY <2>1 DEF Units
<1> QED BY <1>1 DEF Sum

LEMMA SumOfUsed ==
    ASSUME NEW f, NEW S, Summable(f, S)
    PROVE  Sum(f, S) = Sum(f, {x \in S : f[x] > 0})
<1> DEFINE T == {x \in S : f[x] > 0}
<1>1. \A u \in Units(f, S) : u \in Units(f, T)
  <2> TAKE u \in Units(f, S)
  <2>1. PICK x \in S, n \in Nat : u = <<x, n>> /\ n \in 1..f[x]  BY DEF Units
  <2>2. f[x] > 0 /\ x \in T
    <3>1. f[x] \in Nat  BY DEF Summable
    <3> QED BY <2>1, <3>1
  <2> HIDE DEF T
  <2> QED BY <2>1, <2>2 DEF Units
<1>2. Units(f, T) \subseteq Units(f, S)  BY DEF Units
<1>3. Units(f, S) = Units(f, T)  BY <1>1, <1>2
<1> QED BY <1>3 DEF Sum

\* A sum is linear.
LEMMA SumLinear ==
    ASSUME NEW f, NEW g, NEW h, NEW S, NEW c \in Nat, Summable(f, S), Summable(g, S), Summable(h, S),
           \A x \in S : f[x] = c * g[x] + h[x]
    PROVE  Sum(f, S) = c * Sum(g, S) + Sum(h, S)
<1> DEFINE B == {s \in SUBSET S : Sum(f, s) # c * Sum(g, s) + Sum(h, s)}
<1>1. B = {}
  <2> SUFFICES ASSUME B # {} PROVE FALSE  OBVIOUS
  <2>1. PICK s \in B : \A t \in B : t \subseteq s => t = s
    <3>1. IsFiniteSet(S) /\ B \in SUBSET (SUBSET S)  BY DEF Summable
    <3> HIDE DEF B
    <3> QED BY <3>1, Smallest
  <2>2. s \subseteq S /\ Sum(f, s) # c * Sum(g, s) + Sum(h, s)  OBVIOUS
  <2>3. CASE s = {}
    <3>1. Sum(f, s) = 0 /\ Sum(g, s) = 0 /\ Sum(h, s) = 0  BY <2>3, SumEmpty
    <3> QED BY <2>2, <3>1
  <2>4. CASE s # {}
    <3>1. PICK x \in s : TRUE  BY <2>4
    <3> DEFINE t == s \ {x}
    <3>2. t \subseteq s /\ t # s /\ t \subseteq S  BY <2>2, <3>1
    <3>3. Summable(f, s) /\ Summable(g, s) /\ Summable(h, s)
      <4>1. IsFiniteSet(s)  BY <2>2, FS_Subset DEF Summable
      <4> QED BY <2>2, <4>1 DEF Summable
    <3>4. /\ Sum(f, s) = f[x] + Sum(f, t) /\ Sum(g, s) = g[x] + Sum(g, t) /\ Sum(h, s) = h[x] + Sum(h, t)
          /\ Summable(f, t) /\ Summable(g, t) /\ Summable(h, t)
      BY <3>3, SumOut
    <3>5. Sum(f, t) \in Nat /\ Sum(g, t) \in Nat /\ Sum(h, t) \in Nat  BY <3>4, SumType
    <3>6. f[x] \in Nat /\ g[x] \in Nat /\ h[x] \in Nat /\ f[x] = c * g[x] + h[x]
      BY <2>2 DEF Summable
    <3>7. Sum(f, t) = c * Sum(g, t) + Sum(h, t)
      <4>1. t \notin B  BY <2>1, <3>2
      <4> HIDE DEF t
      <4> QED BY <3>2, <4>1
    <3>8. c * (g[x] + Sum(g, t)) = c * g[x] + c * Sum(g, t)
      <4> DEFINE p == g[x]
                 q == Sum(g, t)
      <4>1. p \in Nat /\ q \in Nat  BY <3>5, <3>6
      <4> HIDE DEF p, q
      <4>2. c * (p + q) = c * p + c * q  BY <4>1
      <4> QED BY <4>2 DEF p, q
    <3>9. c * g[x] \in Nat /\ c * Sum(g, t) \in Nat  BY <3>5, <3>6
    <3> HIDE DEF t
    <3> QED BY <2>2, <3>4, <3>5, <3>6, <3>7, <3>8, <3>9
  <2> QED BY <2>3, <2>4
<1>2. S \notin B  BY <1>1
<1> QED BY <1>2

\* A sum of ones counts them.
LEMMA SumOfOnes ==
    ASSUME NEW f, NEW S, IsFiniteSet(S), \A x \in S : f[x] \in {0, 1}
    PROVE  Sum(f, S) = Cardinality({x \in S : f[x] = 1})
<1> DEFINE T == {x \in S : f[x] = 1}
<1>1. Summable(f, S)  BY DEF Summable
<1>2. Units(f, S) = T \X {1}
  <2>1. \A u \in Units(f, S) : u \in T \X {1}
    <3> TAKE u \in Units(f, S)
    <3>1. PICK x \in S, n \in Nat : u = <<x, n>> /\ n \in 1..f[x]  BY DEF Units
    <3>2. f[x] = 1 /\ n = 1  BY <3>1
    <3> QED BY <3>1, <3>2
  <2>2. \A u \in T \X {1} : u \in Units(f, S)
    <3> TAKE u \in T \X {1}
    <3>1. PICK x \in T : u = <<x, 1>>  OBVIOUS
    <3>2. x \in S /\ 1 \in 1..f[x]  OBVIOUS
    <3> QED BY <3>1, <3>2 DEF Units
  <2> QED BY <2>1, <2>2
<1>3. IsFiniteSet(T) /\ Cardinality(T) \in Nat
  <2>1. IsFiniteSet(T)  BY FS_Subset
  <2> QED BY <2>1, FS_CardinalityType
<1> HIDE DEF T
<1>4. IsFiniteSet({1}) /\ Cardinality({1}) = 1  BY FS_Singleton
<1>5. Cardinality(T \X {1}) = Cardinality(T) * 1  BY <1>3, <1>4, FS_Product
<1> QED BY <1>2, <1>3, <1>5 DEF Sum, T

LEMMA SumGrows ==
    ASSUME NEW f, NEW g, NEW S, Summable(f, S), Summable(g, S), NEW T \in SUBSET S, \A x \in T : f[x] <= g[x]
    PROVE  Sum(f, T) <= Sum(g, S)
<1>1. Units(f, T) \subseteq Units(g, S)
  <2> SUFFICES ASSUME NEW u \in Units(f, T) PROVE u \in Units(g, S)  OBVIOUS
  <2>1. PICK x \in T, n \in Nat : u = <<x, n>> /\ n \in 1..f[x]  BY DEF Units
  <2>2. f[x] \in Nat /\ g[x] \in Nat /\ f[x] <= g[x]  BY DEF Summable
  <2>3. n \in 1..g[x]  BY <2>1, <2>2
  <2> QED BY <2>1, <2>3 DEF Units
<1>2. IsFiniteSet(Units(g, S)) /\ Cardinality(Units(g, S)) \in Nat  BY UnitsFinite, FS_CardinalityType
<1> QED BY <1>1, <1>2, FS_Subset DEF Sum

LEMMA SumOfOne ==
    ASSUME NEW f, NEW x, f[x] \in Nat
    PROVE  Sum(f, {x}) = f[x]
<1>1. IsFiniteSet({x})  BY FS_Singleton
<1>2. Summable(f, {x})  BY <1>1 DEF Summable
<1>3. Sum(f, {x}) = f[x] + Sum(f, {x} \ {x})  BY <1>2, SumOut
<1>4. {x} \ {x} = {}  OBVIOUS
<1> QED BY <1>3, <1>4, SumEmpty

\* A constant is added as often as there are members.
LEMMA SumOfMany ==
    ASSUME NEW S, IsFiniteSet(S), NEW c \in Nat
    PROVE  Sum([x \in S |-> c], S) = c * Cardinality(S)
<1> DEFINE f == [x \in S |-> c]
<1>1. Units(f, S) = S \X (1..c)
  <2>1. \A u \in S \X Nat : f[u[1]] = c  OBVIOUS
  <2>2. Units(f, S) = {u \in S \X Nat : u[2] \in 1..c}
    <3> HIDE DEF f
    <3> QED BY <2>1 DEF Units
  <2>3. {u \in S \X Nat : u[2] \in 1..c} = S \X (1..c)
    <3>1. \A n \in 1..c : n \in Nat  OBVIOUS
    <3> QED BY <3>1
  <2> QED BY <2>2, <2>3
<1>2. IsFiniteSet(1..c) /\ Cardinality(1..c) = c
  <2>1. 0 <= c  OBVIOUS
  <2> QED BY <2>1, FS_Interval
<1>3. Cardinality(S \X (1..c)) = Cardinality(S) * c  BY <1>2, FS_Product
<1>4. Cardinality(S) \in Nat  BY FS_CardinalityType
<1>5. Cardinality(S) * c = c * Cardinality(S)  BY <1>4
<1> QED BY <1>1, <1>3, <1>5 DEF Sum

\* What the fold computes step by step.
Folded(f, S, g) ==
    \A s \in SUBSET S : g[s] = IF s = {} THEN 0 ELSE f[CHOOSE x \in s : TRUE] + g[s \ {CHOOSE x \in s : TRUE}]

\* If there is such a function, the fold is one.
LEMMA FoldIs ==
    ASSUME NEW f, NEW S, NEW h, h = [s \in SUBSET S |-> h[s]], Folded(f, S, h)
    PROVE  \E g : Folded(f, S, g) /\ LP!SumFunctionOnSet(f, S) = g[S]
<1> DEFINE F(g) == [s \in SUBSET S |-> IF s = {} THEN 0
                        ELSE f[CHOOSE x \in s : TRUE] + g[s \ {CHOOSE x \in s : TRUE}]]
           g == CHOOSE x : x = F(x)
<1>1. h = F(h)  BY DEF Folded
<1>2. g = F(g)
  <2> HIDE DEF F
  <2> QED BY <1>1
<1>3. LP!SumFunctionOnSet(f, S) = g[S]
  BY DEF LP!SumFunctionOnSet, LP!FoldFunctionOnSet, LP!MapThenFoldSet
<1> HIDE DEF g
<1>4. Folded(f, S, g)
  <2> DEFINE k == F(g)
  <2>1. \A s \in SUBSET S : k[s] = IF s = {} THEN 0
                        ELSE f[CHOOSE x \in s : TRUE] + g[s \ {CHOOSE x \in s : TRUE}]
    OBVIOUS
  <2>2. k = g  BY <1>2
  <2> HIDE DEF k
  <2> QED BY <2>1, <2>2 DEF Folded
<1> QED BY <1>3, <1>4

\* The sum of the community modules is this one.
LEMMA SumIs ==
    ASSUME NEW f, NEW S, Summable(f, S)
    PROVE  LP!SumFunctionOnSet(f, S) = Sum(f, S)
<1> DEFINE h == [s \in SUBSET S |-> Sum(f, s)]
<1>1. Folded(f, S, h)
  <2> SUFFICES ASSUME NEW s \in SUBSET S
               PROVE  h[s] = IF s = {} THEN 0 ELSE f[CHOOSE x \in s : TRUE] + h[s \ {CHOOSE x \in s : TRUE}]
    BY DEF Folded
  <2>1. CASE s = {}  BY <2>1, SumEmpty
  <2>2. CASE s # {}
    <3> DEFINE x == CHOOSE x \in s : TRUE
    <3>1. x \in s  BY <2>2
    <3>2. Summable(f, s)
      <4>1. IsFiniteSet(s)  BY FS_Subset DEF Summable
      <4> QED BY <4>1 DEF Summable
    <3>3. Sum(f, s) = f[x] + Sum(f, s \ {x})  
      <4> HIDE DEF x
      <4> QED BY <3>1, <3>2, SumOut
    <3>4. s \ {x} \in SUBSET S  OBVIOUS
    <3> QED BY <2>2, <3>3, <3>4
  <2> QED BY <2>1, <2>2
<1>2. PICK g : Folded(f, S, g) /\ LP!SumFunctionOnSet(f, S) = g[S]
  <2>1. h = [s \in SUBSET S |-> h[s]]  OBVIOUS
  <2> HIDE DEF h
  <2> QED BY <1>1, <2>1, FoldIs
<1> DEFINE B == {s \in SUBSET S : g[s] # Sum(f, s)}
<1>3. B = {}
  <2> SUFFICES ASSUME B # {} PROVE FALSE  OBVIOUS
  <2>1. PICK s \in B : \A t \in B : t \subseteq s => t = s
    <3>1. IsFiniteSet(S) /\ B \in SUBSET (SUBSET S)  BY DEF Summable
    <3> HIDE DEF B
    <3> QED BY <3>1, Smallest
  <2>2. s \subseteq S /\ g[s] # Sum(f, s)  OBVIOUS
  <2> DEFINE x == CHOOSE x \in s : TRUE
  <2>3. g[s] = IF s = {} THEN 0 ELSE f[x] + g[s \ {x}]
    BY <1>2, <2>2 DEF Folded
  <2>4. CASE s = {}  BY <2>2, <2>3, <2>4, SumEmpty
  <2>5. CASE s # {}
    <3>1. x \in s  BY <2>5
    <3> HIDE DEF x
    <3>2. s \ {x} \subseteq s /\ s \ {x} # s /\ s \ {x} \in SUBSET S  BY <2>2, <3>1
    <3>3. g[s \ {x}] = Sum(f, s \ {x})
      <4>1. s \ {x} \notin B  BY <2>1, <3>2
      <4> QED BY <3>2, <4>1
    <3>4. Summable(f, s)
      <4>1. IsFiniteSet(s)  BY <2>2, FS_Subset DEF Summable
      <4> QED BY <2>2, <4>1 DEF Summable
    <3>5. Sum(f, s) = f[x] + Sum(f, s \ {x})  BY <3>1, <3>4, SumOut
    <3> QED BY <2>2, <2>3, <2>5, <3>3, <3>5
  <2> QED BY <2>4, <2>5
<1>4. S \notin B  BY <1>3
<1> QED BY <1>2, <1>4

\* Members of a finite set in a strict order, of each the set A of those ahead of it:
\* fewer than r are ahead of exactly r.
Ordered(A, D) ==
    /\ IsFiniteSet(D) /\ A \in [D -> SUBSET D]
    /\ \A i \in D : i \notin A[i]
    /\ \A i, j \in D : i # j => i \in A[j] \/ j \in A[i]
    /\ \A i, j \in D : i \in A[j] => A[i] \subseteq A[j]
Leading(A, D, r) == {i \in D : Cardinality(A[i]) < r}

LEMMA AheadFinite ==
    ASSUME NEW A, NEW D, Ordered(A, D), NEW i \in D
    PROVE  IsFiniteSet(A[i]) /\ Cardinality(A[i]) \in Nat
<1>1. IsFiniteSet(A[i])  BY FS_Subset DEF Ordered
<1> QED BY <1>1, FS_CardinalityType

\* No two have as many ahead.
LEMMA RanksDiffer ==
    ASSUME NEW A, NEW D, Ordered(A, D), NEW i \in D, NEW j \in D, i \in A[j]
    PROVE  Cardinality(A[i]) < Cardinality(A[j])
<1>1. IsFiniteSet(A[i]) /\ IsFiniteSet(A[j]) /\ Cardinality(A[i]) \in Nat /\ Cardinality(A[j]) \in Nat
  BY AheadFinite
<1>2. A[i] \subseteq A[j] /\ i \in A[j] /\ i \notin A[i]  BY DEF Ordered
<1>3. A[i] \cup {i} \subseteq A[j]  BY <1>2
<1>4. Cardinality(A[i] \cup {i}) = Cardinality(A[i]) + 1  BY <1>1, <1>2, FS_AddElement
<1>5. Cardinality(A[i] \cup {i}) <= Cardinality(A[j])  BY <1>1, <1>3, FS_Subset
<1> QED BY <1>1, <1>4, <1>5

\* One more leads: it has the others, and no more, ahead of it.
LEMMA NextLeads ==
    ASSUME NEW A, NEW D, Ordered(A, D), NEW r \in Nat, r < Cardinality(D), Cardinality(Leading(A, D, r)) = r
    PROVE  Cardinality(Leading(A, D, r + 1)) = r + 1
<1> DEFINE L == Leading(A, D, r)
           U == D \ L
<1>0. L \subseteq D /\ IsFiniteSet(D) /\ Cardinality(D) \in Nat /\ A \in [D -> SUBSET D]
  BY FS_CardinalityType DEF Leading, Ordered
<1>1. IsFiniteSet(L) /\ Cardinality(L) = r  BY <1>0, FS_Subset
<1>2. U # {}
  <2> SUFFICES ASSUME U = {} PROVE FALSE  OBVIOUS
  <2>1. L = D  BY <1>0
  <2> QED BY <1>0, <1>1, <2>1
<1> DEFINE B == {A[i] : i \in U}
<1>3. PICK b \in B : \A t \in B : t \subseteq b => t = b
  <2>1. B \in SUBSET (SUBSET D) /\ B # {}  BY <1>0, <1>2
  <2> HIDE DEF B
  <2> QED BY <1>0, <2>1, Smallest
<1>4. PICK m \in U : b = A[m]  BY <1>3
<1>5. m \in D /\ m \notin L  OBVIOUS
<1>6. A[m] \subseteq L
  <2> SUFFICES ASSUME NEW i \in A[m], i \notin L PROVE FALSE  OBVIOUS
  <2>1. i \in D /\ i \in U  BY <1>0, <1>5
  <2>2. A[i] \subseteq A[m] /\ i \notin A[i]  BY <1>5, <2>1 DEF Ordered
  <2>3. A[i] \in B  BY <2>1
  <2> HIDE DEF B
  <2>4. A[i] = A[m]  BY <1>3, <1>4, <2>2, <2>3
  <2> QED BY <2>2, <2>4
<1>7. Cardinality(A[m]) = r
  <2>1. Cardinality(A[m]) \in Nat  BY <1>5, AheadFinite
  <2>2. Cardinality(A[m]) <= r  BY <1>1, <1>6, FS_Subset
  <2>3. ~(Cardinality(A[m]) < r)  BY <1>5 DEF Leading
  <2> QED BY <2>1, <2>2, <2>3
<1>8. Leading(A, D, r + 1) = L \cup {m}
  <2>1. ASSUME NEW i \in D, Cardinality(A[i]) < r + 1, i \notin L PROVE i = m
    <3>1. Cardinality(A[i]) \in Nat  BY AheadFinite
    <3>2. ~(Cardinality(A[i]) < r)  BY <2>1 DEF Leading
    <3>3. Cardinality(A[i]) = r  BY <2>1, <3>1, <3>2
    <3> SUFFICES ASSUME i # m PROVE FALSE  OBVIOUS
    <3>4. i \in A[m] \/ m \in A[i]  BY <1>5, <2>1 DEF Ordered
    <3>5. Cardinality(A[i]) < Cardinality(A[m]) \/ Cardinality(A[m]) < Cardinality(A[i])
      BY <1>5, <2>1, <3>4, RanksDiffer
    <3> QED BY <1>7, <3>3, <3>5
  <2>2. ASSUME NEW i \in L PROVE i \in D /\ Cardinality(A[i]) < r + 1
    <3>1. i \in D /\ Cardinality(A[i]) < r  BY <1>0, <2>2 DEF Leading
    <3>2. Cardinality(A[i]) \in Nat  BY <3>1, AheadFinite
    <3> QED BY <3>1, <3>2
  <2>3. Cardinality(A[m]) < r + 1  BY <1>7
  <2>4. Leading(A, D, r + 1) = {i \in D : Cardinality(A[i]) < r + 1}  BY DEF Leading
  <2> HIDE DEF L
  <2> QED BY <1>5, <2>1, <2>2, <2>3, <2>4
<1>9. Cardinality(L \cup {m}) = Cardinality(L) + 1
  <2> HIDE DEF L
  <2> QED BY <1>1, <1>5, FS_AddElement
<1> QED BY <1>1, <1>8, <1>9

LEMMA SoManyLead ==
    ASSUME NEW A, NEW D, Ordered(A, D), NEW r \in Nat, r <= Cardinality(D)
    PROVE  Cardinality(Leading(A, D, r)) = r
<1>0. Cardinality(D) \in Nat  BY FS_CardinalityType DEF Ordered
<1> DEFINE S == {n \in 0..r : Cardinality(Leading(A, D, n)) # n}
<1>1. S = {}
  <2> SUFFICES ASSUME S # {} PROVE FALSE  OBVIOUS
  <2>1. PICK n \in S : \A k \in S : ~(<<k, n>> \in OpToRel(<, Nat))
    <3>1. S \in SUBSET Nat  OBVIOUS
    <3> HIDE DEF S
    <3> QED BY <3>1, NatLessThanWellFounded, WFMin
  <2>2. n \in 0..r /\ n \in Nat /\ Cardinality(Leading(A, D, n)) # n  OBVIOUS
  <2>3. CASE n = 0
    <3>1. Leading(A, D, 0) = {}
      <4>1. \A i \in D : ~(Cardinality(A[i]) < 0)
        <5> TAKE i \in D
        <5>1. Cardinality(A[i]) \in Nat  BY AheadFinite
        <5> QED BY <5>1
      <4> QED BY <4>1 DEF Leading
    <3> QED BY <2>2, <2>3, <3>1, FS_EmptySet
  <2>4. CASE n # 0
    <3>1. n - 1 \in Nat /\ n - 1 \in 0..r /\ n - 1 < n /\ (n - 1) + 1 = n /\ n - 1 < Cardinality(D)
      BY <1>0, <2>2, <2>4
    <3>2. n - 1 \notin S  BY <2>1, <2>2, <3>1 DEF OpToRel
    <3>3. Cardinality(Leading(A, D, n - 1)) = n - 1  BY <3>1, <3>2
    <3>4. Cardinality(Leading(A, D, (n - 1) + 1)) = (n - 1) + 1  BY <3>1, <3>3, NextLeads
    <3> QED BY <2>2, <3>1, <3>4
  <2> QED BY <2>3, <2>4
<1>2. r \in 0..r /\ r \notin S  BY <1>1
<1> QED BY <1>2

\* What division leaves.
LEMMA Divided ==
    ASSUME NEW a \in Nat, NEW b \in Nat \ {0}
    PROVE  a \div b \in Nat /\ a % b \in 0..(b - 1) /\ a = b * (a \div b) + (a % b)
<1>1. a \div b \in Nat /\ a % b \in 0..(b - 1)  OBVIOUS
<1>2. a = b * (a \div b) + (a % b)  OBVIOUS
<1> QED BY <1>1, <1>2

LEMMA NotNegative ==
    ASSUME NEW b \in Nat \ {0}, NEW x \in Int, b * x >= 0
    PROVE  x \in Nat
<1>1. CASE x >= 0  BY <1>1
<1>2. CASE x < 0
  <2>1. b * x <= -b
    <3>1. b * (-x) >= b  BY <1>2
    <3> QED BY <3>1
  <2> QED BY <2>1
<1> QED BY <1>1, <1>2

LEMMA NotMore ==
    ASSUME NEW b \in Nat \ {0}, NEW x \in Nat, NEW y \in Nat, b * x <= b * y
    PROVE  x <= y
<1> SUFFICES ASSUME y < x PROVE FALSE  OBVIOUS
<1>1. x - y \in Int /\ b * (y - x) >= 0
  <2>1. b * (y - x) = b * y - b * x  OBVIOUS
  <2>2. b * x \in Nat /\ b * y \in Nat  OBVIOUS
  <2> QED BY <2>1, <2>2
<1>2. y - x \in Nat  BY <1>1, NotNegative
<1> QED BY <1>2

LEMMA MoreTimes ==
    ASSUME NEW b \in Nat, NEW x \in Nat, NEW y \in Nat, x <= y
    PROVE  b * x <= b * y
<1>1. y - x \in Nat  OBVIOUS
<1>2. b * (y - x) \in Nat /\ b * (y - x) = b * y - b * x  BY <1>1
<1>3. b * x \in Nat /\ b * y \in Nat  OBVIOUS
<1> QED BY <1>2, <1>3

\* The parts of Split: what a step's share is rounded down to, what that cuts off, the
\* steps with more cut off, and the steps that get one of the VUs left over.
Down(first, leaving, total) == [i \in DOMAIN leaving |-> (leaving[i] * total) \div first]
CutOff(first, leaving, total) == [i \in DOMAIN leaving |-> (leaving[i] * total) % first]
MoreCut(cut) == [i \in DOMAIN cut |-> {j \in DOMAIN cut : cut[j] > cut[i] \/ (cut[j] = cut[i] /\ j < i)}]
LeftOver(first, leaving, total) == total - Sum(Down(first, leaving, total), DOMAIN leaving)
Extra(first, leaving, total) ==
    Leading(MoreCut(CutOff(first, leaving, total)), DOMAIN leaving, LeftOver(first, leaving, total))

\* All of a test's users are among those that leave.
Shared(first, leaving, total) ==
    /\ first \in Nat \ {0} /\ total \in Nat
    /\ DOMAIN leaving \subseteq Nat /\ leaving \in [DOMAIN leaving -> Nat] /\ IsFiniteSet(DOMAIN leaving)
    /\ Sum(leaving, DOMAIN leaving) = first

LEMMA PartsOfSplit ==
    ASSUME NEW first, NEW leaving, NEW total, Shared(first, leaving, total)
    PROVE  LET D == DOMAIN leaving
               down == Down(first, leaving, total)
               cut == CutOff(first, leaving, total)
           IN /\ IsFiniteSet(D)
              /\ down \in [D -> Nat] /\ cut \in [D -> 0..first - 1]
              /\ \A i \in D : leaving[i] * total = first * down[i] + cut[i]
<1> DEFINE D == DOMAIN leaving
           down == Down(first, leaving, total)
           cut == CutOff(first, leaving, total)
<1>1. first \in Nat \ {0} /\ total \in Nat /\ leaving \in [D -> Nat] /\ IsFiniteSet(D)  BY DEF Shared
<1>2. ASSUME NEW i \in D
      PROVE  /\ down[i] \in Nat /\ cut[i] \in 0..first - 1
             /\ leaving[i] * total = first * down[i] + cut[i]
  <2> DEFINE a == leaving[i] * total
  <2>1. a \in Nat  BY <1>1
  <2>2. down[i] = a \div first /\ cut[i] = a % first  BY DEF Down, CutOff
  <2> HIDE DEF a, down, cut
  <2>3. a = first * down[i] + cut[i] /\ down[i] \in Nat /\ cut[i] \in 0..first - 1
    BY <1>1, <2>1, <2>2, Divided
  <2> QED BY <2>3 DEF a
<1>3. down = [i \in D |-> down[i]] /\ cut = [i \in D |-> cut[i]]  BY DEF Down, CutOff
<1> HIDE DEF D, down, cut
<1>4. down \in [D -> Nat] /\ cut \in [D -> 0..first - 1]  BY <1>2, <1>3
<1> QED BY <1>1, <1>2, <1>4 DEF D, down, cut

\* The shares are proportional, for any of the steps: what is cut off makes whole VUs.
LEMMA Proportional ==
    ASSUME NEW first, NEW leaving, NEW total, Shared(first, leaving, total), NEW E \in SUBSET DOMAIN leaving
    PROVE  LET down == Down(first, leaving, total)
               cut == CutOff(first, leaving, total)
           IN /\ Sum(leaving, E) \in Nat /\ Sum(down, E) \in Nat /\ Sum(cut, E) \in Nat
              /\ Summable(leaving, E) /\ Summable(down, E) /\ Summable(cut, E)
              /\ total * Sum(leaving, E) = first * Sum(down, E) + Sum(cut, E)
<1> DEFINE down == Down(first, leaving, total)
           cut == CutOff(first, leaving, total)
           zero == [i \in E |-> 0]
           raw == [i \in E |-> leaving[i] * total]
<1>1. /\ IsFiniteSet(DOMAIN leaving) /\ first \in Nat \ {0} /\ total \in Nat /\ leaving \in [DOMAIN leaving -> Nat]
      /\ down \in [DOMAIN leaving -> Nat] /\ cut \in [DOMAIN leaving -> 0..first - 1]
      /\ \A i \in DOMAIN leaving : leaving[i] * total = first * down[i] + cut[i]
  BY PartsOfSplit DEF Shared
<1> HIDE DEF down, cut
<1>2. IsFiniteSet(E)  BY <1>1, FS_Subset
<1>3. Summable(leaving, E) /\ Summable(down, E) /\ Summable(cut, E) /\ Summable(zero, E)
  <2>1. \A i \in E : leaving[i] \in Nat /\ down[i] \in Nat /\ cut[i] \in Nat /\ zero[i] \in Nat  BY <1>1
  <2> HIDE DEF zero
  <2> QED BY <1>2, <2>1 DEF Summable
<1>4. Summable(raw, E)
  <2>1. \A i \in E : leaving[i] \in Nat  BY <1>1
  <2>2. \A i \in E : raw[i] \in Nat
    <3> TAKE i \in E
    <3>1. leaving[i] * total \in Nat  BY <1>1, <2>1
    <3> QED BY <3>1
  <2> HIDE DEF raw
  <2> QED BY <1>2, <2>2 DEF Summable
<1>5. Sum(raw, E) = total * Sum(leaving, E) + Sum(zero, E)
  <2>1. \A i \in E : raw[i] = total * leaving[i] + zero[i]
    <3> TAKE i \in E
    <3> DEFINE l == leaving[i]
    <3>1. l \in Nat  BY <1>1
    <3>2. raw[i] = l * total /\ zero[i] = 0  OBVIOUS
    <3> HIDE DEF l, raw, zero
    <3>3. l * total = total * l + 0  BY <1>1, <3>1
    <3> QED BY <3>2, <3>3 DEF l
  <2> HIDE DEF raw, zero
  <2> QED BY <1>1, <1>3, <1>4, <2>1, SumLinear
<1>6. Sum(raw, E) = first * Sum(down, E) + Sum(cut, E)
  <2>1. \A i \in E : raw[i] = first * down[i] + cut[i]
    <3> TAKE i \in E
    <3> QED BY <1>1
  <2> HIDE DEF raw
  <2> QED BY <1>1, <1>3, <1>4, <2>1, SumLinear
<1>7. Sum(zero, E) = 0
  <2>1. Sum(zero, E) = 0 * Cardinality(E)  BY <1>2, SumOfMany
  <2> HIDE DEF zero
  <2> QED BY <1>2, <2>1, FS_CardinalityType
<1> HIDE DEF raw, zero
<1>8. Sum(leaving, E) \in Nat /\ Sum(down, E) \in Nat /\ Sum(cut, E) \in Nat  BY <1>3, SumType
<1>9. total * Sum(leaving, E) \in Nat  BY <1>1, <1>8
<1> QED BY <1>3, <1>5, <1>6, <1>7, <1>8, <1>9 DEF down, cut

\* As many VUs are left over as what is cut off makes, which is less than there are
\* steps with something cut off.
LEMMA LeftOverIs ==
    ASSUME NEW first, NEW leaving, NEW total, Shared(first, leaving, total)
    PROVE  LET D == DOMAIN leaving
               cut == CutOff(first, leaving, total)
               r == LeftOver(first, leaving, total)
           IN /\ r \in Nat /\ first * r = Sum(cut, D)
              /\ r <= Cardinality({i \in D : cut[i] > 0}) /\ r <= Cardinality(D)
<1> DEFINE D == DOMAIN leaving
           down == Down(first, leaving, total)
           cut == CutOff(first, leaving, total)
           r == LeftOver(first, leaving, total)
           P == {i \in D : cut[i] > 0}
<1>1. /\ first \in Nat \ {0} /\ total \in Nat /\ Sum(leaving, D) = first  BY DEF Shared
<1>2. /\ Sum(down, D) \in Nat /\ Sum(cut, D) \in Nat /\ Summable(cut, D)
      /\ total * Sum(leaving, D) = first * Sum(down, D) + Sum(cut, D)
  BY Proportional
<1>3. IsFiniteSet(D) /\ cut \in [D -> 0..first - 1]  BY PartsOfSplit
<1>4. r = total - Sum(down, D)  BY DEF LeftOver
<1> HIDE DEF D, down, cut, r
<1>5. r \in Int /\ first * r = Sum(cut, D)
  <2> DEFINE d == Sum(down, D)
             c == Sum(cut, D)
  <2>1. d \in Nat /\ c \in Nat /\ total * first = first * d + c /\ r = total - d  BY <1>1, <1>2, <1>4
  <2> HIDE DEF d, c
  <2>2. first * (total - d) = first * total - first * d  BY <1>1, <2>1
  <2>3. first * total = total * first /\ first * d \in Nat  BY <1>1, <2>1
  <2>4. first * r = c /\ r \in Int  BY <1>1, <2>1, <2>2, <2>3
  <2> QED BY <2>4 DEF c
<1>6. r \in Nat
  <2>1. first * r >= 0  BY <1>2, <1>5
  <2> QED BY <1>1, <1>5, <2>1, NotNegative
<1>7. P \subseteq D /\ IsFiniteSet(P) /\ Cardinality(P) \in Nat /\ Cardinality(P) <= Cardinality(D) /\ Cardinality(D) \in Nat
  <2>1. P \subseteq D  OBVIOUS
  <2> HIDE DEF P
  <2> QED BY <1>3, <2>1, FS_Subset, FS_CardinalityType
<1>8. Sum(cut, D) = Sum(cut, P)  BY <1>2, SumOfUsed
<1>9. Sum(cut, P) <= first * Cardinality(P)
  <2> DEFINE all == [i \in P |-> first]
  <2>1. Sum(all, P) = first * Cardinality(P)  BY <1>1, <1>7, SumOfMany
  <2>2. \A i \in P : cut[i] \in Nat /\ all[i] \in Nat /\ cut[i] <= all[i]  BY <1>1, <1>3
  <2> HIDE DEF P, all
  <2>3. Summable(cut, P) /\ Summable(all, P)  BY <1>7, <2>2 DEF Summable
  <2>4. Sum(cut, P) <= Sum(all, P)  BY <2>2, <2>3, SumGrows
  <2> QED BY <2>1, <2>4
<1> HIDE DEF P
<1>10. r <= Cardinality(P)
  <2>1. first * r <= first * Cardinality(P)  BY <1>5, <1>8, <1>9
  <2> QED BY <1>1, <1>6, <1>7, <2>1, NotMore
<1>11. r <= Cardinality(D)  BY <1>6, <1>7, <1>10
<1> QED BY <1>5, <1>6, <1>10, <1>11 DEF D, cut, r, P

\* They go to so many steps, and to none with nothing cut off.
LEMMA ExtraIs ==
    ASSUME NEW first, NEW leaving, NEW total, Shared(first, leaving, total)
    PROVE  LET D == DOMAIN leaving
               X == Extra(first, leaving, total)
           IN /\ X \subseteq D /\ Cardinality(X) = LeftOver(first, leaving, total)
              /\ \A i \in X : CutOff(first, leaving, total)[i] > 0
<1> DEFINE D == DOMAIN leaving
           cut == CutOff(first, leaving, total)
           r == LeftOver(first, leaving, total)
           A == MoreCut(cut)
           X == Leading(A, D, r)
           P == {i \in D : cut[i] > 0}
<1>1. /\ IsFiniteSet(D) /\ cut \in [D -> 0..first - 1] /\ first \in Nat /\ D \subseteq Nat
  BY PartsOfSplit DEF Shared
<1>2. r \in Nat /\ r <= Cardinality(P) /\ r <= Cardinality(D)  BY LeftOverIs
<1>3. Extra(first, leaving, total) = X  BY DEF Extra
<1> HIDE DEF cut, r, D
<1>4. \A i \in D : A[i] = {j \in D : cut[j] > cut[i] \/ (cut[j] = cut[i] /\ j < i)}
  <2>1. DOMAIN cut = D  BY <1>1
  <2> QED BY <2>1 DEF MoreCut
<1>5. A \in [D -> SUBSET D]
  <2>1. DOMAIN cut = D  BY <1>1
  <2>2. A = [i \in D |-> A[i]]  BY <2>1 DEF MoreCut
  <2> HIDE DEF A
  <2> QED BY <1>4, <2>2
<1> HIDE DEF A
<1>6. \A i \in D : i \in Nat /\ cut[i] \in Nat  BY <1>1
<1>7. Ordered(A, D)
  <2>1. \A i \in D : i \notin A[i]  BY <1>4, <1>6
  <2>2. \A i, j \in D : i # j => i \in A[j] \/ j \in A[i]  BY <1>4, <1>6
  <2>3. ASSUME NEW i \in D, NEW j \in D, i \in A[j] PROVE A[i] \subseteq A[j]
    <3> SUFFICES ASSUME NEW k \in A[i] PROVE k \in A[j]  OBVIOUS
    <3>1. k \in D /\ (cut[k] > cut[i] \/ (cut[k] = cut[i] /\ k < i))  BY <1>4
    <3>2. cut[i] > cut[j] \/ (cut[i] = cut[j] /\ i < j)  BY <1>4, <2>3
    <3>3. cut[k] > cut[j] \/ (cut[k] = cut[j] /\ k < j)  BY <1>6, <3>1, <3>2
    <3> QED BY <1>4, <3>1, <3>3
  <2> QED BY <1>1, <1>5, <2>1, <2>2, <2>3 DEF Ordered
<1>8. Cardinality(X) = r  BY <1>2, <1>7, SoManyLead
<1>9. X \subseteq D  BY DEF Leading
<1>10. ASSUME NEW i \in X, ~(cut[i] > 0) PROVE FALSE
  <2>1. i \in D /\ Cardinality(A[i]) < r  BY <1>10 DEF Leading
  <2>2. cut[i] = 0  BY <1>6, <1>10, <2>1
  <2>3. P \subseteq A[i]  BY <1>4, <1>6, <2>1, <2>2
  <2>4. IsFiniteSet(A[i]) /\ Cardinality(A[i]) \in Nat  BY <1>7, <2>1, AheadFinite
  <2>5. IsFiniteSet(P) /\ Cardinality(P) \in Nat
    <3>1. P \subseteq D  OBVIOUS
    <3> HIDE DEF P
    <3> QED BY <1>1, <3>1, FS_Subset, FS_CardinalityType
  <2>6. Cardinality(P) <= Cardinality(A[i])
    <3> HIDE DEF P
    <3> QED BY <2>3, <2>4, FS_Subset
  <2> HIDE DEF P
  <2> QED BY <1>2, <2>1, <2>4, <2>5, <2>6
<1> HIDE DEF X, P
<1>11. X \subseteq D /\ Cardinality(X) = r /\ \A i \in X : cut[i] > 0  BY <1>8, <1>9, <1>10
<1> QED BY <1>3, <1>11 DEF D, cut, r

\* The VUs of a step are its share, rounded down, and one of those left over if it is
\* among the first by what was cut off.
LEMMA SplitIs ==
    ASSUME NEW first, NEW leaving, NEW total, Shared(first, leaving, total)
    PROVE  LP!Split(first, leaving, total) =
               [i \in DOMAIN leaving |-> Down(first, leaving, total)[i]
                                         + (IF i \in Extra(first, leaving, total) THEN 1 ELSE 0)]
<1> DEFINE D == DOMAIN leaving
           down == [i \in D |-> (leaving[i] * total) \div first]
           cutOff(i) == (leaving[i] * total) % first
           ahead(i) == {j \in D : \/ cutOff(j) > cutOff(i)
                                  \/ cutOff(j) = cutOff(i) /\ j < i}
           remainder == total - LP!SumFunction(down)
           X == Extra(first, leaving, total)
<1>1. LP!Split(first, leaving, total) =
          [i \in D |-> down[i] + (IF LP!Cardinality(ahead(i)) < remainder THEN 1 ELSE 0)]
  BY DEF LP!Split
<1>2. down = Down(first, leaving, total)  BY DEF Down
<1>3. remainder = LeftOver(first, leaving, total)
  <2>1. DOMAIN down = D  OBVIOUS
  <2>2. Summable(down, D)
    <3>1. IsFiniteSet(D) /\ down \in [D -> Nat]  BY <1>2, PartsOfSplit
    <3> HIDE DEF down, D
    <3> QED BY <3>1 DEF Summable
  <2> HIDE DEF down, D
  <2>3. LP!SumFunction(down) = Sum(down, D)  BY <2>1, <2>2, SumIs DEF LP!SumFunction
  <2> QED BY <1>2, <2>3 DEF LeftOver, D
<1>4. ASSUME NEW i \in D PROVE LP!Cardinality(ahead(i)) < remainder <=> i \in X
  <2> DEFINE cut == CutOff(first, leaving, total)
  <2>1. \A j \in D : cut[j] = cutOff(j)  BY DEF CutOff
  <2>2. DOMAIN cut = D  BY DEF CutOff
  <2>3. MoreCut(cut)[i] = {j \in D : cut[j] > cut[i] \/ (cut[j] = cut[i] /\ j < i)}
    <3> HIDE DEF cut, D
    <3> QED BY <2>2 DEF MoreCut
  <2>4. MoreCut(cut)[i] = ahead(i)
    <3> HIDE DEF cut
    <3> QED BY <2>1, <2>3
  <2> HIDE DEF cut, ahead, remainder
  <2>5. LP!Cardinality(ahead(i)) = Cardinality(MoreCut(cut)[i])  BY <2>4, PlanCounts
  <2>6. i \in X <=> Cardinality(MoreCut(cut)[i]) < LeftOver(first, leaving, total)
    BY DEF Extra, Leading, cut
  <2> QED BY <1>3, <2>5, <2>6
<1> HIDE DEF down, ahead, remainder, X, D
<1>5. [i \in D |-> down[i] + (IF LP!Cardinality(ahead(i)) < remainder THEN 1 ELSE 0)]
      = [i \in D |-> down[i] + (IF i \in X THEN 1 ELSE 0)]
  BY <1>4
<1> QED BY <1>1, <1>2, <1>5 DEF D, X

\* The steps that have users.
Used(s) == {i \in DOMAIN s : s[i] > 0}

\* All VUs are given to some step, and steps have their share of them, give or take the
\* VUs that were left over; which is one for each step at most that has VUs.
LEMMA SplitSound ==
    ASSUME NEW first, NEW leaving, NEW total, Shared(first, leaving, total), NEW E \in SUBSET DOMAIN leaving
    PROVE  LET D == DOMAIN leaving
               s == LP!Split(first, leaving, total)
               m == Cardinality(Used(s))
           IN /\ s \in [D -> Nat] /\ Sum(s, D) = total /\ m \in Nat
              /\ Sum(leaving, E) = 0 => Sum(s, E) = 0
              /\ Sum(s, E) * first - Sum(leaving, E) * total \in (-first * m)..(first * m)
<1> DEFINE D == DOMAIN leaving
           s == LP!Split(first, leaving, total)
           M == Used(s)
           m == Cardinality(M)
           down == Down(first, leaving, total)
           cut == CutOff(first, leaving, total)
           X == Extra(first, leaving, total)
           r == LeftOver(first, leaving, total)
           one == [i \in D |-> IF i \in X THEN 1 ELSE 0]
<1>1. /\ IsFiniteSet(D) /\ down \in [D -> Nat] /\ cut \in [D -> 0..first - 1] /\ first \in Nat \ {0} /\ total \in Nat
      /\ Sum(leaving, D) = first /\ leaving \in [D -> Nat]
      /\ \A i \in D : leaving[i] * total = first * down[i] + cut[i]
  BY PartsOfSplit DEF Shared
<1>2. X \subseteq D /\ Cardinality(X) = r /\ \A i \in X : cut[i] > 0  BY ExtraIs
<1>3. r \in Nat /\ first * r = Sum(cut, D) /\ r = total - Sum(down, D)  BY LeftOverIs DEF LeftOver
<1>4. s = [i \in D |-> down[i] + one[i]]
  <2>1. s = [i \in D |-> down[i] + (IF i \in X THEN 1 ELSE 0)]  BY SplitIs
  <2> HIDE DEF s, down, X, D
  <2> QED BY <2>1
<1>5. \A F \in SUBSET D :
        /\ Sum(leaving, F) \in Nat /\ Sum(down, F) \in Nat /\ Sum(cut, F) \in Nat
        /\ Summable(leaving, F) /\ Summable(down, F) /\ Summable(cut, F)
        /\ total * Sum(leaving, F) = first * Sum(down, F) + Sum(cut, F)
  BY Proportional
<1> HIDE DEF D, s, down, cut, X, r
<1>6. one \in [D -> {0, 1}] /\ \A i \in D : one[i] = 1 <=> i \in X  OBVIOUS
<1> HIDE DEF one
<1>7. s \in [D -> Nat] /\ \A i \in D : s[i] = 1 * down[i] + one[i]
  <2>1. \A i \in D : down[i] + one[i] \in Nat /\ down[i] + one[i] = 1 * down[i] + one[i]  BY <1>1, <1>6
  <2> QED BY <1>4, <2>1
<1>8. ASSUME NEW F \in SUBSET D
      PROVE  Sum(s, F) = Sum(down, F) + Cardinality(X \cap F) /\ Cardinality(X \cap F) \in Nat /\ Cardinality(X \cap F) <= r
  <2>1. IsFiniteSet(F)  BY <1>1, FS_Subset
  <2>2. Summable(s, F) /\ Summable(down, F) /\ Summable(one, F)
    <3>1. \A i \in F : s[i] \in Nat /\ down[i] \in Nat /\ one[i] \in Nat  BY <1>1, <1>6, <1>7
    <3> QED BY <2>1, <3>1 DEF Summable
  <2>3. Sum(s, F) = 1 * Sum(down, F) + Sum(one, F)  BY <1>7, <2>2, SumLinear
  <2>4. Sum(one, F) = Cardinality({i \in F : one[i] = 1})  BY <1>6, <2>1, SumOfOnes
  <2>5. {i \in F : one[i] = 1} = X \cap F  BY <1>6
  <2>6. IsFiniteSet(X)  BY <1>1, <1>2, FS_Subset
  <2>7. Cardinality(X \cap F) <= r /\ Cardinality(X \cap F) \in Nat
    <3>1. X \cap F \subseteq X  OBVIOUS
    <3> QED BY <1>2, <2>6, <3>1, FS_Subset, FS_CardinalityType
  <2>8. 1 * Sum(down, F) = Sum(down, F)
    <3>1. Sum(down, F) \in Nat  BY <1>5
    <3> QED BY <3>1
  <2>9. Sum(one, F) = Cardinality(X \cap F)  BY <2>4, <2>5
  <2> QED BY <2>3, <2>7, <2>8, <2>9
<1>9. Sum(s, D) = total
  <2>1. X \cap D = X  BY <1>2
  <2>2. Sum(s, D) = Sum(down, D) + r  BY <1>2, <1>8, <2>1
  <2>3. Sum(down, D) \in Nat  BY <1>5
  <2> QED BY <1>1, <1>3, <2>2, <2>3
<1>10. m \in Nat /\ r <= m
  <2>1. X \subseteq M
    <3> SUFFICES ASSUME NEW i \in X PROVE i \in M  OBVIOUS
    <3>1. i \in D /\ one[i] = 1 /\ down[i] \in Nat  BY <1>1, <1>2, <1>6
    <3>2. s[i] > 0  BY <1>7, <3>1
    <3>3. DOMAIN s = D  BY <1>7
    <3> QED BY <3>1, <3>2, <3>3 DEF Used
  <2>2. M \subseteq D
    <3>1. DOMAIN s = D  BY <1>7
    <3> QED BY <3>1 DEF Used
  <2> HIDE DEF M
  <2>3. IsFiniteSet(M)  BY <1>1, <2>2, FS_Subset
  <2>4. Cardinality(X) <= Cardinality(M) /\ Cardinality(M) \in Nat  BY <2>1, <2>3, FS_Subset, FS_CardinalityType
  <2> QED BY <1>2, <2>4
<1> HIDE DEF M
<1>11. E \in SUBSET D  BY DEF D
<1>12. Sum(leaving, E) = 0 => Sum(s, E) = 0
  <2> SUFFICES ASSUME Sum(leaving, E) = 0 PROVE Sum(s, E) = 0  OBVIOUS
  <2>1. first * Sum(down, E) + Sum(cut, E) = 0 /\ Sum(down, E) \in Nat /\ Sum(cut, E) \in Nat
    <3>1. total * 0 = 0  BY <1>1
    <3> QED BY <1>5, <1>11, <3>1
  <2>2. Sum(down, E) = 0 /\ Sum(cut, E) = 0
    <3> DEFINE d == Sum(down, E)
               c == Sum(cut, E)
    <3>1. d \in Nat /\ c \in Nat /\ first * d + c = 0  BY <2>1
    <3> HIDE DEF d, c
    <3>2. first * d \in Nat /\ first * d >= d  BY <1>1, <3>1
    <3>3. d = 0 /\ c = 0  BY <3>1, <3>2
    <3> QED BY <3>3 DEF d, c
  <2>3. X \cap E = {}
    <3> SUFFICES ASSUME NEW i \in X \cap E PROVE FALSE  OBVIOUS
    <3>1. cut[i] > 0 /\ cut[i] \in Nat  BY <1>1, <1>2
    <3>2. Summable(cut, E)  BY <1>5, <1>11
    <3>3. Sum(cut, {i}) <= Sum(cut, E)
      <4>1. {i} \in SUBSET E /\ \A x \in {i} : cut[x] <= cut[x]  BY <3>1
      <4> QED BY <3>2, <4>1, SumGrows
    <3>4. Sum(cut, {i}) = cut[i]  BY <3>1, SumOfOne
    <3> QED BY <2>2, <3>1, <3>3, <3>4
  <2>4. Cardinality(X \cap E) = 0  BY <2>3, FS_EmptySet
  <2> QED BY <1>8, <1>11, <2>2, <2>4
<1>13. Sum(s, E) * first - Sum(leaving, E) * total \in (-first * m)..(first * m)
  <2> DEFINE d == Sum(down, E)
             c == Sum(cut, E)
             l == Sum(leaving, E)
             x == Cardinality(X \cap E)
  <2>1. d \in Nat /\ c \in Nat /\ l \in Nat /\ total * l = first * d + c  BY <1>5, <1>11
  <2>2. Sum(s, E) = d + x /\ x \in Nat /\ x <= r  BY <1>8, <1>11
  <2>3. c <= first * r
    <3>1. Summable(cut, D) /\ \A i \in E : cut[i] <= cut[i]  BY <1>1, <1>5, <1>11
    <3>2. Sum(cut, E) <= Sum(cut, D)  BY <1>11, <3>1, SumGrows
    <3> QED BY <1>3, <3>2
  <2> HIDE DEF d, c, l, x, m
  <2>4. (d + x) * first = first * d + first * x /\ l * total = total * l  BY <1>1, <2>1, <2>2
  <2>5. first * x \in Nat /\ first * d \in Nat /\ first * r \in Nat /\ first * m \in Nat  BY <1>1, <1>3, <1>10, <2>1, <2>2
  <2>6. first * x <= first * r /\ first * r <= first * m  BY <1>1, <1>3, <1>10, <2>2, MoreTimes
  <2>7. (d + x) * first - l * total = first * x - c
    <3> DEFINE fd == first * d
               fx == first * x
    <3>1. fd \in Nat /\ fx \in Nat /\ (d + x) * first = fd + fx /\ l * total = fd + c  BY <2>1, <2>4, <2>5
    <3> HIDE DEF fd, fx
    <3>2. (d + x) * first - l * total = fx - c  BY <2>1, <3>1
    <3> QED BY <3>2 DEF fx
  <2>8. -first * m = -(first * m)  BY <1>1, <1>10
  <2>9. first * x - c \in (-(first * m))..(first * m)  BY <2>1, <2>3, <2>5, <2>6
  <2> QED BY <2>2, <2>7, <2>8, <2>9 DEF l
<1> QED BY <1>7, <1>9, <1>10, <1>12, <1>13 DEF D, s, M

\* The percents of the steps of a flow, none more than the step before.
Funnel(eff, m) ==
    /\ m \in Nat \ {0} /\ eff \in [1..m -> 0..100] /\ Len(eff) = m /\ DOMAIN eff = 1..m
    /\ \A i \in 1..m : i > 1 => eff[i] <= eff[i - 1]

LEMMA EffectiveIs ==
    ASSUME LP!LoadPlanAssumption, NEW ps \in LP!BoundedSeq(Percents, MaxSteps), ps # <<>>, LP!ValidPercents(ps)
    PROVE  /\ Len(ps) \in 1..MaxSteps /\ DOMAIN ps = 1..Len(ps)
           /\ Funnel(LP!Effective(ps), Len(ps))
<1> DEFINE eff == LP!Effective(ps)
<1>1. PICK m \in 0..MaxSteps : ps \in [1..m -> Percents]  BY DEF LP!BoundedSeq, LP!SeqOf
<1>2. m \in Nat /\ ps \in Seq(Percents) /\ Len(ps) = m /\ DOMAIN ps = 1..m /\ MaxSteps \in Nat
  BY <1>1 DEF LP!LoadPlanAssumption
<1>3. m # 0
  <2> SUFFICES ASSUME m = 0 PROVE FALSE  OBVIOUS
  <2> QED BY <1>2
<1>4. DOMAIN eff = 1..m  BY <1>2 DEF LP!Effective
<1>5. eff = [i \in 1..m |-> eff[i]]  BY <1>2 DEF LP!Effective
<1>6. \A i \in DOMAIN ps : eff[i] \in 0..100 /\ (i > 1 => eff[i] <= eff[i - 1])  BY DEF LP!ValidPercents
<1> HIDE DEF eff
<1>7. eff \in [1..m -> 0..100]  BY <1>2, <1>5, <1>6
<1>8. Len(eff) = m
  <2>1. eff \in Seq(0..100)  BY <1>2, <1>7
  <2> QED BY <1>2, <1>4, <2>1
<1>9. Funnel(eff, m)  BY <1>2, <1>3, <1>4, <1>6, <1>7, <1>8 DEF Funnel
<1> QED BY <1>2, <1>3, <1>9 DEF eff

LEMMA LeavingIs ==
    ASSUME NEW eff, NEW m, Funnel(eff, m)
    PROVE  LET D == LP!RunEnds(eff)
               leaving == LP!Leaving(eff)
           IN /\ D \subseteq 1..m /\ m \in D /\ IsFiniteSet(D) /\ DOMAIN leaving = D
              /\ leaving \in [D -> Nat] /\ Summable(leaving, D)
              /\ leaving[m] = eff[m]
              /\ \A i \in D : i # m => i + 1 \in 1..m /\ leaving[i] = eff[i] - eff[i + 1] /\ leaving[i] > 0
              /\ \A i \in 1..m : i \notin D => i + 1 \in 1..m /\ eff[i + 1] = eff[i]
<1> DEFINE D == LP!RunEnds(eff)
           leaving == LP!Leaving(eff)
<1>1. /\ m \in Nat \ {0} /\ eff \in [1..m -> 0..100] /\ Len(eff) = m /\ DOMAIN eff = 1..m
      /\ \A i \in 1..m : i > 1 => eff[i] <= eff[i - 1]
  BY DEF Funnel
<1>2. D = {i \in 1..m : i = m \/ eff[i + 1] # eff[i]}  BY <1>1 DEF LP!RunEnds
<1>3. leaving = [i \in D |-> eff[i] - (IF i = m THEN 0 ELSE eff[i + 1])]  BY <1>1 DEF LP!Leaving
<1> HIDE DEF D, leaving
<1>4. D \subseteq 1..m /\ m \in D  BY <1>1, <1>2
<1>5. IsFiniteSet(D)
  <2>1. IsFiniteSet(1..m)  BY <1>1, FS_Interval
  <2> QED BY <1>4, <2>1, FS_Subset
<1>6. \A i \in 1..m : i # m => i + 1 \in 1..m /\ eff[i + 1] <= eff[i]
  <2> TAKE i \in 1..m
  <2>1. i # m => i + 1 \in 1..m /\ i + 1 > 1 /\ (i + 1) - 1 = i  BY <1>1
  <2> QED BY <1>1, <2>1
<1>7. ASSUME NEW i \in D, i # m PROVE i + 1 \in 1..m /\ leaving[i] = eff[i] - eff[i + 1] /\ leaving[i] > 0 /\ leaving[i] \in Nat
  <2>1. i \in 1..m /\ i + 1 \in 1..m /\ eff[i + 1] <= eff[i] /\ eff[i + 1] # eff[i]  BY <1>2, <1>4, <1>6, <1>7
  <2>2. eff[i] \in 0..100 /\ eff[i + 1] \in 0..100  BY <1>1, <2>1
  <2>3. leaving[i] = eff[i] - eff[i + 1]  BY <1>3, <1>7
  <2> QED BY <2>1, <2>2, <2>3
<1>8. leaving[m] = eff[m] /\ leaving[m] \in Nat
  <2>1. m \in 1..m /\ eff[m] \in 0..100  BY <1>1
  <2>2. leaving[m] = eff[m] - 0  BY <1>3, <1>4
  <2> QED BY <2>1, <2>2
<1>9. leaving \in [D -> Nat] /\ DOMAIN leaving = D
  <2>1. \A i \in D : leaving[i] \in Nat  BY <1>7, <1>8
  <2>2. leaving = [i \in D |-> leaving[i]] /\ DOMAIN leaving = D  BY <1>3
  <2> QED BY <2>1, <2>2
<1>10. Summable(leaving, D)  BY <1>5, <1>9 DEF Summable
<1>11. \A i \in 1..m : i \notin D => i + 1 \in 1..m /\ eff[i + 1] = eff[i]  BY <1>2, <1>6
<1> QED BY <1>4, <1>5, <1>7, <1>8, <1>9, <1>10, <1>11 DEF D, leaving

\* Those that leave after a step or later are those that make it.
LEMMA Telescopes ==
    ASSUME NEW eff, NEW m, Funnel(eff, m), NEW i \in 1..m
    PROVE  Sum(LP!Leaving(eff), {e \in LP!RunEnds(eff) : e >= i}) = eff[i]
<1> DEFINE D == LP!RunEnds(eff)
           leaving == LP!Leaving(eff)
           From(k) == {e \in D : e >= k}
           S == {n \in 0..m - 1 : Sum(leaving, From(m - n)) # eff[m - n]}
<1>1. /\ D \subseteq 1..m /\ m \in D /\ IsFiniteSet(D)
      /\ leaving \in [D -> Nat] /\ Summable(leaving, D)
      /\ leaving[m] = eff[m]
      /\ \A k \in D : k # m => k + 1 \in 1..m /\ leaving[k] = eff[k] - eff[k + 1] /\ leaving[k] > 0
      /\ \A k \in 1..m : k \notin D => k + 1 \in 1..m /\ eff[k + 1] = eff[k]
  BY LeavingIs
<1>2. m \in Nat \ {0} /\ eff \in [1..m -> 0..100]  BY DEF Funnel
<1> HIDE DEF D, leaving
<1>3. \A k \in 1..m : Summable(leaving, From(k))
  <2> TAKE k \in 1..m
  <2>1. From(k) \subseteq D  OBVIOUS
  <2>2. IsFiniteSet(From(k)) /\ \A e \in From(k) : leaving[e] \in Nat  BY <1>1, <2>1, FS_Subset
  <2> HIDE DEF From
  <2> QED BY <2>2 DEF Summable
<1>4. S = {}
  <2> SUFFICES ASSUME S # {} PROVE FALSE  OBVIOUS
  <2>1. PICK n \in S : \A k \in S : ~(<<k, n>> \in OpToRel(<, Nat))
    <3>1. S \in SUBSET Nat  BY <1>2
    <3> HIDE DEF S
    <3> QED BY <3>1, NatLessThanWellFounded, WFMin
  <2>2. n \in Nat /\ n \in 0..m - 1 /\ m - n \in 1..m /\ Sum(leaving, From(m - n)) # eff[m - n]  BY <1>2
  <2>3. CASE n = 0
    <3>2. eff[m] \in Nat /\ m - n = m
      <4>1. m \in 1..m /\ m - n = m  BY <1>2, <2>3
      <4>2. eff[m] \in 0..100  BY <1>2, <4>1
      <4> QED BY <4>1, <4>2
    <3>1. From(m - n) = {m}
      <4>1. \A e \in D : e \in 1..m  BY <1>1
      <4>2. \A e \in D : e >= m <=> e = m  BY <1>2, <4>1
      <4> QED BY <1>1, <3>2, <4>2
    <3> HIDE DEF From, S
    <3> QED BY <1>1, <2>2, <3>1, <3>2, SumOfOne
  <2>4. CASE n # 0
    <3> DEFINE k == m - n
    <3>1. n - 1 \in Nat /\ n - 1 \in 0..m - 1 /\ n - 1 < n /\ m - (n - 1) = k + 1 /\ k \in 1..m /\ k + 1 \in 1..m /\ k # m
      BY <1>2, <2>2, <2>4
    <3>2. n - 1 \notin S  BY <2>1, <2>2, <3>1 DEF OpToRel
    <3>3. Sum(leaving, From(k + 1)) = eff[k + 1]
      <4>1. Sum(leaving, From(m - (n - 1))) = eff[m - (n - 1)]  BY <3>1, <3>2
      <4> QED BY <3>1, <4>1
    <3>4. Sum(leaving, From(k)) # eff[k]  BY <2>2
    <3> HIDE DEF k, S
    <3>5. k \in Nat /\ \A e \in D : e \in Nat  BY <1>1, <3>1
    <3>6. eff[k] \in Nat /\ eff[k + 1] \in Nat
      <4>1. eff[k] \in 0..100 /\ eff[k + 1] \in 0..100  BY <1>2, <3>1
      <4> QED BY <4>1
    <3>7. CASE k \in D
      <4>1. From(k) \ {k} = From(k + 1) /\ k \in From(k)
        <5>1. \A e \in D : (e >= k /\ e # k) <=> e >= k + 1  BY <3>5
        <5>2. k >= k  BY <3>5
        <5> QED BY <3>7, <5>1, <5>2
      <4>2. Sum(leaving, From(k)) = leaving[k] + Sum(leaving, From(k + 1))
        <5> HIDE DEF From
        <5> QED BY <1>3, <3>1, <4>1, SumOut
      <4>3. leaving[k] = eff[k] - eff[k + 1]  BY <1>1, <3>1, <3>7
      <4> HIDE DEF From
      <4> QED BY <3>3, <3>4, <3>6, <4>2, <4>3
    <3>8. CASE k \notin D
      <4>1. From(k) = From(k + 1)
        <5>1. \A e \in D : e >= k <=> e >= k + 1  BY <3>5, <3>8
        <5> QED BY <5>1
      <4>2. eff[k + 1] = eff[k]  BY <1>1, <3>1, <3>8
      <4> HIDE DEF From
      <4> QED BY <3>3, <3>4, <4>1, <4>2
    <3> QED BY <3>7, <3>8
  <2> QED BY <2>3, <2>4
<1>5. m - i \in 0..m - 1 /\ m - (m - i) = i  BY <1>2
<1>6. m - i \notin S  BY <1>4
<1>7. Sum(leaving, From(i)) = eff[i]
  <2>1. Sum(leaving, From(m - (m - i))) = eff[m - (m - i)]  BY <1>5, <1>6
  <2> QED BY <1>5, <2>1
<1> QED BY <1>7 DEF D, leaving

\* So when some leave before the end, the VUs can be split.
LEMMA FlowShared ==
    ASSUME NEW eff, NEW m, Funnel(eff, m), NEW total \in Nat, LP!RunEnds(eff) # {m}
    PROVE  Shared(eff[1], LP!Leaving(eff), total)
<1> DEFINE D == LP!RunEnds(eff)
           leaving == LP!Leaving(eff)
<1>1. /\ D \subseteq 1..m /\ m \in D /\ IsFiniteSet(D) /\ DOMAIN leaving = D
      /\ leaving \in [D -> Nat] /\ Summable(leaving, D)
      /\ \A k \in D : k # m => leaving[k] > 0
  BY LeavingIs
<1>2. m \in Nat \ {0} /\ eff \in [1..m -> 0..100] /\ 1 \in 1..m  BY DEF Funnel
<1>3. Sum(leaving, D) = eff[1]
  <2>1. {e \in D : e >= 1} = D  BY <1>1, <1>2
  <2>2. Sum(leaving, {e \in D : e >= 1}) = eff[1]  BY <1>2, Telescopes
  <2> HIDE DEF D, leaving
  <2> QED BY <2>1, <2>2
<1>4. PICK k \in D : k # m  BY <1>1
<1> HIDE DEF D, leaving
<1>5. Sum(leaving, {k}) = leaving[k] /\ leaving[k] \in Nat /\ leaving[k] > 0  BY <1>1, <1>4, SumOfOne
<1>6. Sum(leaving, {k}) <= Sum(leaving, D)
  <2>1. {k} \in SUBSET D /\ \A x \in {k} : leaving[x] <= leaving[x]  BY <1>5
  <2> QED BY <1>1, <2>1, SumGrows
<1>7. eff[1] \in Nat \ {0}
  <2>1. eff[1] \in 0..100  BY <1>2
  <2> QED BY <1>3, <1>5, <1>6, <2>1
<1>8. D \subseteq Nat  BY <1>1, <1>2
<1> QED BY <1>1, <1>3, <1>7, <1>8 DEF Shared, D, leaving

\* The journeys of a flow: all its users are in one, and a step has its share of them.
LEMMA JourneysAre ==
    ASSUME NEW eff, NEW m, Funnel(eff, m), NEW total \in Nat
    PROVE  LET js == LP!JourneysOf(eff, total)
               size == Cardinality(DOMAIN js)
           IN /\ DOMAIN js \subseteq 1..m /\ js \in [DOMAIN js -> Nat] /\ IsFiniteSet(DOMAIN js) /\ size \in Nat
              /\ size > 1 =>
                    /\ Sum(js, DOMAIN js) = total
                    /\ \A i \in 1..m :
                          LET reaching == Sum(js, {n \in DOMAIN js : n >= i}) IN
                          /\ eff[i] = 0 => reaching = 0
                          /\ reaching * eff[1] - eff[i] * total \in (-eff[1] * size)..(eff[1] * size)
<1> DEFINE js == LP!JourneysOf(eff, total)
           size == Cardinality(DOMAIN js)
           D == LP!RunEnds(eff)
           leaving == LP!Leaving(eff)
           s == LP!Split(eff[1], leaving, total)
<1>1. /\ D \subseteq 1..m /\ m \in D /\ IsFiniteSet(D) /\ DOMAIN leaving = D
  BY LeavingIs
<1>2. m \in Nat \ {0} /\ Len(eff) = m /\ 1 \in 1..m  BY DEF Funnel
<1>3. CASE D = {m}
  <2>1. js = [i \in {m} |-> total]  BY <1>2, <1>3 DEF LP!JourneysOf
  <2> HIDE DEF js
  <2>2. DOMAIN js = {m} /\ js \in [DOMAIN js -> Nat]  BY <2>1
  <2>3. IsFiniteSet(DOMAIN js) /\ size = 1  BY <2>2, FS_Singleton
  <2> HIDE DEF size
  <2>4. DOMAIN js \subseteq 1..m /\ size \in Nat /\ ~(size > 1)  BY <1>2, <2>2, <2>3
  <2> QED BY <2>2, <2>3, <2>4 DEF js, size
<1>4. CASE D # {m}
  <2>1. Shared(eff[1], leaving, total)  BY <1>4, FlowShared
  <2> DEFINE J == Used(s)
  <2>2. /\ s \in [D -> Nat] /\ Sum(s, D) = total /\ Cardinality(J) \in Nat
        /\ \A E \in SUBSET D :
              /\ Sum(leaving, E) = 0 => Sum(s, E) = 0
              /\ Sum(s, E) * eff[1] - Sum(leaving, E) * total \in (-eff[1] * Cardinality(J))..(eff[1] * Cardinality(J))
    <3>1. DOMAIN leaving = D  BY <1>1
    <3> HIDE DEF leaving, D
    <3>2. ASSUME NEW E \in SUBSET D
          PROVE  /\ s \in [D -> Nat] /\ Sum(s, D) = total /\ Cardinality(J) \in Nat
                 /\ Sum(leaving, E) = 0 => Sum(s, E) = 0
                 /\ Sum(s, E) * eff[1] - Sum(leaving, E) * total \in (-eff[1] * Cardinality(J))..(eff[1] * Cardinality(J))
      <4>1. E \in SUBSET DOMAIN leaving  BY <3>1
      <4>2. LET d == DOMAIN leaving
                j == Cardinality(Used(s))
            IN /\ s \in [d -> Nat] /\ Sum(s, d) = total /\ j \in Nat
               /\ Sum(leaving, E) = 0 => Sum(s, E) = 0
               /\ Sum(s, E) * eff[1] - Sum(leaving, E) * total \in (-eff[1] * j)..(eff[1] * j)
        BY <2>1, <4>1, SplitSound
      <4> HIDE DEF s
      <4> QED BY <3>1, <4>2
    <3>3. D \in SUBSET D  OBVIOUS
    <3> HIDE DEF s, J
    <3> QED BY <3>2, <3>3
  <2>3. js = [i \in J |-> s[i]]
    <3>1. js = LP!WithUsers(s)  BY <1>2, <1>4 DEF LP!JourneysOf
    <3>2. DOMAIN s = D  BY <2>2
    <3> HIDE DEF js, s, D
    <3> QED BY <3>1, <3>2 DEF LP!WithUsers, Used
  <2> HIDE DEF js, s, D, leaving
  <2>4. J \subseteq D /\ IsFiniteSet(J)
    <3>1. J \subseteq D  BY <2>2 DEF Used
    <3> HIDE DEF J
    <3> QED BY <1>1, <3>1, FS_Subset
  <2>5. DOMAIN js = J /\ js \in [J -> Nat] /\ \A i \in J : js[i] = s[i]
    <3> HIDE DEF J
    <3> QED BY <2>2, <2>3, <2>4
  <2>6. ASSUME NEW E \in SUBSET D PROVE Sum(js, {n \in J : n \in E}) = Sum(s, E)
    <3>1. Summable(s, E)
      <4>1. IsFiniteSet(E) /\ \A x \in E : s[x] \in Nat  BY <1>1, <2>2, FS_Subset
      <4> QED BY <4>1 DEF Summable
    <3>2. Sum(s, E) = Sum(s, {x \in E : s[x] > 0})  BY <3>1, SumOfUsed
    <3>3. {x \in E : s[x] > 0} = {n \in J : n \in E}
      <4>1. DOMAIN s = D  BY <2>2
      <4> QED BY <4>1 DEF Used
    <3>4. Sum(js, {n \in J : n \in E}) = Sum(s, {n \in J : n \in E})
      <4>1. \A x \in {n \in J : n \in E} : js[x] = s[x]  BY <2>5
      <4> QED BY <4>1, SumSame
    <3> QED BY <3>2, <3>3, <3>4
  <2>7. Sum(js, J) = total
    <3>1. {n \in J : n \in D} = J  BY <2>4
    <3> QED BY <2>2, <2>6, <3>1
  <2>8. ASSUME NEW i \in 1..m
        PROVE  LET reaching == Sum(js, {n \in J : n >= i}) IN
               /\ eff[i] = 0 => reaching = 0
               /\ reaching * eff[1] - eff[i] * total \in (-eff[1] * Cardinality(J))..(eff[1] * Cardinality(J))
    <3> DEFINE E == {e \in D : e >= i}
    <3>1. {n \in J : n >= i} = {n \in J : n \in E}  BY <2>4
    <3>2. Sum(leaving, E) = eff[i]  BY Telescopes DEF leaving, D
    <3>3. E \in SUBSET D  OBVIOUS
    <3> HIDE DEF E, J
    <3>4. Sum(js, {n \in J : n >= i}) = Sum(s, E)  BY <2>6, <3>1, <3>3
    <3> QED BY <2>2, <3>2, <3>3, <3>4
  <2> HIDE DEF J
  <2>9. DOMAIN js \subseteq 1..m  BY <1>1, <2>4, <2>5
  <2> QED BY <2>2, <2>4, <2>5, <2>7, <2>8, <2>9 DEF js
<1> QED BY <1>3, <1>4

-----------------------------------------------------------------------------
\* The greatest of a set is what it should be.
LEMMA MaxIs ==
    ASSUME NEW S \in SUBSET Int, NEW n \in S, \A k \in S : n >= k
    PROVE  LP!Max(S) = n
<1>1. \E x \in S : \A y \in S : x >= y  OBVIOUS
<1>2. LP!Max(S) \in S /\ \A y \in S : LP!Max(S) >= y  BY <1>1 DEF LP!Max
<1> DEFINE x == LP!Max(S)
<1>3. x \in Int /\ n \in Int /\ x >= n /\ n >= x  BY <1>2
<1> HIDE DEF x
<1>4. x = n  BY <1>3
<1> QED BY <1>4 DEF x

LEMMA LevelsAre ==
    ASSUME NEW a \in Nat, NEW b \in Nat, NEW c \in Nat
    PROVE  /\ <<a>> \in Seq(Nat) /\ LP!Range(<<a>>) = {a} /\ <<a>>[1] = a
           /\ <<a, c>> \in Seq(Nat) /\ LP!Range(<<a, c>>) = {a, c}
           /\ <<a, a, c>> \in Seq(Nat) /\ LP!Range(<<a, a, c>>) = {a, c} /\ <<a, a, c>>[1] = a
           /\ <<a, a, b, b, a, c>> \in Seq(Nat) /\ LP!Range(<<a, a, b, b, a, c>>) = {a, b, c}
<1>1. <<a>> \in Seq(Nat) /\ LP!Range(<<a>>) = {a} /\ <<a>>[1] = a  BY DEF LP!Range
<1>2. <<a, c>> \in Seq(Nat) /\ LP!Range(<<a, c>>) = {a, c}  
  <2>1. DOMAIN <<a, c>> = {1, 2}  OBVIOUS
  <2> QED BY <2>1 DEF LP!Range
<1>3. <<a, a, c>> \in Seq(Nat) /\ LP!Range(<<a, a, c>>) = {a, c} /\ <<a, a, c>>[1] = a
  <2>1. DOMAIN <<a, a, c>> = {1, 2, 3}  OBVIOUS
  <2> QED BY <2>1 DEF LP!Range
<1>4. <<a, a, b, b, a, c>> \in Seq(Nat) /\ LP!Range(<<a, a, b, b, a, c>>) = {a, b, c}
  <2>1. DOMAIN <<a, a, b, b, a, c>> = {1, 2, 3, 4, 5, 6}  OBVIOUS
  <2> QED BY <2>1 DEF LP!Range
<1> QED BY <1>1, <1>2, <1>3, <1>4

\* The most VUs of such levels.
LEMMA HighestIs ==
    ASSUME NEW a \in Nat, NEW b \in Nat
    PROVE  /\ LP!Max(LP!Range(<<a>>)) = a /\ LP!Max(LP!Range(<<a, 0>>)) = a /\ LP!Max(LP!Range(<<a, a, 0>>)) = a
           /\ LP!Max(LP!Range(<<a, a, b, b, a, 0>>)) = IF a > b THEN a ELSE b
<1>1. LP!Max({a}) = a  BY MaxIs
<1>2. LP!Max({a, 0}) = a
  <2>1. {a, 0} \in SUBSET Int /\ a \in {a, 0} /\ \A k \in {a, 0} : a >= k  OBVIOUS
  <2> QED BY <2>1, MaxIs
<1>3. LP!Max({a, b, 0}) = IF a > b THEN a ELSE b
  <2> DEFINE n == IF a > b THEN a ELSE b
  <2>1. {a, b, 0} \in SUBSET Int /\ n \in {a, b, 0} /\ \A k \in {a, b, 0} : n >= k  OBVIOUS
  <2> HIDE DEF n
  <2>2. LP!Max({a, b, 0}) = n  BY <2>1, MaxIs
  <2> QED BY <2>2 DEF n
<1>4. /\ LP!Range(<<a>>) = {a} /\ LP!Range(<<a, 0>>) = {a, 0} /\ LP!Range(<<a, a, 0>>) = {a, 0}
      /\ LP!Range(<<a, a, b, b, a, 0>>) = {a, b, 0}
  BY LevelsAre
<1> QED BY <1>1, <1>2, <1>3, <1>4

\* A request, and the levels of its whole load.
Plans == [percents : LP!BoundedSeq(Percents, MaxSteps), vus : Vus, peak : Peaks, profile : LP!Profiles,
          shape : Shapes]
HighestOf(p) ==
    IF p.profile = "realistic" THEN LP!Pool(p.vus)
    ELSE IF p.profile = "spike" THEN LP!Larger(p.vus, LP!Peak(p))
    ELSE IF p.profile = "capacity" THEN LP!Peak(p) ELSE p.vus

LEMMA PlanTypes ==
    ASSUME LP!LoadPlanAssumption, NEW p \in Plans
    PROVE  /\ p.vus \in Nat \ {0} /\ LP!Peak(p) \in Nat /\ LP!Pool(p.vus) \in Nat /\ HighestOf(p) \in Nat
           /\ p.peak # Unset => p.peak \in Nat /\ LP!Peak(p) = p.peak
           /\ p.profile \in {"load", "spike", "capacity", "soak", "realistic"}
           /\ p.percents \in LP!BoundedSeq(Percents, MaxSteps)
<1>1. p.vus \in Vus /\ p.peak \in Peaks /\ p.profile \in LP!Profiles /\ p.percents \in LP!BoundedSeq(Percents, MaxSteps)
  BY DEF Plans
<1>2. p.vus \in Nat \ {0} /\ (p.peak # Unset => p.peak \in Nat)  BY <1>1 DEF LP!LoadPlanAssumption
<1>3. LP!Peak(p) \in Nat /\ (p.peak # Unset => LP!Peak(p) = p.peak)  BY <1>2 DEF LP!Peak
<1>4. LP!Pool(p.vus) \in Nat  BY <1>2 DEF LP!Pool, LP!Larger
<1>5. HighestOf(p) \in Nat  BY <1>2, <1>3, <1>4 DEF HighestOf, LP!Larger
<1> QED BY <1>1, <1>2, <1>3, <1>4, <1>5 DEF LP!Profiles

LEMMA InstructedIs ==
    ASSUME LP!LoadPlanAssumption, NEW p \in Plans
    PROVE  /\ LP!Instructed(p) \in Seq(Nat)
           /\ LP!Scenario(p.profile, p.vus, LP!Instructed(p)) = [levels |-> LP!Instructed(p), pool |-> HighestOf(p)]
<1> DEFINE v == p.vus
           k == LP!Peak(p)
           i == LP!Instructed(p)
<1>1. v \in Nat \ {0} /\ k \in Nat /\ p.profile \in {"load", "spike", "capacity", "soak", "realistic"}  BY PlanTypes
<1>2. i = CASE p.profile = "spike"    -> <<v, v, k, k, v, 0>>
            [] p.profile = "capacity" -> <<k>>
            [] p.profile \in {"soak", "realistic"} -> <<v, v, 0>>
            [] p.profile = "load"     -> <<v>>
  BY DEF LP!Instructed
<1> HIDE DEF v, k, i
<1>3. /\ p.profile = "spike" => i = <<v, v, k, k, v, 0>>
      /\ p.profile = "capacity" => i = <<k>>
      /\ p.profile \in {"soak", "realistic"} => i = <<v, v, 0>>
      /\ p.profile = "load" => i = <<v>>
  BY <1>2
<1>4. i \in Seq(Nat)
  <2>1. v \in Nat /\ k \in Nat /\ 0 \in Nat  BY <1>1
  <2>2. <<v>> \in Seq(Nat) /\ <<k>> \in Seq(Nat) /\ <<v, v, 0>> \in Seq(Nat) /\ <<v, v, k, k, v, 0>> \in Seq(Nat)
    BY <2>1, LevelsAre
  <2> QED BY <1>1, <1>3, <2>2
<1>5. /\ p.profile = "spike" => LP!Max(LP!Range(i)) = LP!Larger(v, k)
      /\ p.profile = "capacity" => LP!Max(LP!Range(i)) = k
      /\ p.profile \in {"soak", "load"} => LP!Max(LP!Range(i)) = v
  <2>1. v \in Nat /\ k \in Nat  BY <1>1
  <2>2. /\ LP!Max(LP!Range(<<v>>)) = v /\ LP!Max(LP!Range(<<k>>)) = k /\ LP!Max(LP!Range(<<v, v, 0>>)) = v
        /\ LP!Max(LP!Range(<<v, v, k, k, v, 0>>)) = LP!Larger(v, k)
    BY <2>1, HighestIs DEF LP!Larger
  <2> QED BY <1>3, <2>2
<1>6. (IF p.profile = "realistic" THEN LP!Pool(v) ELSE LP!Max(LP!Range(i))) = HighestOf(p)
  BY <1>1, <1>5 DEF HighestOf, v, k
<1> QED BY <1>4, <1>6 DEF LP!Scenario, v, i

\* What a cached script gets for its levels has the same height.
LEMMA InjectedIs ==
    ASSUME LP!LoadPlanAssumption, NEW p \in Plans
    PROVE  \E levels \in Seq(Nat) :
               LP!Injected(p) = [n \in {Len(p.percents)} |-> [levels |-> levels, pool |-> HighestOf(p)]]
<1> DEFINE v == p.vus
           k == LP!Peak(p)
           i == CASE p.profile = "spike"    -> <<v, v, k, k, v, 0>>
                  [] p.profile = "capacity" -> <<k, 0>>
                  [] OTHER                  -> <<v, v, 0>>
<1>1. v \in Nat \ {0} /\ k \in Nat /\ p.profile \in {"load", "spike", "capacity", "soak", "realistic"}  BY PlanTypes
<1>2. LP!Injected(p) = LP!Whole(p, i)  BY DEF LP!Injected
<1> HIDE DEF v, k
<1>3. /\ p.profile = "spike" => i = <<v, v, k, k, v, 0>>
      /\ p.profile = "capacity" => i = <<k, 0>>
      /\ p.profile \in {"load", "soak", "realistic"} => i = <<v, v, 0>>
  OBVIOUS
<1> HIDE DEF i
<1>4. i \in Seq(Nat)
  <2>1. v \in Nat /\ k \in Nat /\ 0 \in Nat  BY <1>1
  <2>2. <<k, 0>> \in Seq(Nat) /\ <<v, v, 0>> \in Seq(Nat) /\ <<v, v, k, k, v, 0>> \in Seq(Nat)
    BY <2>1, LevelsAre
  <2> QED BY <1>1, <1>3, <2>2
<1>5. /\ p.profile = "spike" => LP!Max(LP!Range(i)) = LP!Larger(v, k)
      /\ p.profile = "capacity" => LP!Max(LP!Range(i)) = k
      /\ p.profile \in {"soak", "load"} => LP!Max(LP!Range(i)) = v
  <2>1. v \in Nat /\ k \in Nat  BY <1>1
  <2>2. /\ LP!Max(LP!Range(<<k, 0>>)) = k /\ LP!Max(LP!Range(<<v, v, 0>>)) = v
        /\ LP!Max(LP!Range(<<v, v, k, k, v, 0>>)) = LP!Larger(v, k)
    BY <2>1, HighestIs DEF LP!Larger
  <2> QED BY <1>3, <2>2
<1>6. (IF p.profile = "realistic" THEN LP!Pool(v) ELSE LP!Max(LP!Range(i))) = HighestOf(p)
  BY <1>1, <1>5 DEF HighestOf, v, k
<1>7. LP!Injected(p) = [n \in {Len(p.percents)} |-> [levels |-> i, pool |-> HighestOf(p)]]
  BY <1>2, <1>6 DEF LP!Whole, LP!Scenario, v
<1> QED BY <1>4, <1>7

\* Sums as the model has them.
LEMMA SumsAre ==
    ASSUME NEW f, NEW D, f = [x \in D |-> f[x]], Summable(f, D)
    PROVE  LP!SumFunction(f) = Sum(f, D)
<1>1. DOMAIN f = D  OBVIOUS
<1>2. LP!SumFunction(f) = LP!SumFunctionOnSet(f, D)  BY <1>1 DEF LP!SumFunction
<1> QED BY <1>2, SumIs

\* One scenario needs its own VUs.
LEMMA CeilingOfOne ==
    ASSUME NEW n, NEW levels, NEW pool \in Nat, NEW s, s = [k \in {n} |-> [levels |-> levels, pool |-> pool]]
    PROVE  LP!Ceiling(s) = pool /\ Cardinality(DOMAIN s) = 1
<1> DEFINE f == [k \in DOMAIN s |-> s[k].pool]
<1>1. DOMAIN s = {n} /\ s[n].pool = pool  OBVIOUS
<1>2. f = [k \in {n} |-> f[k]] /\ f[n] = pool  BY <1>1
<1>3. LP!Ceiling(s) = LP!SumFunction(f)  BY DEF LP!Ceiling
<1> HIDE DEF f
<1>4. Summable(f, {n})
  <2>1. \A k \in {n} : f[k] \in Nat  BY <1>2
  <2> QED BY <2>1, FS_Singleton DEF Summable
<1>5. LP!SumFunction(f) = pool  BY <1>2, <1>4, SumsAre, SumOfOne
<1> QED BY <1>1, <1>3, <1>5, FS_Singleton

\* What the users of a journey are told to do: their number comes first, and is the most
\* there is in a load that does not rise above it.
LEMMA InstructedForIs ==
    ASSUME NEW p, p.profile \in {"load", "soak", "realistic"}, NEW v \in Nat
    PROVE  LET sc == LP!Scenario(p.profile, v, LP!InstructedFor(p, v)) IN
           sc.levels[1] = v /\ (p.profile \in {"load", "soak"} => sc.pool = v)
<1> DEFINE i == LP!InstructedFor(p, v)
<1>1. i = CASE p.profile = "spike"    -> <<v, v, LP!ScaledPeak(p, v), LP!ScaledPeak(p, v), v, 0>>
            [] p.profile = "capacity" -> <<LP!ScaledPeak(p, v)>>
            [] p.profile \in {"soak", "realistic"} -> <<v, v, 0>>
            [] p.profile = "load"     -> <<v>>
  BY DEF LP!InstructedFor
<1> HIDE DEF i
<1>2. (p.profile \in {"soak", "realistic"} => i = <<v, v, 0>>) /\ (p.profile = "load" => i = <<v>>)
  BY <1>1
<1>3. <<v>>[1] = v /\ <<v, v, 0>>[1] = v /\ LP!Max(LP!Range(<<v>>)) = v /\ LP!Max(LP!Range(<<v, v, 0>>)) = v
  BY HighestIs
<1>4. i[1] = v /\ (p.profile \in {"load", "soak"} => LP!Max(LP!Range(i)) = v)  BY <1>2, <1>3
<1> QED BY <1>4 DEF LP!Scenario, i

-----------------------------------------------------------------------------
\* What is generated is one scenario, or one for each of several journeys.
OneScenario(p, s) ==
    \E n, levels : s = [k \in {n} |-> [levels |-> levels, pool |-> HighestOf(p)]]
ManyScenarios(p, s) ==
    LET js == LP!Journeys(p.percents, p.vus) IN
    /\ p.percents # <<>> /\ Cardinality(DOMAIN js) > 1
    /\ s = [n \in DOMAIN js |-> LP!Scenario(p.profile, js[n], LP!InstructedFor(p, js[n]))]

LEMMA WholeIs ==
    ASSUME LP!LoadPlanAssumption, NEW p \in Plans
    PROVE  OneScenario(p, LP!Whole(p, LP!Instructed(p))) /\ OneScenario(p, LP!Injected(p))
<1>1. LP!Whole(p, LP!Instructed(p)) = [k \in {Len(p.percents)} |-> [levels |-> LP!Instructed(p), pool |-> HighestOf(p)]]
  BY InstructedIs DEF LP!Whole
<1>2. OneScenario(p, LP!Whole(p, LP!Instructed(p)))  BY <1>1 DEF OneScenario
<1>3. OneScenario(p, LP!Injected(p))
  <2>1. PICK levels \in Seq(Nat) :
             LP!Injected(p) = [n \in {Len(p.percents)} |-> [levels |-> levels, pool |-> HighestOf(p)]]
    BY InjectedIs
  <2> QED BY <2>1 DEF OneScenario
<1> QED BY <1>2, <1>3

LEMMA JourneysTyped ==
    ASSUME LP!LoadPlanAssumption, NEW p \in Plans, p.percents # <<>>, LP!ValidPercents(p.percents)
    PROVE  LET js == LP!Journeys(p.percents, p.vus)
               eff == LP!Effective(p.percents)
               m == Len(p.percents)
               size == Cardinality(DOMAIN js)
           IN /\ DOMAIN eff = 1..m /\ m \in Nat \ {0}
              /\ DOMAIN js \subseteq 1..m /\ js \in [DOMAIN js -> Nat] /\ IsFiniteSet(DOMAIN js) /\ size \in Nat
              /\ size > 1 =>
                    /\ Sum(js, DOMAIN js) = p.vus
                    /\ \A i \in 1..m :
                          LET reaching == Sum(js, {n \in DOMAIN js : n >= i}) IN
                          /\ eff[i] = 0 => reaching = 0
                          /\ reaching * eff[1] - eff[i] * p.vus \in (-eff[1] * size)..(eff[1] * size)
<1> DEFINE eff == LP!Effective(p.percents)
           m == Len(p.percents)
           v == p.vus
<1>1. p.percents \in LP!BoundedSeq(Percents, MaxSteps) /\ v \in Nat  BY PlanTypes
<1>2. Funnel(eff, m)  BY <1>1, EffectiveIs
<1>3. DOMAIN eff = 1..m /\ m \in Nat \ {0}  BY <1>2 DEF Funnel
<1>4. LP!Journeys(p.percents, p.vus) = LP!JourneysOf(eff, v)  BY DEF LP!Journeys
<1> HIDE DEF eff, m, v
<1>5. LET js == LP!JourneysOf(eff, v)
          size == Cardinality(DOMAIN js)
      IN /\ DOMAIN js \subseteq 1..m /\ js \in [DOMAIN js -> Nat] /\ IsFiniteSet(DOMAIN js) /\ size \in Nat
         /\ size > 1 =>
               /\ Sum(js, DOMAIN js) = v
               /\ \A i \in 1..m :
                     LET reaching == Sum(js, {n \in DOMAIN js : n >= i}) IN
                     /\ eff[i] = 0 => reaching = 0
                     /\ reaching * eff[1] - eff[i] * v \in (-eff[1] * size)..(eff[1] * size)
  BY <1>1, <1>2, JourneysAre
<1> QED BY <1>3, <1>4, <1>5 DEF eff, m, v

LEMMA GeneratedIs ==
    ASSUME LP!LoadPlanAssumption, NEW p \in Plans, LP!ValidPercents(p.percents), ~LP!Stated(p)
    PROVE  /\ OneScenario(p, LP!Generated(p)) \/ ManyScenarios(p, LP!Generated(p))
           /\ p.percents = <<>> => OneScenario(p, LP!Generated(p))
<1>1. OneScenario(p, LP!Whole(p, LP!Instructed(p)))  BY WholeIs
<1>2. CASE p.percents = <<>>  BY <1>1, <1>2 DEF LP!Generated, LP!Fallback
<1>3. CASE p.percents # <<>>
  <2> DEFINE js == LP!Journeys(p.percents, p.vus)
  <2>1. Cardinality(DOMAIN js) \in Nat  BY <1>3, JourneysTyped
  <2>2. LP!Cardinality(DOMAIN js) = Cardinality(DOMAIN js)  BY PlanCounts
  <2>3. LP!Generated(p) = LP!GeneratedFor(p, js)  BY <1>3 DEF LP!Generated, LP!Stated
  <2>4. LP!GeneratedFor(p, js) =
          IF LP!Cardinality(DOMAIN js) <= 1 THEN LP!Whole(p, LP!Instructed(p))
          ELSE [n \in DOMAIN js |-> LP!Scenario(p.profile, js[n], LP!InstructedFor(p, js[n]))]
    BY DEF LP!GeneratedFor
  <2> HIDE DEF js
  <2>5. CASE Cardinality(DOMAIN js) <= 1  BY <1>1, <1>3, <2>2, <2>3, <2>4, <2>5
  <2>6. CASE Cardinality(DOMAIN js) > 1
    <3>1. LP!Generated(p) = [n \in DOMAIN js |-> LP!Scenario(p.profile, js[n], LP!InstructedFor(p, js[n]))]
      BY <2>1, <2>2, <2>3, <2>4, <2>6
    <3>2. ManyScenarios(p, LP!Generated(p))  BY <1>3, <2>6, <3>1 DEF ManyScenarios, js
    <3> QED BY <1>3, <3>2
  <2> QED BY <2>1, <2>5, <2>6
<1> QED BY <1>2, <1>3

\* A test that runs has the load its parameters ask for, unless its description states
\* one or its script was kept as it was.
MeantFor(p, s) == (s = LP!Generated(p) /\ ~LP!Stated(p)) \/ (p.percents = <<>> /\ s = LP!Injected(p))
Excepted(p, from) == from = "kept" \/ (from = "generated" /\ LP!Stated(p))
LoadInv ==
    /\ plan \in Plans
    /\ pc = "runs" => LP!ValidPercents(plan.percents) /\ (~Excepted(plan, origin) => MeantFor(plan, script))

LEMMA MeantIs ==
    ASSUME LP!LoadPlanAssumption, NEW p \in Plans, LP!ValidPercents(p.percents), NEW s, MeantFor(p, s)
    PROVE  /\ OneScenario(p, s) \/ ManyScenarios(p, s)
           /\ p.percents = <<>> => OneScenario(p, s)
BY GeneratedIs, WholeIs DEF MeantFor

\* The VUs of the whole are bounded by what was counted.
LEMMA HighestCounted ==
    ASSUME LP!LoadPlanAssumption, NEW p \in Plans
    PROVE  \/ p.profile \in {"spike", "capacity"} /\ p.peak = Unset
           \/ p.profile # "realistic" /\ p.peak # Unset /\ p.peak < p.vus
           \/ HighestOf(p) <= LP!Counted(p) /\ (p.profile \in {"load", "soak"} => p.vus <= LP!Counted(p))
<1> DEFINE v == p.vus
           k == p.peak
           f == p.profile
<1>1. /\ v \in Nat /\ LP!Pool(v) \in Nat /\ (k # Unset => k \in Nat /\ LP!Peak(p) = k)
      /\ f \in {"load", "spike", "capacity", "soak", "realistic"}
  BY PlanTypes
<1>2. LP!Counted(p) = CASE f = "realistic" -> LP!Pool(v)
                        [] f # "realistic" /\ k # Unset -> k
                        [] OTHER -> v
  BY DEF LP!Counted
<1>3. HighestOf(p) = IF f = "realistic" THEN LP!Pool(v)
                     ELSE IF f = "spike" THEN LP!Larger(v, LP!Peak(p))
                     ELSE IF f = "capacity" THEN LP!Peak(p) ELSE v
  BY DEF HighestOf
<1>4. (f \in {"spike", "capacity"} /\ k = Unset) \/ (f # "realistic" /\ k # Unset /\ k < v)
      \/ (HighestOf(p) <= LP!Counted(p) /\ (f \in {"load", "soak"} => v <= LP!Counted(p)))
  <2> HIDE DEF v, k, f
  <2>1. CASE f = "realistic"
    <3>1. LP!Counted(p) = LP!Pool(v) /\ HighestOf(p) = LP!Pool(v)  BY <1>2, <1>3, <2>1
    <3> QED BY <1>1, <2>1, <3>1
  <2>2. CASE f # "realistic" /\ k # Unset
    <3>1. LP!Counted(p) = k  BY <1>2, <2>2
    <3> QED BY <1>1, <1>3, <2>2, <3>1 DEF LP!Larger
  <2>3. CASE f # "realistic" /\ k = Unset
    <3>1. LP!Counted(p) = v  BY <1>2, <2>3
    <3>2. f \in {"load", "soak"} => HighestOf(p) = v  BY <1>3
    <3> QED BY <1>1, <2>3, <3>1, <3>2
  <2> QED BY <2>1, <2>2, <2>3
<1> QED BY <1>4

\* Of several journeys the pools are the users, if their number does not rise.
LEMMA ManyAre ==
    ASSUME LP!LoadPlanAssumption, LoadInv, pc = "runs", ManyScenarios(plan, script),
           plan.profile \in {"load", "soak", "realistic"}
    PROVE  LET js == LP!Journeys(plan.percents, plan.vus) IN
           /\ DOMAIN script = DOMAIN js /\ LP!Scenarios = Cardinality(DOMAIN js)
           /\ \A i \in 1..Len(plan.percents) : LP!Reaching(i) = Sum(js, {n \in DOMAIN js : n >= i})
           /\ plan.profile \in {"load", "soak"} => LP!Ceiling(script) = Sum(js, DOMAIN js)
<1> DEFINE js == LP!Journeys(plan.percents, plan.vus)
           J == DOMAIN js
<1>1. js \in [J -> Nat] /\ IsFiniteSet(J)
  <2>1. plan \in Plans /\ plan.percents # <<>> /\ LP!ValidPercents(plan.percents)  BY DEF LoadInv, ManyScenarios
  <2> QED BY <2>1, JourneysTyped
<1>2. script = [n \in J |-> LP!Scenario(plan.profile, js[n], LP!InstructedFor(plan, js[n]))]  BY DEF ManyScenarios
<1> HIDE DEF js
<1>3. /\ DOMAIN script = J
      /\ \A n \in J : /\ script[n].levels[1] = js[n]
                      /\ plan.profile \in {"load", "soak"} => script[n].pool = js[n]
  <2>1. ASSUME NEW n \in J
        PROVE  script[n].levels[1] = js[n] /\ (plan.profile \in {"load", "soak"} => script[n].pool = js[n])
    <3>1. js[n] \in Nat  BY <1>1
    <3>2. script[n] = LP!Scenario(plan.profile, js[n], LP!InstructedFor(plan, js[n]))  BY <1>2
    <3> QED BY <3>1, <3>2, InstructedForIs
  <2>2. DOMAIN script = J  BY <1>2
  <2> QED BY <2>1, <2>2
<1>4. LP!Scenarios = Cardinality(J)  BY <1>3, PlanCounts DEF LP!Scenarios
<1>5. ASSUME NEW f, NEW E \in SUBSET J, f = [n \in E |-> f[n]], \A n \in E : f[n] = js[n]
      PROVE  LP!SumFunction(f) = Sum(js, E)
  <2>1. IsFiniteSet(E)  BY <1>1, FS_Subset
  <2>2. \A n \in E : f[n] \in Nat  BY <1>1, <1>5
  <2>3. Summable(f, E)  BY <2>1, <2>2 DEF Summable
  <2>4. Sum(f, E) = Sum(js, E)  BY <1>5, SumSame
  <2> QED BY <1>5, <2>3, <2>4, SumsAre
<1>6. ASSUME NEW i \in 1..Len(plan.percents)
      PROVE  LP!Reaching(i) = Sum(js, {n \in J : n >= i})
  <2> DEFINE E == {n \in J : n >= i}
             f == [n \in E |-> script[n].levels[1]]
  <2>1. LP!Reaching(i) = LP!SumFunction(f)  BY <1>3 DEF LP!Reaching
  <2>2. E \in SUBSET J  OBVIOUS
  <2> HIDE DEF E
  <2>3. f = [n \in E |-> f[n]] /\ \A n \in E : f[n] = js[n]  BY <1>3, <2>2
  <2> HIDE DEF f
  <2>4. LP!SumFunction(f) = Sum(js, E)  BY <1>5, <2>2, <2>3
  <2> QED BY <2>1, <2>4 DEF E
<1>7. ASSUME plan.profile \in {"load", "soak"}
      PROVE  LP!Ceiling(script) = Sum(js, J)
  <2> DEFINE f == [n \in J |-> script[n].pool]
  <2>1. LP!Ceiling(script) = LP!SumFunction(f)  BY <1>3 DEF LP!Ceiling
  <2>2. f = [n \in J |-> f[n]] /\ \A n \in J : f[n] = js[n]  BY <1>3, <1>7
  <2>3. J \in SUBSET J  OBVIOUS
  <2> HIDE DEF f
  <2>4. LP!SumFunction(f) = Sum(js, J)  BY <1>5, <2>2, <2>3
  <2> QED BY <2>1, <2>4
<1> QED BY <1>3, <1>4, <1>6, <1>7 DEF js

LEMMA OneIs ==
    ASSUME LP!LoadPlanAssumption, NEW p \in Plans, NEW s, OneScenario(p, s)
    PROVE  LP!Ceiling(s) = HighestOf(p) /\ Cardinality(DOMAIN s) = 1
<1>1. PICK n, levels : s = [k \in {n} |-> [levels |-> levels, pool |-> HighestOf(p)]]  BY DEF OneScenario
<1>2. HighestOf(p) \in Nat  BY PlanTypes
<1> QED BY <1>1, <1>2, CeilingOfOne

\* So what runs is what was asked for.
LEMMA LoadFollows ==
    ASSUME LP!LoadPlanAssumption, LoadInv
    PROVE  LP!LoadAsAsked
<1> SUFFICES ASSUME pc = "runs", ~Excepted(plan, origin)
             PROVE  LP!FunnelKept /\ LP!SameCeiling /\ LP!WithinCounted
  BY DEF LP!LoadAsAsked, Excepted
<1>1. plan \in Plans /\ LP!ValidPercents(plan.percents) /\ MeantFor(plan, script)  BY DEF LoadInv
<1>2. /\ OneScenario(plan, script) \/ ManyScenarios(plan, script)
      /\ plan.percents = <<>> => OneScenario(plan, script)
  BY <1>1, MeantIs
<1>3. LP!SameCeiling
  <2>1. ASSUME plan.percents = <<>> PROVE LP!Ceiling(script) = LP!Ceiling(LP!Fallback(plan))
    <3>1. OneScenario(plan, LP!Fallback(plan)) /\ OneScenario(plan, script)
      BY <1>1, <1>2, <2>1, WholeIs DEF LP!Fallback
    <3> QED BY <1>1, <3>1, OneIs
  <2> QED BY <2>1 DEF LP!SameCeiling, LP!IsFlow
<1>4. /\ \/ plan.profile \in {"spike", "capacity"} /\ plan.peak = Unset
         \/ plan.profile # "realistic" /\ plan.peak # Unset /\ plan.peak < plan.vus
         \/ HighestOf(plan) <= LP!Counted(plan) /\ (plan.profile \in {"load", "soak"} => plan.vus <= LP!Counted(plan))
      /\ plan.profile \in {"load", "spike", "capacity", "soak", "realistic"}
  BY <1>1, HighestCounted, PlanTypes
<1>5. CASE OneScenario(plan, script)
  <2>1. LP!Ceiling(script) = HighestOf(plan) /\ LP!Scenarios = 1
    BY <1>1, <1>5, OneIs, PlanCounts DEF LP!Scenarios
  <2>2. ~(LP!Scenarios > 1)  BY <2>1
  <2> QED BY <1>3, <1>4, <2>1, <2>2 DEF LP!FunnelKept, LP!WithinCounted
<1>6. CASE ManyScenarios(plan, script)
  <2> DEFINE js == LP!Journeys(plan.percents, plan.vus)
             size == Cardinality(DOMAIN js)
             eff == LP!Effective(plan.percents)
             m == Len(plan.percents)
  <2>1. plan.percents # <<>> /\ size > 1  BY <1>6 DEF ManyScenarios
  <2>2. /\ DOMAIN eff = 1..m /\ m \in Nat \ {0} /\ DOMAIN js \subseteq 1..m
        /\ Sum(js, DOMAIN js) = plan.vus
        /\ \A i \in 1..m :
              /\ eff[i] = 0 => Sum(js, {n \in DOMAIN js : n >= i}) = 0
              /\ Sum(js, {n \in DOMAIN js : n >= i}) * eff[1] - eff[i] * plan.vus \in (-eff[1] * size)..(eff[1] * size)
    BY <1>1, <2>1, JourneysTyped
  <2>3. plan.profile \in {"load", "soak", "realistic"} =>
           /\ LP!Scenarios = size
           /\ \A i \in 1..m : LP!Reaching(i) = Sum(js, {n \in DOMAIN js : n >= i})
           /\ plan.profile \in {"load", "soak"} => LP!Ceiling(script) = Sum(js, DOMAIN js)
    BY <1>6, ManyAre
  <2>4. LP!Scenarios > 1
    <3>1. DOMAIN script = DOMAIN js  BY <1>6 DEF ManyScenarios
    <3> QED BY <2>1, <3>1, PlanCounts DEF LP!Scenarios
  <2> HIDE DEF js, size, eff, m
  <2>5. LP!WithinCounted
    <3>1. CASE plan.profile \in {"spike", "capacity", "realistic"}  BY <2>4, <3>1 DEF LP!WithinCounted
    <3>2. CASE plan.profile \in {"load", "soak"}
      <4>1. LP!Ceiling(script) = plan.vus  BY <2>2, <2>3, <3>2
      <4> QED BY <1>4, <3>2, <4>1 DEF LP!WithinCounted
    <3> QED BY <1>4, <3>1, <3>2
  <2>6. ASSUME plan.profile \in {"load", "soak", "realistic"}
        PROVE  /\ LP!Reaching(1) = plan.vus
               /\ \A i \in DOMAIN eff : /\ eff[i] = 0 => LP!Reaching(i) = 0
                                        /\ LP!Reaching(i) * eff[1] - eff[i] * plan.vus
                                              \in (-eff[1] * LP!Scenarios)..(eff[1] * LP!Scenarios)
    <3>1. 1 \in 1..m /\ {n \in DOMAIN js : n >= 1} = DOMAIN js
      <4>1. m \in Nat \ {0} /\ DOMAIN js \subseteq 1..m  BY <2>2
      <4>2. \A n \in DOMAIN js : n >= 1  BY <4>1
      <4>3. 1 \in 1..m  BY <4>1
      <4> DEFINE J == DOMAIN js
      <4>4. \A n \in J : n >= 1  BY <4>2
      <4> HIDE DEF J
      <4>5. {n \in J : n >= 1} = J  BY <4>4
      <4> QED BY <4>3, <4>5 DEF J
    <3>2. LP!Reaching(1) = plan.vus  BY <2>2, <2>3, <2>6, <3>1
    <3>3. LP!Scenarios = size /\ \A i \in 1..m : LP!Reaching(i) = Sum(js, {n \in DOMAIN js : n >= i})
      BY <2>3, <2>6
    <3> QED BY <2>2, <3>2, <3>3
  <2>7. LP!FunnelKept  BY <2>6 DEF LP!FunnelKept, eff
  <2> QED BY <1>3, <2>5, <2>7
<1> QED BY <1>2, <1>5, <1>6

-----------------------------------------------------------------------------
\* Steps of LoadPlan.
LEMMA LoadSteps ==
    ASSUME LP!LoadPlanAssumption, LoadInv, Plan \/ UNCHANGED lpvars
    PROVE  LoadInv'
<1>1. CASE LP!Refuse  BY <1>1 DEF LoadInv, LP!Refuse
<1>2. CASE LP!Generate
  <2>1. plan' = plan /\ script' = LP!Generated(plan) /\ origin' = "generated" /\ LP!ValidPercents(plan.percents)
    BY <1>2 DEF LP!Generate, LP!Accepted
  <2>2. ~Excepted(plan, origin') => MeantFor(plan, script')  BY <2>1 DEF MeantFor, Excepted
  <2> QED BY <2>1, <2>2 DEF LoadInv
<1>3. CASE LP!Inject
  <2>1. /\ plan' = plan /\ LP!ValidPercents(plan.percents)
        /\ plan.percents = <<>> /\ script' = LP!Injected(plan)
    BY <1>3 DEF LP!Inject, LP!Accepted
  <2>2. MeantFor(plan, script')  BY <2>1 DEF MeantFor
  <2> QED BY <2>1, <2>2 DEF LoadInv
<1>4. CASE LP!Keep
  <2>1. plan' = plan /\ origin' = "kept" /\ LP!ValidPercents(plan.percents)
    BY <1>4 DEF LP!Keep, LP!Accepted
  <2> QED BY <2>1 DEF LoadInv, Excepted
<1>5. CASE UNCHANGED lpvars  BY <1>5 DEF LoadInv, lpvars
<1> QED BY <1>1, <1>2, <1>3, <1>4, <1>5 DEF Plan, Pla

\* The load of a test that runs is the one its parameters ask for, split among the
\* journeys of a flow by their percents, and no more than was counted for it, unless
\* its script was written for a load that the description states, or is an earlier
\* test's kept as it was (LoadPlan).
THEOREM LoadCorrect == Spec => []LoadAsAsked
<1> DEFINE I == part = "plan" => LoadInv
<1>1. LP!LoadPlanAssumption  BY Assumptions
<1>2. Init => I  BY DEF Init, LP!LoadPlanInit, LoadInv, Plans, LP!Profiles
<1>3. I /\ [Next]_allvars => I'
  <2> SUFFICES ASSUME I, [Next]_allvars PROVE I'  OBVIOUS
  <2>1. part' = part /\ (part = "plan" => Plan \/ UNCHANGED lpvars)  BY Frame
  <2> QED BY <1>1, <2>1, LoadSteps
<1>4. I => LoadAsAsked  BY <1>1, LoadFollows DEF LoadAsAsked
<1> QED BY <1>2, <1>3, <1>4, PTL DEF Spec
==============================================================================
