------------------------------ MODULE Recorder ------------------------------
(***************************************************************************)
(* Recording a flow: recorder-service keeps the sessions, each with its    *)
(* browser, and the results of finished ones; the FlowBuilder page starts  *)
(* and stops a recording and polls it; the viewer tab can stop it too; a   *)
(* sweep stops those that run or idle too long.  Everything is in memory.  *)
(*                                                                         *)
(* The captured requests are abstracted to whether there are any, the AI   *)
(* calls to the time they take.  A step of a clock (poll, sweep, timeout)  *)
(* may come at any time.                                                   *)
(***************************************************************************)
EXTENDS Naturals, FiniteSets

CONSTANTS
    Ids,      \* the recordings that can be started
    NoId,
    MaxAsked  \* bound on the requests of a browser that are under way

RecorderAssumption == NoId \notin Ids /\ MaxAsked \in Nat

VARIABLES
    session,   \* the internal state of every recording
    finishing, \* finishSession: "no", "closing" the browser, "correlating"
    deleting,  \* recordings a DELETE is stopping
    starting,  \* POST /recordings/start under way: recording -> step
    completed, \* completedResults: those whose result is kept
    rec,       \* the recording the page shows
    saved,     \* flowRecordingSession in localStorage
    mounted,   \* the page is shown
    callback,  \* window.__recordingDone: "none", of the "page" it shows, or of one it has "left"
    viewer,    \* the viewer tab of every recording
    asked,     \* requests of the page and of the viewer tabs
    imported,  \* the recording whose steps the page has
    finished,  \* how often each recording was correlated
    gone       \* recordings given up: deleted, expired, or lost in a restart

rvars == <<session, finishing, deleting, starting, completed, rec, saved, mounted, callback,
           viewer, asked, imported, finished, gone>>
server == <<session, finishing, deleting, starting, completed, finished, gone>>
page   == <<rec, saved, mounted, callback, imported>>

Blank == [status |-> "none", listed |-> FALSE, browser |-> FALSE, steps |-> FALSE]
NoRec == [id |-> NoId, status |-> "none"]
Recs  == [id : Ids, status : {"active", "stopping"}] \cup {NoRec}
Request(from, kind, id) == [from |-> from, kind |-> kind, id |-> id, answer |-> "none"]
Requests == [from : {"page", "viewer", "left"}, kind : {"start", "poll", "visible", "resume", "stop"}, id : Ids,
             answer : {"none", "working", "active", "steps", "empty", "404", "409", "error"}]

RecorderTypeOK ==
    /\ session \in [Ids -> [status : {"none", "active", "stopping", "completed"}, listed : BOOLEAN,
                            browser : BOOLEAN, steps : BOOLEAN]]
    /\ finishing \in [Ids -> {"no", "closing", "correlating"}]
    /\ deleting \subseteq Ids /\ completed \subseteq Ids /\ gone \subseteq Ids
    /\ starting \in [Ids -> {"no", "navigating", "refusing"}]
    /\ rec \in Recs /\ saved \in Recs /\ mounted \in BOOLEAN
    /\ callback \in {"none", "page", "left"}
    /\ viewer \in [Ids -> {"closed", "open", "stopping", "done"}]
    /\ asked \subseteq Requests
    /\ imported \in Ids \cup {NoId}
    /\ finished \in [Ids -> Nat]

RecorderInit ==
    /\ session = [i \in Ids |-> Blank]
    /\ finishing = [i \in Ids |-> "no"]
    /\ deleting = {} /\ completed = {} /\ gone = {}
    /\ starting = [i \in Ids |-> "no"]
    /\ rec = NoRec /\ saved = NoRec /\ mounted = TRUE /\ callback = "none"
    /\ viewer = [i \in Ids |-> "closed"]
    /\ asked = {} /\ imported = NoId
    /\ finished = [i \in Ids |-> 0]

Asks(q)       == Cardinality(asked) < MaxAsked /\ asked' = asked \cup {q}
Answer(q, a)  == asked' = (asked \ {q}) \cup {[q EXCEPT !.answer = a]}
Settled(i)    == IF session[i].steps THEN "steps" ELSE "empty"

-----------------------------------------------------------------------------
\* POST /recordings/start launches a browser, and answers when the target URL
\* is open (or could not be).  Without a browser, or with one that fails before
\* the session is listed, it is a 500, and nobody closes that browser.
Start(q) ==
    /\ q \in asked /\ q.kind = "start" /\ q.answer = "none"
    /\ session[q.id] = Blank /\ q.id \notin gone
    /\ \/ /\ \E to \in {"navigating", "refusing"} :
                /\ starting' = [starting EXCEPT ![q.id] = to]
                /\ session' = [session EXCEPT ![q.id] =
                     [Blank EXCEPT !.status = IF to = "refusing" THEN "stopping" ELSE "active",
                                   !.listed = TRUE, !.browser = TRUE]]
          /\ Answer(q, "working")
       \/ /\ session' \in {session, [session EXCEPT ![q.id].browser = TRUE]}
          /\ Answer(q, "error") /\ UNCHANGED starting
    /\ UNCHANGED <<finishing, deleting, completed, finished, gone, page, viewer>>

Started(q) ==
    /\ q \in asked /\ q.kind = "start" /\ q.answer = "working" /\ starting[q.id] = "navigating"
    /\ starting' = [starting EXCEPT ![q.id] = "no"]
    /\ Answer(q, "active")
    /\ UNCHANGED <<session, finishing, deleting, completed, finished, gone, page, viewer>>

\* A target URL the validation refuses: stopSession, and a 400.
RefuseUrl(q) ==
    /\ q \in asked /\ q.kind = "start" /\ q.answer = "working" /\ starting[q.id] = "refusing"
    /\ session' = [session EXCEPT ![q.id] = [@ EXCEPT !.status = "completed", !.listed = FALSE, !.browser = FALSE]]
    /\ starting' = [starting EXCEPT ![q.id] = "no"]
    /\ gone' = gone \cup {q.id}
    /\ Answer(q, "error")
    /\ UNCHANGED <<finishing, deleting, completed, finished, page, viewer>>

\* Network.loadingFinished of a request that is not skipped.
Capture(i) ==
    /\ session[i].browser /\ ~session[i].steps
    /\ session' = [session EXCEPT ![i].steps = TRUE]
    /\ UNCHANGED <<finishing, deleting, starting, completed, finished, gone, page, viewer, asked>>

\* GET /recordings/:id: a listed session is "active", also while it stops.
Status(i) == IF session[i].listed THEN "active"
             ELSE IF i \in completed THEN Settled(i) ELSE "404"
ServeGet(q) ==
    /\ q \in asked /\ q.kind \in {"poll", "visible", "resume"} /\ q.answer = "none"
    /\ Answer(q, Status(q.id))
    /\ UNCHANGED <<server, page, viewer>>

\* Mutant: the session is marked and removed after the browser was closed.
TakeLater(i) == [session[i] EXCEPT !.status = "active"]

\* Marked and removed before the first await.
Take(i) == [session[i] EXCEPT !.status = "stopping", !.listed = FALSE]

\* POST /recordings/:id/stop.
ServeStop(q) ==
    LET s == session[q.id] IN
    /\ q \in asked /\ q.kind = "stop" /\ q.answer = "none"
    /\ \/ ~s.listed /\ Answer(q, "404") /\ UNCHANGED <<session, finishing>>
       \/ s.listed /\ s.status # "active" /\ Answer(q, "409") /\ UNCHANGED <<session, finishing>>
       \/ /\ s.listed /\ s.status = "active"
          /\ session' = [session EXCEPT ![q.id] = Take(q.id)]
          /\ finishing' = [finishing EXCEPT ![q.id] = "closing"]
          /\ Answer(q, "working")
    /\ UNCHANGED <<deleting, starting, completed, finished, gone, page, viewer>>

\* The sweep, every minute: too old, or idle too long.  A start takes seconds.
Sweep(i) ==
    /\ session[i].listed /\ session[i].status = "active" /\ starting[i] = "no"
    /\ session' = [session EXCEPT ![i] = Take(i)]
    /\ finishing' = [finishing EXCEPT ![i] = "closing"]
    /\ UNCHANGED <<deleting, starting, completed, finished, gone, page, viewer, asked>>

\* finishSession: stopSession has closed the browser ...
Closed(i) ==
    /\ finishing[i] = "closing"
    /\ session' = [session EXCEPT ![i].status = "completed", ![i].browser = FALSE]
    /\ finishing' = [finishing EXCEPT ![i] = "correlating"]
    /\ UNCHANGED <<deleting, starting, completed, finished, gone, page, viewer, asked>>

\* Mutant: a result is kept only when nobody waits for the answer.
KeptFor(i) == IF \E q \in asked : q.id = i /\ q.kind = "stop" /\ q.answer = "working" THEN {} ELSE {i}

\* ... the AI calls are done, the result is kept, and a /stop answered.
Kept(i) == {i}
Finish(i) ==
    /\ finishing[i] = "correlating"
    /\ finishing' = [finishing EXCEPT ![i] = "no"]
    /\ finished' = [finished EXCEPT ![i] = @ + 1]
    /\ completed' = completed \cup Kept(i)
    /\ asked' = {IF q.id = i /\ q.kind = "stop" /\ q.answer = "working"
                 THEN [q EXCEPT !.answer = Settled(i)] ELSE q : q \in asked}
    /\ UNCHANGED <<session, deleting, starting, gone, page, viewer>>

\* A result is dropped ten to fifteen minutes later.
Expire(i) ==
    /\ i \in completed
    /\ completed' = completed \ {i}
    /\ gone' = gone \cup {i}
    /\ UNCHANGED <<session, finishing, deleting, starting, finished, page, viewer, asked>>

\* DELETE /recordings/:id stops whatever session it finds, and removes it then.
\* Nobody knows the id before the start is answered.
Delete(i) ==
    /\ session[i].listed /\ starting[i] = "no"
    /\ session' = [session EXCEPT ![i].status = "stopping"]
    /\ deleting' = deleting \cup {i}
    /\ UNCHANGED <<finishing, starting, completed, finished, gone, page, viewer, asked>>

Deleted(i) ==
    /\ i \in deleting
    /\ session' = [session EXCEPT ![i] = [@ EXCEPT !.status = "completed", !.listed = FALSE, !.browser = FALSE]]
    /\ deleting' = deleting \ {i}
    /\ gone' = gone \cup {i}
    /\ UNCHANGED <<finishing, starting, completed, finished, page, viewer, asked>>

\* A shutdown stops the browsers, a crash leaves that to the container; the
\* memory is gone with both, and whoever waits gets an error.
Restart ==
    /\ \E i \in Ids : session[i].listed \/ session[i].browser \/ finishing[i] # "no" \/ i \in completed
    /\ gone' = gone \cup {i \in Ids : session[i].status # "none"}
    /\ session' = [i \in Ids |-> Blank]
    /\ finishing' = [i \in Ids |-> "no"]
    /\ deleting' = {} /\ completed' = {}
    /\ starting' = [i \in Ids |-> "no"]
    /\ asked' = {IF q.answer \in {"none", "working"} THEN [q EXCEPT !.answer = "error"] ELSE q : q \in asked}
    /\ UNCHANGED <<finished, page, viewer>>

-----------------------------------------------------------------------------
\* The page keeps localStorage as its state is.
Shows(r) == rec' = r /\ saved' = r
\* applyStopResult: no steps, nothing imported.
Applies(q) == imported' = IF q.answer = "steps" THEN q.id ELSE imported

StartRecording(i) ==
    /\ mounted /\ rec = NoRec /\ session[i] = Blank /\ i \notin gone
    /\ \A q \in asked : q.kind = "start" => q.from = "left" /\ q.id # i
    /\ Asks(Request("page", "start", i))
    /\ UNCHANGED <<server, page, viewer>>

StopRecording ==
    /\ mounted /\ rec.status = "active"
    /\ Shows([rec EXCEPT !.status = "stopping"])
    /\ Asks(Request("page", "stop", rec.id))
    /\ UNCHANGED <<server, mounted, callback, imported, viewer>>

\* The interval, every second, and the return to the tab.
Poll ==
    /\ mounted /\ rec.status = "active"
    /\ \E kind \in {"poll", "visible"} : Asks(Request("page", kind, rec.id))
    /\ UNCHANGED <<server, page, viewer>>

\* The page is left: its requests go on, their answers change nothing it shows,
\* and its callback stays registered.
Unmount ==
    /\ mounted
    /\ mounted' = FALSE /\ rec' = NoRec /\ imported' = NoId
    /\ callback' = IF callback = "none" THEN "none" ELSE "left"
    /\ asked' = {IF q.from = "page" THEN [q EXCEPT !.from = "left"] ELSE q : q \in asked}
    /\ UNCHANGED <<server, saved, viewer>>

\* It is shown again, and asks about the recording it had.
Mount ==
    /\ ~mounted
    /\ mounted' = TRUE /\ rec' = saved
    /\ callback' = IF saved # NoRec THEN "page" ELSE callback
    /\ IF saved = NoRec THEN UNCHANGED asked ELSE Asks(Request("page", "resume", saved.id))
    /\ UNCHANGED <<server, saved, imported, viewer>>

Answered(q) == q \in asked /\ q.answer \notin {"none", "working"} /\ asked' = asked \ {q}
Ended(q)    == q.answer \in {"steps", "empty"}

\* The answer to the start: the callback is registered and the viewer tab opens,
\* even when the page was left.
Launched(q) ==
    /\ q.kind = "start" /\ Answered(q)
    /\ viewer' = [viewer EXCEPT ![q.id] = IF q.answer = "active" THEN "open" ELSE @]
    /\ callback' = IF q.answer # "active" THEN callback ELSE IF q.from = "page" THEN "page" ELSE "left"
    /\ IF q.answer = "active" /\ q.from = "page"
       THEN Shows([id |-> q.id, status |-> "active"])
       ELSE UNCHANGED <<rec, saved>>
    /\ UNCHANGED <<server, mounted, imported>>

\* The answer to anything else a page asked that was left.
Ignored(q) ==
    /\ q.from = "left" /\ q.kind # "start" /\ Answered(q)
    /\ UNCHANGED <<server, page, viewer>>

\* An answer to a GET.  An ended recording is imported and no longer shown, nor
\* is one the poll does not find (returning to the tab ignores that).  One that
\* is still active is shown as active, whatever the page shows by now.
PollAnswered(q) ==
    /\ q.kind \in {"poll", "visible", "resume"} /\ q.from = "page" /\ Answered(q)
    /\ IF Ended(q) THEN Shows(NoRec) /\ Applies(q)
       ELSE /\ IF q.answer = "active"
               THEN IF rec = NoRec \/ q.kind = "resume"
                    THEN Shows([id |-> q.id, status |-> "active"])
                    ELSE Shows([rec EXCEPT !.status = "active"])
               ELSE IF q.answer = "404" /\ q.kind # "visible" THEN Shows(NoRec) ELSE UNCHANGED <<rec, saved>>
            /\ UNCHANGED imported
    /\ UNCHANGED <<server, mounted, callback, viewer>>

\* The answer to the stop, or the two minutes are over: the poll is to find
\* the result then.
StopAnswered(q) ==
    /\ q.kind = "stop" /\ q.from = "page" /\ q \in asked
    /\ IF q.answer \in {"none", "working"}
       THEN /\ asked' = asked \ {q}
            /\ IF rec # NoRec THEN Shows([rec EXCEPT !.status = "active"]) ELSE UNCHANGED <<rec, saved>>
            /\ UNCHANGED imported
       ELSE /\ Answered(q) /\ Applies(q)
            /\ IF Ended(q) \/ q.answer = "404" THEN Shows(NoRec)
               ELSE IF rec # NoRec THEN Shows([rec EXCEPT !.status = "active"])
               ELSE UNCHANGED <<rec, saved>>
    /\ UNCHANGED <<server, mounted, callback, viewer>>

-----------------------------------------------------------------------------
\* The viewer tab polls too: any status but "active" is the end for it.
ViewerPoll(i) ==
    /\ viewer[i] = "open" /\ Status(i) # "active"
    /\ viewer' = [viewer EXCEPT ![i] = "done"]
    /\ UNCHANGED <<server, page, asked>>

ViewerStop(i) ==
    /\ viewer[i] = "open"
    /\ viewer' = [viewer EXCEPT ![i] = "stopping"]
    /\ Asks(Request("viewer", "stop", i))
    /\ UNCHANGED <<server, page>>

\* Whatever the answer says, __recordingDone gets it: the page it belongs to, if
\* it is still shown, imports the steps if there are any, and shows no recording.
\* No answer: try again.
ViewerAnswered(q) ==
    /\ q.from = "viewer" /\ Answered(q)
    /\ IF q.answer = "error"
       THEN viewer' = [viewer EXCEPT ![q.id] = "open"] /\ UNCHANGED page
       ELSE /\ viewer' = [viewer EXCEPT ![q.id] = "done"]
            /\ IF callback = "page" THEN Shows(NoRec) /\ Applies(q) ELSE UNCHANGED <<rec, saved, imported>>
            /\ callback' = "none" /\ UNCHANGED mounted
    /\ UNCHANGED server

RecorderNext ==
    \/ \E q \in asked : \/ Start(q) \/ Started(q) \/ RefuseUrl(q) \/ ServeGet(q) \/ ServeStop(q)
                        \/ Launched(q) \/ Ignored(q) \/ PollAnswered(q) \/ StopAnswered(q) \/ ViewerAnswered(q)
    \/ \E i \in Ids : \/ Capture(i) \/ Sweep(i) \/ Closed(i) \/ Finish(i) \/ Expire(i)
                      \/ Delete(i) \/ Deleted(i)
                      \/ StartRecording(i) \/ ViewerPoll(i) \/ ViewerStop(i)
    \/ Restart \/ StopRecording \/ Poll \/ Unmount \/ Mount

RecorderSpec == RecorderInit /\ [][RecorderNext]_rvars

-----------------------------------------------------------------------------
\* A recording is correlated at most once, whoever stops it: the page, the
\* viewer tab, the sweep, or several of them (index.ts 138-142, 184-186).
FinishedOnce == \A i \in Ids : finished[i] <= 1

\* A recording that was started (one that is listed) is held somewhere, its
\* browser or its steps, until it was deleted, has expired, or the service was
\* restarted.
NeverForgotten ==
    \A i \in Ids : session[i].status # "none" =>
        \/ i \in gone \/ i \in completed \/ finishing[i] # "no"
        \/ session[i].listed /\ session[i].browser
=============================================================================
