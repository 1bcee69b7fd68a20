----------------------------- MODULE ResultView -----------------------------
(***************************************************************************)
(* The result page of one test, and how it learns what becomes of the row: *)
(* results-service writes the row and then tells every open page           *)
(* (results.ts, consumer.ts, cleanup.ts, ws.ts), the page reads the row    *)
(* when it is told to, after a reconnection, and every 20 seconds while it *)
(* shows a test that is not over (results/testId/page.tsx).                *)
(*                                                                         *)
(* The row is the sequence of its versions: a read asks a replica that may *)
(* be behind, and its answer may be late, so it is one of any of them.     *)
(***************************************************************************)
EXTENDS Naturals, Sequences, FiniteSets

CONSTANTS
    None,      \* no row, or nothing shown
    MaxWrites, \* bound on the versions of the row
    MaxAsked   \* bound on the requests of the page under way

ResultViewAssumption == {MaxWrites, MaxAsked} \subseteq Nat

VARIABLES
    row,       \* the versions of the row: [status, metrics]
    unsent,    \* versions written, the broadcast not made yet
    events,    \* statuses on their way to the page
    connected, \* the web socket of the page
    shown,     \* what the page shows of the row, or None
    asked,     \* GET /results/:testId under way
    unread     \* one of them failed, and none was answered since

vvars == <<row, unsent, events, connected, shown, asked, unread>>

Active   == {"pending", "running"}
Over     == {"completed", "failed", "cancelled"}
Versions == [status : Active \cup Over, metrics : BOOLEAN]
Version(status, metrics) == [status |-> status, metrics |-> metrics]
Now == IF row = <<>> THEN None ELSE row[Len(row)]

ViewTypeOK ==
    /\ Len(row) <= MaxWrites /\ \A n \in DOMAIN row : row[n] \in Versions
    /\ unsent \subseteq DOMAIN row /\ events \subseteq Active \cup Over
    /\ connected \in BOOLEAN /\ unread \in BOOLEAN
    /\ shown \in Versions \cup {None} /\ asked \in 0..MaxAsked

\* The page is opened at any time, even before POST /results/pending was served,
\* which nobody waits for.
ViewInit ==
    /\ row \in {<<>>, <<Version("pending", FALSE)>>}
    /\ shown \in {None, Now}
    /\ unsent = {} /\ events = {} /\ connected = TRUE /\ asked = 0 /\ unread = FALSE

-----------------------------------------------------------------------------
Page == <<shown, asked, unread, connected>>

\* A version is written; the broadcast comes after, and from one of several replicas.
Writes(version) ==
    /\ Len(row) < MaxWrites
    /\ row' = Append(row, version)
    /\ unsent' = unsent \cup {Len(row')}
    /\ UNCHANGED <<events, Page>>

\* POST /results/pending: nobody is told, and a row that is there stays.
Pending ==
    /\ row = <<>>
    /\ row' = <<Version("pending", FALSE)>>
    /\ UNCHANGED <<unsent, events, Page>>

\* POST /results/:testId/running: whatever the status is, and told even when
\* there is no row.
Running ==
    \/ Now # None /\ Writes([Now EXCEPT !.status = "running"])
    \/ /\ Now = None /\ connected
       /\ events' = events \cup {"running"}
       /\ UNCHANGED <<row, unsent, Page>>

\* POST /results/:testId/fail and /cancel, and the sweep of tests nobody ended.
IsActive == Now # None /\ Now.status \in Active
Fail == IsActive /\ Writes([Now EXCEPT !.status = "failed"])
Cancel == IsActive /\ Writes([Now EXCEPT !.status = "cancelled"])

\* handleResult: written whatever the row says.
Result == Writes(Version("completed", TRUE))

\* broadcast: to the pages of this replica, and over Redis to the others, who miss
\* what Redis does not deliver.
Broadcast(n) ==
    /\ n \in unsent /\ unsent' = unsent \ {n}
    /\ \/ connected /\ events' = events \cup {row[n].status}
       \/ UNCHANGED events
    /\ UNCHANGED <<row, Page>>

-----------------------------------------------------------------------------
Asks == asked < MaxAsked /\ asked' = asked + 1

\* The socket breaks, with what is on its way; a reconnected page asks for the row.
Disconnect ==
    /\ connected /\ connected' = FALSE /\ events' = {}
    /\ UNCHANGED <<row, unsent, shown, asked, unread>>
Reconnect ==
    /\ ~connected /\ connected' = TRUE /\ Asks
    /\ UNCHANGED <<row, unsent, events, shown, unread>>

\* Mutant: only a running test is asked for again.
PollsRunning(v) == v # None /\ v.status = "running"

\* The poll runs as long as the page shows a test that is not over.
Polls(v) == v # None /\ v.status \in Active

Poll ==
    /\ Polls(shown) /\ Asks
    /\ UNCHANGED <<row, unsent, events, connected, shown, unread>>

\* A status arrives: the page shows it, if it shows anything, and asks for the rest
\* of a test that runs or is completed.  The metrics it shows stay.
StatusArrives(s) ==
    /\ s \in events /\ events' = events \ {s}
    /\ shown' = IF shown = None THEN None ELSE [shown EXCEPT !.status = s]
    /\ IF s \in {"running", "completed"} THEN Asks ELSE UNCHANGED asked
    /\ UNCHANGED <<row, unsent, connected, unread>>

\* A live point arrives and the page shows a test that waits: it missed something.
PointArrives ==
    /\ connected /\ shown # None /\ shown.status = "pending"
    /\ \E n \in DOMAIN row : row[n].status = "running"
    /\ Asks
    /\ UNCHANGED <<row, unsent, events, connected, shown, unread>>

\* An answer: a version of the row, 404, or an error, which the page ignores.
Answered ==
    /\ asked > 0 /\ asked' = asked - 1
    /\ \/ \E n \in DOMAIN row : shown' = row[n] /\ unread' = FALSE
       \/ unread' = TRUE /\ UNCHANGED shown
    /\ UNCHANGED <<row, unsent, events, connected>>

\* The Stop button: POST /tests/:testId/cancel, and the row is asked for; the
\* buttons of the baseline, of a completed test, ask for it too.
Button ==
    /\ shown # None
    /\ \/ Polls(shown) /\ IsActive /\ Len(row) < MaxWrites
          /\ row' = Append(row, [Now EXCEPT !.status = "cancelled"]) /\ unsent' = unsent \cup {Len(row')}
       \/ shown.status = "completed" /\ UNCHANGED <<row, unsent>>
    /\ Asks
    /\ UNCHANGED <<events, connected, shown, unread>>

\* Loaded again: the row, or nothing when it cannot be had.
Load ==
    /\ shown' \in {row[n] : n \in DOMAIN row} \cup {None}
    /\ UNCHANGED <<row, unsent, events, connected, asked, unread>>

ViewNext ==
    \/ Pending \/ Running \/ Fail \/ Cancel \/ Result
    \/ \E n \in unsent : Broadcast(n)
    \/ Disconnect \/ Reconnect \/ Poll \/ PointArrives \/ Answered \/ Button \/ Load
    \/ \E s \in events : StatusArrives(s)

ViewSpec == ViewInit /\ [][ViewNext]_vvars

-----------------------------------------------------------------------------
\* A test that was over was written again: a late "running", or a result after a
\* failure or a cancellation.
Rewritten == \E n \in 1..Len(row) - 1 : row[n].status \in Over

\* Unless that happened, a page that shows something else than the row is still
\* going to learn about it; what it shows of a completed test may lack its metrics
\* for good only if the request for them failed.
StaleHeals ==
    \/ Rewritten \/ shown = None \/ Now = None
    \/ shown = Now
    \/ shown.status = "completed" /\ unread
    \/ Polls(shown) \/ ~connected \/ asked > 0 \/ events # {} \/ unsent # {}
=============================================================================
