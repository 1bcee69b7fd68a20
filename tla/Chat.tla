-------------------------------- MODULE Chat --------------------------------
(***************************************************************************)
(* The chat page: conversations that end in a test to run or in an edited  *)
(* script to save.  Every request is answered later, when the page may     *)
(* show another conversation, mode or script.                              *)
(*                                                                         *)
(* Of the entries of a conversation the cards with a button or a status    *)
(* are kept; English, Swagger and context mode are one, "parse".  A card   *)
(* is also found by its place, which in another conversation is any.       *)
(***************************************************************************)
EXTENDS Naturals, FiniteSets

CONSTANTS
    Sessions, \* the ids of conversations
    Scripts,  \* saved scripts
    NoScript,
    MaxCards, \* bound on the cards made
    MaxAsked  \* bound on the requests under way

ChatAssumption == NoScript \notin Scripts /\ {MaxCards, MaxAsked} \subseteq Nat

VARIABLES
    mode, shown, cards, thinking,
    editing, \* editScript
    history, \* chat_history: session -> the conversation, as it was saved last
    asked,   \* requests under way
    made,    \* cards made so far
    holds    \* script -> the script its text was made from

hvars == <<mode, shown, cards, thinking, editing, history, asked, made, holds>>

Card(n, kind, script, of) == [n |-> n, kind |-> kind, script |-> script, of |-> of, done |-> FALSE, hidden |-> FALSE]
CardsOf == [n : 1..MaxCards, kind : {"preview", "edit", "status"}, script : Scripts \cup {NoScript},
            of : Scripts \cup {NoScript}, done : BOOLEAN, hidden : BOOLEAN]
Request(kind, script, card, had) == [kind |-> kind, script |-> script, card |-> card, had |-> had, in |-> shown]
NotSaved == [mode |-> "none", cards |-> {}, script |-> NoScript]

ChatTypeOK ==
    /\ mode \in {"parse", "edit"} /\ shown \in Sessions /\ cards \subseteq CardsOf
    /\ thinking \in BOOLEAN /\ editing \in Scripts \cup {NoScript}
    /\ \A s \in Sessions : history[s].mode \in {"none", "parse", "edit"} /\ history[s].cards \subseteq CardsOf
    /\ \A q \in asked : q.kind \in {"fetch", "parse", "turn", "save", "run", "script", "result"}
    /\ made \in 0..MaxCards
    /\ holds \in [Scripts -> Scripts]

\* From "Edit via Chat" of the scripts page there is a script already.
ChatInit ==
    /\ \E s \in Scripts \cup {NoScript} :
          editing = s /\ mode = IF s = NoScript THEN "parse" ELSE "edit"
    /\ shown \in Sessions /\ cards = {} /\ thinking = FALSE
    /\ history = [s \in Sessions |-> NotSaved]
    /\ asked = {} /\ made = 0
    /\ holds = [s \in Scripts |-> s]

Asks(q) == Cardinality(asked) < MaxAsked /\ asked' = asked \cup {q}
Done(q) == q \in asked /\ asked' = asked \ {q}

\* The entries change: shown, and saved as the conversation shown, with the mode
\* and the script of this moment.
Shows(cs) ==
    /\ cards' = cs
    /\ history' = [history EXCEPT ![shown'] = [mode |-> mode', cards |-> cs, script |-> editing']]
\* Entries set to none are not saved.
Clears == cards' = {} /\ UNCHANGED history

Same == UNCHANGED <<mode, shown, editing>>

-----------------------------------------------------------------------------
\* A new conversation, under an id of its own; the mode stays.
StartNewChat ==
    /\ \E s \in Sessions : history[s] = NotSaved /\ shown' = s
    /\ Clears /\ editing' = NoScript
    /\ UNCHANGED <<mode, thinking, asked, made, holds>>

\* A conversation of the history.  Its script is asked for; until it is there the
\* page, and what it saves, has the script it had.
LoadSession(s) ==
    LET old == history[s] IN
    /\ old.mode # "none"
    /\ shown' = s /\ mode' = old.mode
    /\ IF old.script = NoScript
       THEN editing' = NoScript /\ UNCHANGED asked
       ELSE Asks([Request("script", old.script, 0, {}) EXCEPT !.in = s]) /\ UNCHANGED editing
    /\ Shows(old.cards)
    /\ UNCHANGED <<thinking, made, holds>>

RemoveSession(s) ==
    /\ history[s] # NotSaved
    /\ history' = [history EXCEPT ![s] = NotSaved]
    /\ IF s = shown
       THEN (\E t \in Sessions : history'[t] = NotSaved /\ shown' = t) /\ cards' = {} /\ editing' = NoScript
       ELSE UNCHANGED <<shown, cards, editing>>
    /\ UNCHANGED <<mode, thinking, asked, made, holds>>

\* The mode is changed, or another script wanted: the entries go, the id stays.
ChangeMode ==
    /\ mode' \in {"parse", "edit"}
    /\ Clears /\ editing' = NoScript
    /\ UNCHANGED <<shown, thinking, asked, made, holds>>

PickScript(s) ==
    /\ mode = "edit" /\ editing = NoScript
    /\ editing' = s
    /\ UNCHANGED <<mode, shown, cards, thinking, history, asked, made, holds>>

-----------------------------------------------------------------------------
\* handleSend: a Swagger URL is fetched first; the page takes more input meanwhile.
Send ==
    /\ mode = "parse" /\ ~thinking
    /\ Same
    /\ \/ Asks(Request("fetch", NoScript, 0, cards)) /\ UNCHANGED <<cards, history, thinking>>
       \/ Asks(Request("parse", NoScript, 0, {})) /\ thinking' = TRUE /\ Shows(cards)
    /\ UNCHANGED <<made, holds>>

\* The entries are then those of before, and the message.
Fetched(q) ==
    /\ q.kind = "fetch" /\ q \in asked
    /\ asked' = (asked \ {q}) \cup {Request("parse", NoScript, 0, {})}
    /\ thinking' = TRUE
    /\ Same /\ Shows(q.had)
    /\ UNCHANGED <<made, holds>>

\* handleEditTurn.
EditTurn ==
    /\ mode = "edit" /\ ~thinking /\ editing # NoScript
    /\ Asks(Request("turn", editing, 0, {}))
    /\ thinking' = TRUE
    /\ Same /\ Shows(cards)
    /\ UNCHANGED <<made, holds>>

\* Mutant: the edit is taken for one of the script the page shows now.
TargetNow(q) == IF q.kind = "turn" /\ editing # NoScript THEN editing ELSE q.script

\* The answer becomes an entry of whatever the page shows: a question, a test, a
\* flow, or the edited script; or there is an error.
Target(q) == q.script
TurnAnswered(q) ==
    /\ q.kind \in {"parse", "turn"} /\ Done(q)
    /\ thinking' = FALSE
    /\ Same
    /\ \/ UNCHANGED <<cards, history, made>>
       \/ /\ made < MaxCards
          /\ made' = made + 1
          /\ Shows(cards \cup {Card(made', IF q.kind = "turn" THEN "edit" ELSE "preview", Target(q), q.script)})
    /\ UNCHANGED holds

\* The buttons of a card: once it was started, saved or put aside there are none.
Offered(c) == c \in cards /\ ~c.done /\ ~c.hidden
Marked(cs, n, done) == {IF c.n = n THEN [c EXCEPT !.done = done] ELSE c : c \in cs}

KeepChatting(c) ==
    /\ Offered(c) /\ c.kind \in {"preview", "edit"}
    /\ Same /\ Shows((cards \ {c}) \cup {[c EXCEPT !.hidden = TRUE]})
    /\ UNCHANGED <<thinking, asked, made, holds>>

\* handleRunTest and handleRunFlowTest.
RunTest(c) ==
    /\ Offered(c) /\ c.kind = "preview"
    /\ Asks(Request("run", NoScript, c.n, {}))
    /\ Same /\ Shows(Marked(cards, c.n, TRUE))
    /\ UNCHANGED <<thinking, made, holds>>

\* The place of the card, in what the page shows by now.
Place(q) == IF q.in = shown /\ (\E c \in cards : c.n = q.card) THEN {q.card} ELSE {c.n : c \in cards} \cup {0}

\* The status of a test that was started takes the place of its preview, which has
\* no buttons any more, or is another card of another conversation.
RunAnswered(q) ==
    /\ q.kind = "run" /\ Done(q)
    /\ Same
    /\ \/ Shows({c \in cards : c.n # q.card} \cup {Card(q.card, "status", NoScript, NoScript)})
       \/ \E n \in Place(q) : Shows(Marked(cards, n, FALSE))
    /\ UNCHANGED <<thinking, made, holds>>

\* handleSaveScriptEdit: PUT /scripts/:id; the button stays until it is answered.
SaveScriptEdit(c) ==
    /\ Offered(c) /\ c.kind = "edit"
    /\ Asks(Request("save", c.script, c.n, {}))
    /\ holds' = [holds EXCEPT ![c.script] = c.of]
    /\ UNCHANGED <<mode, shown, cards, thinking, editing, history, made>>
SaveAnswered(q) ==
    /\ q.kind = "save" /\ Done(q)
    /\ Same
    /\ \/ \E n \in Place(q) : Shows(Marked(cards, n, TRUE))
       \/ UNCHANGED <<cards, history>>
    /\ UNCHANGED <<thinking, made, holds>>

\* The script of a loaded conversation is there, or is not to be had.
ScriptAnswered(q) ==
    /\ q.kind = "script" /\ Done(q)
    /\ editing' \in {q.script, NoScript}
    /\ UNCHANGED <<mode, shown, cards, thinking, history, made, holds>>

\* The end of a test, over the web socket, or asked for after a reconnection and
\* when a conversation is loaded.
StatusArrives(c) ==
    /\ c \in cards /\ c.kind = "status" /\ ~c.done
    /\ Same /\ Shows(Marked(cards, c.n, TRUE))
    /\ UNCHANGED <<thinking, asked, made, holds>>

ChatNext ==
    \/ StartNewChat \/ ChangeMode \/ Send \/ EditTurn
    \/ \E s \in Sessions : LoadSession(s) \/ RemoveSession(s)
    \/ \E s \in Scripts : PickScript(s)
    \/ \E q \in asked : Fetched(q) \/ TurnAnswered(q) \/ RunAnswered(q) \/ SaveAnswered(q) \/ ScriptAnswered(q)
    \/ \E c \in cards : KeepChatting(c) \/ RunTest(c) \/ SaveScriptEdit(c) \/ StatusArrives(c)

ChatSpec == ChatInit /\ [][ChatNext]_hvars

-----------------------------------------------------------------------------
\* Whatever conversation an answer lands in, whichever script the page shows then,
\* and from wherever it is saved: a script only ever gets an edit of itself.
EditsOfItself == \A s \in Scripts : holds[s] = s
=============================================================================
