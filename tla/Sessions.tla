------------------------------ MODULE Sessions ------------------------------
(***************************************************************************)
(* Login sessions: rows of the table sessions, found by the hash of the    *)
(* cookie's token (results-service session.ts, routes/auth.ts and the hook *)
(* of app.ts; api-service session.ts reads the same rows the same way).    *)
(* Every query is a step of its own, and requests with one token overlap.  *)
(* Time passes in ticks: a row ages since its last_seen_at, which is only  *)
(* written when it is older than the touch interval.  Whose session it is, *)
(* and which team's role the request then has, is left to TeamMembership:  *)
(* here a request is let in, or refused because of its session.            *)
(***************************************************************************)
EXTENDS Integers

CONSTANTS
    Tokens,          \* the tokens that can be drawn, each once
    NoToken,         \* no cookie
    Slots,           \* requests under way
    IdleTimeout,     \* SESSION_IDLE_TIMEOUT_MS, in ticks
    TouchInterval    \* SESSION_LAST_SEEN_TOUCH_INTERVAL_MS, in ticks

SessionsAssumption ==
    /\ NoToken \notin Tokens
    /\ TouchInterval \in Nat /\ IdleTimeout \in Nat /\ TouchInterval < IdleTimeout

VARIABLES
    session, \* the row of each token
    call,    \* requests under way
    unused,  \* ticks since a request with the token was last noticed
    over     \* tokens a client knows to be over: a 401, a logout, a rotation

svars == <<session, call, unused, over>>

Ages == 0..(IdleTimeout + 1)
Row  == [status : {"unissued", "live", "revoked", "deleted"}, age : Ages, expired : BOOLEAN]
\* The age and the expiry of a row that is not live are never looked at.
Dead(status) == [status |-> status, age |-> 0, expired |-> FALSE]

Calls == [pc : {"free", "idle", "touch", "role", "issue", "retire"},
          op : {"none", "use", "switch", "login"}, k : Tokens \cup {NoToken}, late : BOOLEAN]
Free  == [pc |-> "free", op |-> "none", k |-> NoToken, late |-> FALSE]

SessionsTypeOK ==
    /\ session \in [Tokens -> Row]
    /\ call \in [Slots -> Calls]
    /\ \A s \in Slots : call[s].pc \in {"idle", "touch", "role", "retire"} => call[s].k \in Tokens
    /\ unused \in [Tokens -> Ages]
    /\ over \subseteq Tokens

SessionsInit ==
    /\ session = [k \in Tokens |-> Dead("unissued")]
    /\ call = [s \in Slots |-> Free]
    /\ unused = [k \in Tokens |-> 0]
    /\ over = {}

At(s, pc)    == call[s].pc = pc
Goto(s, pc)  == call' = [call EXCEPT ![s].pc = pc]
Answer(s)    == call' = [call EXCEPT ![s] = Free]
Revoked(k)   == IF session[k].status = "live" THEN [session EXCEPT ![k] = Dead("revoked")] ELSE session

-----------------------------------------------------------------------------
\* WHERE revoked_at IS NULL AND expires_at > NOW().
Found(k) == session[k].status = "live" /\ ~session[k].expired

\* Mutant: last_seen_at is written only once it is too late.
NextStepLate(age) == IF age > IdleTimeout THEN "idle" ELSE "role"

\* What getSession does with the row it read.
NextStep(age) == IF age > IdleTimeout THEN "idle" ELSE IF age > TouchInterval THEN "touch" ELSE "role"

\* getSession's SELECT, for a request that uses the session or switches the
\* team.  The refusal is 401.
Select(s, op, k) ==
    LET next == NextStep(session[k].age) IN
    /\ At(s, "free")
    /\ session[k].status # "unissued"
    /\ IF Found(k)
       THEN /\ call' = [call EXCEPT ![s] = [pc |-> next, op |-> op, k |-> k, late |-> k \in over]]
            /\ unused' = IF next = "role" THEN [unused EXCEPT ![k] = 0] ELSE unused
            /\ UNCHANGED over
       ELSE over' = over \cup {k} /\ UNCHANGED <<call, unused>>
    /\ UNCHANGED session

\* Mutant: an idle session is refused and left as it is.
RefuseIdleOnly(s) ==
    /\ At(s, "idle")
    /\ over' = over \cup {call[s].k}
    /\ Answer(s)
    /\ UNCHANGED <<session, unused>>

\* An idle session is revoked, and the request refused.
RefuseIdle(s) ==
    /\ At(s, "idle")
    /\ session' = Revoked(call[s].k)
    /\ over' = over \cup {call[s].k}
    /\ Answer(s)
    /\ UNCHANGED unused

\* last_seen_at = NOW(), whatever has happened to the row since it was read.
Touch(s) ==
    LET k == call[s].k IN
    /\ At(s, "touch")
    /\ session' = IF session[k].status = "live" THEN [session EXCEPT ![k].age = 0] ELSE session
    /\ unused' = [unused EXCEPT ![k] = 0]
    /\ Goto(s, "role")
    /\ UNCHANGED over

\* The role in the session's team: the route serves the request or says 403.
Serve(s) ==
    /\ At(s, "role") /\ call[s].op = "use"
    /\ Answer(s)
    /\ UNCHANGED <<session, unused, over>>

\* POST /auth/switch-team: 403 for somebody who is no member.
SwitchTeam(s) ==
    /\ At(s, "role") /\ call[s].op = "switch"
    /\ Goto(s, "issue") \/ Answer(s)
    /\ UNCHANGED <<session, unused, over>>

\* POST /auth/register, up to COMMIT, and POST /auth/login, up to the password.
Login(s) ==
    /\ At(s, "free")
    /\ call' = [call EXCEPT ![s] = [Free EXCEPT !.pc = "issue", !.op = "login"]]
    /\ UNCHANGED <<session, unused, over>>

\* createSession.
Issue(s, k) ==
    /\ At(s, "issue")
    /\ session[k].status = "unissued"
    /\ session' = [session EXCEPT ![k].status = "live"]
    /\ IF call[s].op = "switch" THEN Goto(s, "retire") ELSE Answer(s)
    /\ UNCHANGED <<unused, over>>

\* switchSessionTeam revokes the old token after the new one exists.
Retire(s) ==
    /\ At(s, "retire")
    /\ session' = Revoked(call[s].k)
    /\ over' = over \cup {call[s].k}
    /\ Answer(s)
    /\ UNCHANGED unused

\* POST /auth/logout: revokeSession, whoever asks.
Logout(k) ==
    /\ session[k].status # "unissued"
    /\ session' = Revoked(k)
    /\ over' = over \cup {k}
    /\ UNCHANGED <<call, unused>>

\* A statement fails or the process ends.
Fail(s) ==
    /\ ~At(s, "free")
    /\ Answer(s)
    /\ UNCHANGED <<session, unused, over>>

\* cleanup.ts: expired and revoked rows go.
Purge ==
    /\ \E k \in Tokens : session[k].status = "revoked" \/ session[k].expired
    /\ session' = [k \in Tokens |->
                     IF session[k].status = "revoked" \/ session[k].expired
                     THEN Dead("deleted") ELSE session[k]]
    /\ UNCHANGED <<call, unused, over>>

Older(age) == IF age > IdleTimeout THEN age ELSE age + 1

Tick ==
    /\ session' = [k \in Tokens |-> IF session[k].status = "live"
                                    THEN [session[k] EXCEPT !.age = Older(@)] ELSE session[k]]
    /\ unused' = [k \in Tokens |-> IF session[k].status = "live" THEN Older(unused[k]) ELSE unused[k]]
    /\ UNCHANGED <<call, over>>

\* 30 days after it was issued, however much it is used.
Expire(k) ==
    /\ Found(k)
    /\ session' = [session EXCEPT ![k].expired = TRUE]
    /\ UNCHANGED <<call, unused, over>>

Step(s) == RefuseIdle(s) \/ Touch(s) \/ Serve(s) \/ SwitchTeam(s) \/ Retire(s)

SessionsNext ==
    \/ \E s \in Slots :
          \/ Step(s) \/ Fail(s)
          \/ Login(s)
          \/ \E k \in Tokens : Issue(s, k) \/ \E op \in {"use", "switch"} : Select(s, op, k)
    \/ \E k \in Tokens : Logout(k) \/ Expire(k)
    \/ Purge \/ Tick

SessionsSpec == SessionsInit /\ [][SessionsNext]_svars

-----------------------------------------------------------------------------
\* Once a client was told that a token is over, by a 401, by its logout or by
\* the answer to a switch, no later request with it is let in: not even when
\* an older request is still about to write last_seen_at
\* (session.ts 49-57, 76-85).
RefusedForGood == \A s \in Slots : ~call[s].late

\* Throttling the writes of last_seen_at ends no session early: a row lags
\* behind the last request that was noticed by the touch interval at most, so
\* whoever comes back within the rest of the idle timeout stays logged in
\* (session.ts 49-57).
UseIsRemembered ==
    \A k \in Tokens :
        session[k].status = "live" => session[k].age <= unused[k] + TouchInterval
=============================================================================
