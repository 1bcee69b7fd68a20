----------------------------- MODULE MCAccounts -----------------------------
(***************************************************************************)
(* What a team has, on small instances for TLC: its members                *)
(* (TeamMembership), their sessions (Sessions) and its limits              *)
(* (TeamQuotas).  These share no state, so a behaviour is one of one of    *)
(* them: 'part' says which, and the others keep their initial state.       *)
(***************************************************************************)
EXTENDS Naturals, TLC

CONSTANTS Users, NoUser, Slots, Tokens, NoToken, IdleTimeout, TouchInterval,
          Limits, Default, Tests, NoTest, MaxUsage

VARIABLES part,
          kind, created, key, role, locked, req, missed,
          session, call, unused, over,
          quota, usage, test, job, asked, lapped, allowed, raced, revived

M == INSTANCE TeamMembership
S == INSTANCE Sessions
Q == INSTANCE TeamQuotas

ASSUME Assumptions ==
    M!MembershipAssumption /\ S!SessionsAssumption /\ Q!QuotasAssumption

mvars == <<kind, created, key, role, locked, req, missed>>
svars == <<session, call, unused, over>>
qvars == <<quota, usage, test, job, asked, lapped, allowed, raced, revived>>
allvars == <<part, mvars, svars, qvars>>

Init ==
    /\ part \in {"membership", "sessions", "quotas"}
    /\ M!MembershipInit /\ S!SessionsInit /\ Q!QuotasInit
    \* The group's kind is a choice of one part only.
    /\ part # "membership" => kind = "team"

Mem(A) == part = "membership" /\ A /\ UNCHANGED <<part, svars, qvars>>
Ses(A) == part = "sessions" /\ A /\ UNCHANGED <<part, mvars, qvars>>
Quo(A) == part = "quotas" /\ A /\ UNCHANGED <<part, mvars, svars>>

Membership ==
    \E s \in Slots :
        \/ \E u \in Users : Mem(M!Create(s, u))
        \/ \E u \in Users \cup {NoUser}, exists \in BOOLEAN : Mem(M!SetKey(s, u, exists))
        \/ \E u \in Users \cup {NoUser}, on \in Users, op \in {"add", "set", "remove"} :
              \E to \in M!Roles(kind) \cup {"none"} : Mem(M!Authorise(s, op, u, on, to))
        \/ Mem(M!AddCreator(s)) \/ Mem(M!AddMember(s)) \/ Mem(M!Begin(s))
        \/ \E u \in Users : Mem(M!LockRow(s, u))
        \/ Mem(M!Locked(s)) \/ Mem(M!Check(s)) \/ Mem(M!Write(s)) \/ Mem(M!Fail(s))

Sessions ==
    \/ \E s \in Slots :
          \/ Ses(S!RefuseIdle(s)) \/ Ses(S!Touch(s)) \/ Ses(S!Serve(s)) \/ Ses(S!SwitchTeam(s))
          \/ Ses(S!Retire(s)) \/ Ses(S!Fail(s)) \/ Ses(S!Login(s))
          \/ \E k \in Tokens : \/ Ses(S!Issue(s, k))
                               \/ \E op \in {"use", "switch"} : Ses(S!Select(s, op, k))
    \/ \E k \in Tokens : Ses(S!Logout(k)) \/ Ses(S!Expire(k))
    \/ Ses(S!Purge) \/ Ses(S!Tick)

Quotas ==
    \/ \E s \in Slots :
          \/ \E set \in [Q!Fields -> Limits \cup {0}] : Quo(Q!PutQuotas(s, set))
          \/ Quo(Q!ReadLimits(s)) \/ Quo(Q!Upsert(s))
          \/ Quo(Q!AskAI(s)) \/ Quo(Q!CountCall(s)) \/ Quo(Q!AskTrend(s))
          \/ Quo(Q!Peek(s)) \/ Quo(Q!AIAnswered(s))
          \/ \E t \in Tests : Quo(Q!SubmitTest(s, t))
          \/ Quo(Q!CountTests(s)) \/ Quo(Q!Fail(s))
    \/ \E t \in Tests : \/ Quo(Q!PendingArrives(t)) \/ Quo(Q!PendingLost(t))
                         \/ Quo(Q!EndTest(t)) \/ Quo(Q!RunningArrives(t))
    \/ Quo(Q!Midnight)

Next == Membership \/ Sessions \/ Quotas

Spec == Init /\ [][Next]_allvars

\* Only safety is checked, and no definition tells these values apart.  Tests and
\* Tokens are the same values, as no part has both.
Symmetry == Permutations(Users) \cup Permutations(Slots) \cup Permutations(Tokens)

\* Every variable of the three components keeps its type.
TypeOK == M!MembershipTypeOK /\ S!SessionsTypeOK /\ Q!QuotasTypeOK
\* A group with members keeps an admin or an owner, unless a member was added while
\* a request waited for the rows it locks (TeamMembership).
TopRemains == M!TopRemains
\* No answered request leaves member rows locked (TeamMembership).
LocksReleased == M!LocksReleased
\* A token a client knows to be over is never let in again (Sessions).
RefusedForGood == S!RefusedForGood
\* The throttled last_seen_at ends no session early (Sessions).
UseIsRemembered == S!UseIsRemembered
\* The AI calls of a day stay within the limit, and only overlapping requests, a
\* lowered limit or a row set running again take a team past its test limit
\* (TeamQuotas).
WithinLimits == Q!CallsWithinLimit /\ Q!TestsWithinLimit
\* Only overlapping updates lose one (TeamQuotas).
LimitsAsAsked == Q!LimitsAsAsked
=============================================================================
