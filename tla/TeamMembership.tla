--------------------------- MODULE TeamMembership ---------------------------
(***************************************************************************)
(* The members of one team or one organisation, and the requests that add, *)
(* promote, demote and remove them (results-service, routes/teams.ts).     *)
(* Teams and organisations have the same handlers over different tables    *)
(* and roles.  A request is authorised by one query and does its work in   *)
(* later ones: the caller may have lost the role in between.  PUT and      *)
(* DELETE lock the member rows (SELECT ... FOR UPDATE) and count the other *)
(* admins or owners before they write; an INSERT waits for nobody.         *)
(*                                                                         *)
(* PostgreSQL runs these transactions under READ COMMITTED: each statement *)
(* sees what is committed when it starts.  A SELECT ... FOR UPDATE that    *)
(* waits for a row still locks the rows it found at its start only: those  *)
(* inserted meanwhile it does not lock, those deleted meanwhile it skips.  *)
(***************************************************************************)
EXTENDS FiniteSets

CONSTANTS
    Users,  \* the users that exist
    NoUser, \* no user
    Slots   \* requests the service can have under way

MembershipAssumption == NoUser \notin Users

VARIABLES
    kind,    \* the group is a "team" or an "org"
    created, \* its row exists
    key,     \* the team has an API key that is not revoked
    role,    \* team_members or org_members: the role of each user, or "none"
    locked,  \* the rows each request's transaction has locked
    req,     \* the requests
    missed   \* a member was added while a SELECT ... FOR UPDATE was waiting

mvars == <<kind, created, key, role, locked, req, missed>>

Top      == IF kind = "team" THEN "admin" ELSE "owner"
Editors  == IF kind = "team" THEN {"admin"} ELSE {"owner", "admin"}
Roles(k) == IF k = "team" THEN {"admin", "member", "viewer"} ELSE {"owner", "admin", "member"}

Members == {u \in Users : role[u] # "none"}
Others(u) == {v \in Users \ {u} : role[v] = Top}

Steps == {"idle", "creating", "authorised", "locking", "checking", "writing"}
Free  == [pc |-> "idle", op |-> "none", on |-> NoUser, to |-> "none", left |-> {}]
Requests == [pc : Steps, op : {"none", "create", "add", "set", "remove"},
             on : Users \cup {NoUser},
             to : Roles("team") \cup Roles("org") \cup {"none"},
             left : SUBSET Users]  \* rows the SELECT has found and not locked yet

MembershipTypeOK ==
    /\ kind \in {"team", "org"} /\ created \in BOOLEAN /\ key \in BOOLEAN
    /\ role \in [Users -> Roles(kind) \cup {"none"}]
    /\ locked \in [Slots -> SUBSET Users]
    /\ req \in [Slots -> Requests] /\ missed \in BOOLEAN
    /\ \A s \in Slots : /\ req[s].pc # "idle" => req[s].on \in Users
                        /\ req[s].op = "remove" => req[s].to = "none"

MembershipInit ==
    /\ kind \in {"team", "org"}
    /\ created = FALSE /\ key = FALSE
    /\ role = [u \in Users |-> "none"]
    /\ locked = [s \in Slots |-> {}]
    /\ req = [s \in Slots |-> Free]
    /\ missed = FALSE

At(s, pc) == req[s].pc = pc
Goto(s, pc) == req' = [req EXCEPT ![s].pc = pc]
\* The request is answered; its transaction, if it had one, is over.
Answer(s) == /\ req' = [req EXCEPT ![s] = Free]
             /\ locked' = [locked EXCEPT ![s] = {}]
\* Mutant: an early return without ROLLBACK leaves the locks behind.
AnswerHolding(s) == req' = [req EXCEPT ![s] = Free] /\ UNCHANGED locked

-----------------------------------------------------------------------------
\* POST /teams and POST /orgs: the group's row, and in a statement of its own ...
Create(s, u) ==
    /\ At(s, "idle") /\ ~created
    /\ created' = TRUE
    /\ req' = [req EXCEPT ![s] = [pc |-> "creating", op |-> "create", on |-> u, to |-> Top, left |-> {}]]
    /\ UNCHANGED <<kind, key, role, locked, missed>>

\* ... its first admin or owner.
AddCreator(s) ==
    /\ At(s, "creating")
    /\ role' = [role EXCEPT ![req[s].on] = req[s].to]
    /\ Answer(s)
    /\ UNCHANGED <<kind, created, key, missed>>

\* The caller's role is read; anybody but an editor gets 403.  An API key of the
\* team counts as an admin, and has no user.
Authorised(u) == IF u = NoUser THEN key ELSE role[u] \in Editors

\* Mutant: the role in the body is not validated.
AuthoriseAny(s, op, u, on, to) ==
    /\ At(s, "idle")
    /\ Authorised(u)
    /\ req' = [req EXCEPT ![s] = [pc |-> "authorised", op |-> op, on |-> on, to |-> to, left |-> {}]]
    /\ UNCHANGED <<kind, created, key, role, locked, missed>>

Authorise(s, op, u, on, to) ==
    /\ At(s, "idle")
    /\ Authorised(u)
    /\ op = "remove" <=> to = "none"
    /\ req' = [req EXCEPT ![s] = [pc |-> "authorised", op |-> op, on |-> on, to |-> to, left |-> {}]]
    /\ UNCHANGED <<kind, created, key, role, locked, missed>>

\* POST and DELETE api-keys: one statement each.
SetKey(s, u, exists) ==
    /\ At(s, "idle")
    /\ kind = "team" /\ Authorised(u)
    /\ key' = exists
    /\ UNCHANGED <<kind, created, role, locked, req, missed>>

\* POST members: a user who is one already is 409.
AddMember(s) ==
    /\ At(s, "authorised") /\ req[s].op = "add"
    /\ IF role[req[s].on] = "none"
       THEN /\ role' = [role EXCEPT ![req[s].on] = req[s].to]
            /\ missed' = (missed \/ \E t \in Slots : At(t, "locking"))
       ELSE UNCHANGED <<role, missed>>
    /\ Answer(s)
    /\ UNCHANGED <<kind, created, key>>

\* BEGIN, and SELECT 1 ... FOR UPDATE finds the rows there are.
Begin(s) ==
    /\ At(s, "authorised") /\ req[s].op \in {"set", "remove"}
    /\ req' = [req EXCEPT ![s].pc = "locking", ![s].left = Members]
    /\ UNCHANGED <<kind, created, key, role, locked, missed>>

\* Rows another transaction holds: a statement that needs one waits.  Of two that
\* wait for each other PostgreSQL fails one.
Held(s) == UNION {locked[t] : t \in Slots \ {s}}

\* Mutant: SELECT without FOR UPDATE.
ReadRow(s, u) ==
    /\ At(s, "locking") /\ u \in req[s].left
    /\ req' = [req EXCEPT ![s].left = @ \ {u}]
    /\ UNCHANGED <<kind, created, key, role, locked, missed>>

\* It locks them one by one ...
LockRow(s, u) ==
    /\ At(s, "locking") /\ u \in req[s].left \ Held(s)
    /\ req' = [req EXCEPT ![s].left = @ \ {u}]
    /\ locked' = [locked EXCEPT ![s] = @ \cup {u}]
    /\ UNCHANGED <<kind, created, key, role, missed>>

\* ... and returns.
Locked(s) ==
    /\ At(s, "locking") /\ req[s].left = {}
    /\ Goto(s, "checking")
    /\ UNCHANGED <<kind, created, key, role, locked, missed>>

\* PUT asks for another top member whoever it demotes, DELETE only when it
\* removes one.
LastTop(s) ==
    /\ Others(req[s].on) = {}
    /\ IF req[s].op = "set" THEN req[s].to # Top ELSE role[req[s].on] = Top

\* DELETE of somebody who is no member: 404.
Missing(s) == req[s].op = "remove" /\ role[req[s].on] = "none"

\* Mutant: the count is made and its refusal rolled back nowhere.
CheckHolding(s) ==
    /\ At(s, "checking")
    /\ IF Missing(s) \/ LastTop(s)
       THEN AnswerHolding(s)
       ELSE Goto(s, "writing") /\ UNCHANGED locked
    /\ UNCHANGED <<kind, created, key, role, missed>>

\* The role and the count are read: 404, 409 or on to the write.
Check(s) ==
    /\ At(s, "checking")
    /\ IF Missing(s) \/ LastTop(s)
       THEN Answer(s)
       ELSE Goto(s, "writing") /\ UNCHANGED locked
    /\ UNCHANGED <<kind, created, key, role, missed>>

\* A SELECT that is waiting skips a row that is gone.
Skipping(u) == [t \in Slots |-> [req[t] EXCEPT !.left = @ \ {u}]]

\* UPDATE or DELETE, and COMMIT; without a row PUT is 404 and rolls back.
Write(s) ==
    /\ At(s, "writing")
    /\ req[s].on \notin Held(s)
    /\ role' = IF role[req[s].on] = "none" THEN role ELSE [role EXCEPT ![req[s].on] = req[s].to]
    /\ req' = [(IF req[s].op = "remove" THEN Skipping(req[s].on) ELSE req) EXCEPT ![s] = Free]
    /\ locked' = [locked EXCEPT ![s] = {}]
    /\ UNCHANGED <<kind, created, key, missed>>

\* A statement fails or the process ends: the transaction is rolled back.
Fail(s) ==
    /\ ~At(s, "idle")
    /\ Answer(s)
    /\ UNCHANGED <<kind, created, key, role, missed>>

MembershipNext ==
    \E s \in Slots :
        \/ \E u \in Users : Create(s, u)
        \/ \E u \in Users \cup {NoUser}, exists \in BOOLEAN : SetKey(s, u, exists)
        \/ \E u \in Users \cup {NoUser}, on \in Users, op \in {"add", "set", "remove"}, to \in Roles(kind) \cup {"none"} :
              Authorise(s, op, u, on, to)
        \/ \E u \in Users : LockRow(s, u)
        \/ AddCreator(s) \/ AddMember(s) \/ Begin(s) \/ Locked(s) \/ Check(s) \/ Write(s) \/ Fail(s)

MembershipSpec == MembershipInit /\ [][MembershipNext]_mvars

-----------------------------------------------------------------------------
\* A team with members keeps an admin, an organisation an owner, however many
\* administrators demote and remove each other at the same time, unless somebody
\* was made a member while such a request waited for its locks: the new row is
\* not among them, and two requests that lock different rows no longer wait for
\* each other (teams.ts 93-115, 131-155, 375-397, 416-440).
TopRemains == missed \/ Members = {} \/ \E u \in Users : role[u] = Top

\* An answered request leaves no member row locked: whichever way a PUT or
\* DELETE ends, its transaction ends with it and the next one is not kept
\* waiting forever (teams.ts 102, 118, 139, 149, 384, 400).
LocksReleased == \A s \in Slots : locked[s] # {} => req[s].pc \in {"locking", "checking", "writing"}
=============================================================================
