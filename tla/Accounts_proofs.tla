--------------------------- MODULE Accounts_proofs ---------------------------
(***************************************************************************)
(* What holds of the members, sessions and limits of a team for any number *)
(* of users, tokens, tests and requests under way: every property that     *)
(* MCAccounts' run checks, each from an inductive invariant of its own     *)
(* component.  The components share no variable, so a step of one leaves   *)
(* the invariants of the others as they are.                               *)
(***************************************************************************)
EXTENDS MCAccounts, FiniteSetTheorems, WellFoundedInduction, TLAPS

-----------------------------------------------------------------------------
\* Members.  A group that does not exist has nothing, and while its creator is
\* being added nobody else can have been let in, for nobody has a role yet.
Founded ==
    /\ ~created => ~key /\ M!Members = {} /\ \A s \in Slots : req[s].pc = "idle"
    /\ \A s \in Slots : req[s].pc = "creating" =>
          /\ M!Members = {} /\ ~key /\ req[s].to = M!Top
          /\ \A t \in Slots \ {s} : req[t].pc = "idle"

\* Locks are held from the SELECT ... FOR UPDATE to the answer, on rows that stay
\* rows of members, each row by one request at a time.
InHand == {"locking", "checking", "writing"}
LocksHeld ==
    /\ \A s \in Slots : /\ req[s].pc \notin InHand => locked[s] = {}
                        /\ locked[s] \subseteq M!Members /\ req[s].left \subseteq M!Members
    /\ \A s, t \in Slots : s # t => locked[s] \cap locked[t] = {}

\* As long as nobody was added past a waiting SELECT: whoever was let in leaves a
\* group with members, which never loses its last one ...
Peopled ==
    /\ \A s \in Slots : req[s].pc \notin {"idle", "creating"} => M!Members # {}
    /\ key => M!Members # {}

\* ... a SELECT has locked or found every member there is, so when it returns no
\* other request holds a row, and whoever comes next waits for it ...
InTurn ==
    /\ \A s \in Slots : req[s].pc = "locking" => M!Members = locked[s] \cup req[s].left
    /\ \A s \in Slots : req[s].pc \in {"checking", "writing"} => locked[s] # {}
    /\ \A s, t \in Slots : req[s].pc \in {"checking", "writing"} /\ req[t].pc \in {"checking", "writing"} => s = t

\* ... and what a request found when it counted still holds when it writes.
WriteIsSafe(s) ==
    IF req[s].op = "set" THEN req[s].to = M!Top \/ M!Others(req[s].on) # {}
    ELSE /\ role[req[s].on] # "none"
         /\ role[req[s].on] # M!Top \/ M!Others(req[s].on) # {}

Guarded ==
    /\ Peopled /\ InTurn
    /\ \A s \in Slots : req[s].pc = "writing" => WriteIsSafe(s)
    /\ M!Members = {} \/ \E u \in Users : role[u] = M!Top

\* What a request that locks asks for.
Asks == \A s \in Slots : /\ req[s].pc \in InHand => req[s].op \in {"set", "remove"}
                         /\ req[s].op = "set" => req[s].to # "none"

MembershipInv == Founded /\ LocksHeld /\ Asks /\ (~missed => Guarded)

\* A request of a team asks for a team's role, one of an organisation for an
\* organisation's: without it the role rows lose their type.
RolesOfKind == \A s \in Slots : req[s].to \in M!Roles(kind) \cup {"none"}

MembershipType == M!MembershipTypeOK /\ RolesOfKind

LEMMA TopIsARole ==
    ASSUME kind \in {"team", "org"}
    PROVE  /\ M!Top \in M!Roles(kind) /\ M!Top # "none"
           /\ M!Roles(kind) \subseteq M!Roles("team") \cup M!Roles("org")
           /\ "none" \notin M!Roles(kind)
           /\ M!Editors \subseteq M!Roles(kind)
BY DEF M!Top, M!Roles, M!Editors

LEMMA MembershipTypeStep ==
    ASSUME MembershipType, M!MembershipNext
    PROVE  MembershipType'
<1> USE DEF M!MembershipTypeOK, RolesOfKind, MembershipType
<1>0. PICK s \in Slots :
        \/ \E u \in Users : M!Create(s, u)
        \/ \E u \in Users \cup {NoUser}, exists \in BOOLEAN : M!SetKey(s, u, exists)
        \/ \E u \in Users \cup {NoUser}, on \in Users, op \in {"add", "set", "remove"}, to \in M!Roles(kind) \cup {"none"} :
              M!Authorise(s, op, u, on, to)
        \/ \E u \in Users : M!LockRow(s, u)
        \/ M!AddCreator(s) \/ M!AddMember(s) \/ M!Begin(s) \/ M!Locked(s) \/ M!Check(s) \/ M!Write(s) \/ M!Fail(s)
  BY DEF M!MembershipNext
<1>a. /\ M!Top \in M!Roles(kind)
      /\ M!Roles(kind) \subseteq M!Roles("team") \cup M!Roles("org")
  BY TopIsARole
<1>b. M!Free \in M!Requests
  BY DEF M!Free, M!Requests, M!Steps
<1>c. M!Answer(s) => /\ req' \in [Slots -> M!Requests] /\ locked' \in [Slots -> SUBSET Users]
                     /\ \A t \in Slots : req'[t] = IF t = s THEN M!Free ELSE req[t]
  BY <1>b DEF M!Answer
<1>d. M!Answer(s) /\ kind' = kind =>
           /\ \A t \in Slots : /\ req'[t].pc # "idle" => req'[t].on \in Users
                               /\ req'[t].op = "remove" => req'[t].to = "none"
           /\ RolesOfKind'
  BY <1>c DEF M!Free
<1>e. ASSUME NEW pc \in M!Steps, M!Goto(s, pc), kind' = kind, req[s].on \in Users
      PROVE  /\ req' \in [Slots -> M!Requests]
             /\ \A t \in Slots : /\ req'[t].pc # "idle" => req'[t].on \in Users
                                 /\ req'[t].op = "remove" => req'[t].to = "none"
             /\ RolesOfKind'
  BY <1>e DEF M!Goto, M!Requests
<1>f. ASSUME NEW op \in {"none", "create", "add", "set", "remove"}, NEW on \in Users, NEW pc \in M!Steps,
             NEW to \in M!Roles(kind) \cup {"none"}, op = "remove" => to = "none", kind' = kind,
             req' = [req EXCEPT ![s] = [pc |-> pc, op |-> op, on |-> on, to |-> to, left |-> {}]]
      PROVE  /\ req' \in [Slots -> M!Requests]
             /\ \A t \in Slots : /\ req'[t].pc # "idle" => req'[t].on \in Users
                                 /\ req'[t].op = "remove" => req'[t].to = "none"
             /\ RolesOfKind'
  <2>1. [pc |-> pc, op |-> op, on |-> on, to |-> to, left |-> {}] \in M!Requests
    BY <1>f, <1>a DEF M!Requests
  <2> QED BY <1>f, <2>1
<1>g. ASSUME NEW on \in Users, NEW to \in M!Roles(kind) \cup {"none"}
      PROVE  [role EXCEPT ![on] = to] \in [Users -> M!Roles(kind) \cup {"none"}]
  OBVIOUS
<1>1. ASSUME NEW u \in Users, M!Create(s, u) PROVE MembershipType'
  BY <1>1, <1>a, <1>f DEF M!Create, M!Steps
<1>2. ASSUME NEW u, NEW exists \in BOOLEAN, M!SetKey(s, u, exists) PROVE MembershipType'
  BY <1>2 DEF M!SetKey
<1>3. ASSUME NEW u, NEW on \in Users, NEW op \in {"add", "set", "remove"},
             NEW to \in M!Roles(kind) \cup {"none"}, M!Authorise(s, op, u, on, to)
      PROVE  MembershipType'
  BY <1>3, <1>f DEF M!Authorise, M!Steps
<1>4. ASSUME M!AddCreator(s) PROVE MembershipType'
  BY <1>4, <1>c, <1>d, <1>g DEF M!AddCreator, M!At
<1>5. ASSUME M!AddMember(s) PROVE MembershipType'
  BY <1>5, <1>c, <1>d, <1>g DEF M!AddMember, M!At
<1>h. ASSUME NEW new \in [Slots -> M!Requests], req' = new, kind' = kind,
             \A t \in Slots : /\ new[t].pc = "idle" \/ (req[t].pc # "idle" /\ new[t].on = req[t].on)
                              /\ new[t].op = "none" \/ new[t].op = req[t].op
                              /\ new[t].to = "none" \/ new[t].to = req[t].to
                              /\ new[t].op = "remove" => new[t].to = req[t].to
      PROVE  /\ req' \in [Slots -> M!Requests]
             /\ \A t \in Slots : /\ req'[t].pc # "idle" => req'[t].on \in Users
                                 /\ req'[t].op = "remove" => req'[t].to = "none"
             /\ RolesOfKind'
  BY <1>h
<1>6. ASSUME M!Begin(s) PROVE MembershipType'
  <2>1. M!Members \subseteq Users
    BY DEF M!Members
  <2>2. [req EXCEPT ![s].pc = "locking", ![s].left = M!Members] \in [Slots -> M!Requests]
    <3>1. [req[s] EXCEPT !.pc = "locking", !.left = M!Members] \in M!Requests
      BY <2>1 DEF M!Requests, M!Steps
    <3>2. [req EXCEPT ![s].pc = "locking", ![s].left = M!Members]
            = [req EXCEPT ![s] = [req[s] EXCEPT !.pc = "locking", !.left = M!Members]]
      BY DEF M!Requests
    <3> QED BY <3>1, <3>2
  <2> DEFINE new == [req EXCEPT ![s].pc = "locking", ![s].left = M!Members]
  <2>3. \A t \in Slots : /\ new[t].op = req[t].op /\ new[t].on = req[t].on /\ new[t].to = req[t].to
                         /\ new[t].pc = IF t = s THEN "locking" ELSE req[t].pc
    BY DEF M!Requests
  <2>4. req' = new /\ req[s].pc = "authorised" /\ UNCHANGED <<kind, created, key, role, locked, missed>>
    BY <1>6 DEF M!Begin, M!At
  <2>5. new \in [Slots -> M!Requests]
    BY <2>2
  <2> HIDE DEF new
  <2> QED BY <1>h, <2>3, <2>4, <2>5
<1>7. ASSUME NEW u \in Users, M!LockRow(s, u) PROVE MembershipType'
  <2>1. [req EXCEPT ![s].left = @ \ {u}] \in [Slots -> M!Requests]
    BY DEF M!Requests
  <2> QED BY <1>7, <1>h, <2>1 DEF M!LockRow, M!At
<1>11. ASSUME M!Locked(s) PROVE MembershipType'
  BY <1>11, <1>e DEF M!Locked, M!At, M!Steps
<1>8. ASSUME M!Check(s) PROVE MembershipType'
  <2>1. CASE M!Answer(s)  BY <1>8, <2>1, <1>c, <1>d DEF M!Check
  <2>2. CASE M!Goto(s, "writing") /\ UNCHANGED locked  BY <1>8, <2>2, <1>e DEF M!Check, M!At, M!Steps
  <2> QED BY <1>8, <2>1, <2>2 DEF M!Check
<1>9. ASSUME M!Write(s) PROVE MembershipType'
  <2>1. M!Skipping(req[s].on) \in [Slots -> M!Requests]
    BY DEF M!Skipping, M!Requests
  <2> DEFINE base == IF req[s].op = "remove" THEN M!Skipping(req[s].on) ELSE req
             new == [base EXCEPT ![s] = M!Free]
  <2>2. base \in [Slots -> M!Requests]
    BY <2>1
  <2>3. new \in [Slots -> M!Requests]
    BY <2>2, <1>b
  <2>4. \A t \in Slots : t # s => /\ new[t].pc = req[t].pc /\ new[t].op = req[t].op
                                  /\ new[t].on = req[t].on /\ new[t].to = req[t].to
    BY DEF M!Skipping, M!Requests
  <2>5. new[s] = M!Free
    BY <2>2
  <2>6. req' = new /\ kind' = kind
    BY <1>9 DEF M!Write
  <2> HIDE DEF base, new
  <2>7. /\ req' \in [Slots -> M!Requests]
        /\ \A t \in Slots : /\ req'[t].pc # "idle" => req'[t].on \in Users
                            /\ req'[t].op = "remove" => req'[t].to = "none"
        /\ RolesOfKind'
    BY <2>3, <2>4, <2>5, <2>6 DEF M!Free
  <2>8. role' \in [Users -> M!Roles(kind) \cup {"none"}] /\ locked' \in [Slots -> SUBSET Users]
    BY <1>9, <1>g DEF M!Write, M!At
  <2> QED BY <1>9, <2>7, <2>8 DEF M!Write
<1>10. ASSUME M!Fail(s) PROVE MembershipType'
  BY <1>10, <1>c, <1>d DEF M!Fail
<1> HIDE DEF MembershipType
<1> QED BY <1>0, <1>1, <1>2, <1>3, <1>4, <1>5, <1>6, <1>7, <1>8, <1>9, <1>10, <1>11

LEMMA EditorsMeanMembers ==
    ASSUME MembershipType, Founded, NEW u \in Users \cup {NoUser}, M!Authorised(u)
    PROVE  /\ created /\ (M!Members # {} \/ key)
           /\ \A s \in Slots : req[s].pc # "creating"
<1>1. M!Members # {} \/ key
  <2>1. CASE u = NoUser
    BY <2>1 DEF M!Authorised
  <2>2. CASE u # NoUser
    <3>1. u \in Users /\ role[u] # "none"
      BY <2>2, TopIsARole DEF M!Authorised, MembershipType, M!MembershipTypeOK
    <3> QED BY <3>1 DEF M!Members
  <2> QED BY <2>1, <2>2
<1> QED BY <1>1 DEF Founded

LEMMA MembershipInvStep ==
    ASSUME MembershipType, MembershipInv, M!MembershipNext
    PROVE  MembershipInv'
<1> USE DEF MembershipInv
<1>0. PICK s \in Slots :
        \/ \E u \in Users : M!Create(s, u)
        \/ \E u \in Users \cup {NoUser}, exists \in BOOLEAN : M!SetKey(s, u, exists)
        \/ \E u \in Users \cup {NoUser}, on \in Users, op \in {"add", "set", "remove"}, to \in M!Roles(kind) \cup {"none"} :
              M!Authorise(s, op, u, on, to)
        \/ \E u \in Users : M!LockRow(s, u)
        \/ M!AddCreator(s) \/ M!AddMember(s) \/ M!Begin(s) \/ M!Locked(s) \/ M!Check(s) \/ M!Write(s) \/ M!Fail(s)
  BY DEF M!MembershipNext
<1>a. /\ role \in [Users -> M!Roles(kind) \cup {"none"}] /\ req \in [Slots -> M!Requests]
      /\ locked \in [Slots -> SUBSET Users] /\ kind \in {"team", "org"}
      /\ created \in BOOLEAN /\ key \in BOOLEAN /\ missed \in BOOLEAN
      /\ \A t \in Slots : /\ req[t].pc # "idle" => req[t].on \in Users
                          /\ req[t].op = "remove" => req[t].to = "none"
  BY DEF MembershipType, M!MembershipTypeOK
<1>b. M!Answer(s) => \A t \in Slots : /\ req'[t] = IF t = s THEN M!Free ELSE req[t]
                                      /\ locked'[t] = IF t = s THEN {} ELSE locked[t]
  BY <1>a DEF M!Answer
<1>c. ASSUME NEW pc, M!Goto(s, pc)
      PROVE  \A t \in Slots : req'[t] = IF t = s THEN [req[s] EXCEPT !.pc = pc] ELSE req[t]
  BY <1>a, <1>c DEF M!Goto
<1>d. ASSUME kind' = kind, role' = role
      PROVE  M!Members' = M!Members /\ M!Top' = M!Top /\ \A u \in Users : M!Others(u)' = M!Others(u)
  BY <1>d DEF M!Members, M!Top, M!Others
<1>e. M!Top # "none"
  BY <1>a, TopIsARole
<1>f. M!Free.pc = "idle" /\ M!Free.op = "none" /\ M!Free.left = {}
  BY DEF M!Free
<1>1. ASSUME NEW u \in Users, M!Create(s, u) PROVE MembershipInv'
  <2>1. /\ UNCHANGED <<kind, key, role, locked, missed>> /\ created' /\ ~created
        /\ \A t \in Slots : t # s => req'[t] = req[t]
        /\ req'[s].pc = "creating" /\ req'[s].op = "create" /\ req'[s].to = M!Top /\ req'[s].left = {}
    BY <1>1, <1>a DEF M!Create
  <2>2. ~key /\ M!Members = {} /\ \A t \in Slots : req[t].pc = "idle"
    BY <2>1 DEF Founded
  <2>3. Founded'
    BY <2>1, <2>2, <1>d DEF Founded
  <2>4. LocksHeld'
    BY <2>1, <2>2, <1>d DEF LocksHeld, InHand
  <2>5. Asks'
    BY <2>1, <2>2 DEF Asks, InHand
  <2>6. Guarded'
    BY <2>1, <2>2, <1>d DEF Guarded, Peopled, InTurn
  <2> QED BY <2>3, <2>4, <2>5, <2>6
<1>2. ASSUME NEW u \in Users \cup {NoUser}, NEW exists \in BOOLEAN, M!SetKey(s, u, exists) PROVE MembershipInv'
  <2>1. created /\ (M!Members # {} \/ key) /\ \A t \in Slots : req[t].pc # "creating"
    BY <1>2, EditorsMeanMembers DEF M!SetKey
  <2>2. UNCHANGED <<kind, created, role, locked, req, missed>>
    BY <1>2 DEF M!SetKey
  <2>3. Founded' /\ LocksHeld' /\ Asks'
    BY <2>1, <2>2, <1>d DEF Founded, LocksHeld, Asks
  <2>4. ~missed => Guarded'
    BY <2>1, <2>2, <1>d, <1>a DEF Guarded, Peopled, InTurn, WriteIsSafe
  <2> QED BY <2>2, <2>3, <2>4
<1>3. ASSUME NEW u \in Users \cup {NoUser}, NEW on \in Users, NEW op \in {"add", "set", "remove"},
             NEW to \in M!Roles(kind) \cup {"none"}, M!Authorise(s, op, u, on, to)
      PROVE  MembershipInv'
  <2>1. created /\ (M!Members # {} \/ key) /\ \A t \in Slots : req[t].pc # "creating"
    BY <1>3, EditorsMeanMembers DEF M!Authorise
  <2>2. \A t \in Slots : t # s => req'[t] = req[t]
    BY <1>3, <1>a DEF M!Authorise
  <2>3. /\ req'[s].pc = "authorised" /\ req[s].pc = "idle" /\ req'[s].left = {}
        /\ req'[s].op = "set" => req'[s].to # "none"
    BY <1>3, <1>a DEF M!Authorise, M!At
  <2>4. UNCHANGED <<kind, created, key, role, locked, missed>>
    BY <1>3 DEF M!Authorise
  <2>5. Founded'
    BY <2>1, <2>2, <2>3, <2>4, <1>d DEF Founded
  <2>6. LocksHeld' /\ Asks'
    BY <2>2, <2>3, <2>4, <1>d DEF LocksHeld, Asks, InHand
  <2>7. ~missed => Guarded'
    BY <2>1, <2>2, <2>3, <2>4, <1>d, <1>a DEF Guarded, Peopled, InTurn, WriteIsSafe
  <2> QED BY <2>4, <2>5, <2>6, <2>7
<1>4. ASSUME M!AddCreator(s) PROVE MembershipInv'
  <2>1. req[s].pc = "creating" /\ req[s].to = M!Top /\ req[s].on \in Users /\ created /\ missed' = missed
    BY <1>4, <1>a DEF M!AddCreator, M!At, Founded
  <2>2. \A t \in Slots : req'[t].pc = "idle" /\ locked'[t] = {}
    BY <1>4, <1>b, <1>f, <2>1 DEF M!AddCreator, Founded, LocksHeld, InHand
  <2>3. role'[req[s].on] = M!Top /\ M!Top' = M!Top
    BY <1>4, <1>a, <2>1 DEF M!AddCreator, M!Top
  <2>4. M!Members' # {} /\ \E u \in Users : role'[u] = M!Top'
    BY <2>1, <2>3, <1>e DEF M!Members
  <2>5. Founded'
    BY <1>4, <2>1, <2>2 DEF M!AddCreator, Founded
  <2>6. \A t \in Slots : req'[t].left = {} /\ (req'[t].op = "set" => req'[t].to # "none")
    <3>1. \A t \in Slots : req[t].left = {}
      BY <2>1, <1>a DEF Founded, LocksHeld
    <3> QED BY <3>1, <1>4, <1>b, <1>f DEF M!AddCreator, Asks
  <2>7. LocksHeld' /\ Asks' /\ Guarded'
    BY <2>2, <2>4, <2>6 DEF LocksHeld, Asks, InHand, Guarded, Peopled, InTurn
  <2> QED BY <2>5, <2>7
<1>5. ASSUME M!AddMember(s) PROVE MembershipInv'
  <2>1. req[s].pc = "authorised" /\ req[s].on \in Users /\ locked[s] = {} /\ created
    BY <1>5, <1>a DEF M!AddMember, M!At, Founded, LocksHeld, InHand
  <2>2. /\ UNCHANGED <<kind, created, key>> /\ M!Top' = M!Top
        /\ \A u \in Users : role[u] # "none" => role'[u] = role[u]
    BY <1>5, <1>a, <2>1 DEF M!AddMember, M!Top
  <2>3. M!Members \subseteq M!Members' /\ \A u \in Users : M!Others(u) \subseteq M!Others(u)'
    BY <2>2, <1>e DEF M!Members, M!Others
  <2>4. \A t \in Slots : /\ req'[t] = IF t = s THEN M!Free ELSE req[t]
                         /\ locked'[t] = IF t = s THEN {} ELSE locked[t]
    BY <1>5, <1>b DEF M!AddMember
  <2>5. Founded'
    BY <2>1, <2>2, <2>4, <1>f DEF Founded
  <2>6. LocksHeld' /\ Asks'
    BY <2>3, <2>4, <1>f DEF LocksHeld, Asks, InHand
  <2>7. ASSUME ~missed' PROVE Guarded'
    <3>1. ~missed /\ Guarded
      BY <2>7, <1>5 DEF M!AddMember
    <3>2. M!Members # {} /\ M!Members' # {}
      BY <2>1, <2>3, <3>1 DEF Guarded, Peopled
    <3>3. Peopled'
      BY <3>2 DEF Peopled
    \* Nobody waits, or nobody was added.
    <3>4. role' = role \/ \A t \in Slots : req[t].pc # "locking"
      BY <2>7, <1>5 DEF M!AddMember, M!At
    <3>5. InTurn'
      BY <2>4, <3>1, <3>4, <2>2, <1>d, <1>f DEF Guarded, InTurn
    <3>6. ASSUME NEW r \in Slots, req'[r].pc = "writing" PROVE WriteIsSafe(r)'
      <4>1. r # s /\ req'[r] = req[r] /\ req[r].on \in Users
        BY <2>4, <1>a, <1>f, <3>6
      <4>2. WriteIsSafe(r)
        BY <4>1, <3>1, <3>6 DEF Guarded
      <4>3. \A v \in Users : role[v] = M!Top => role'[v] = M!Top'
        BY <2>2, <1>e
      <4>4. M!Others(req[r].on) # {} => {v \in Users \ {req[r].on} : role'[v] = M!Top'} # {}
        BY <4>3 DEF M!Others
      <4> QED BY <4>1, <4>2, <4>3, <4>4, <2>2 DEF WriteIsSafe, M!Others
    <3>7. \E u \in Users : role'[u] = M!Top'
      BY <3>1, <3>2, <2>2, <1>e DEF Guarded
    <3> QED BY <3>3, <3>5, <3>6, <3>7 DEF Guarded
  <2> QED BY <2>5, <2>6, <2>7
<1>6. ASSUME M!Begin(s) PROVE MembershipInv'
  <2>1. /\ req[s].pc = "authorised" /\ req[s].op \in {"set", "remove"}
        /\ UNCHANGED <<kind, created, key, role, locked, missed>>
    BY <1>6 DEF M!Begin, M!At
  <2>2. /\ \A t \in Slots : t # s => req'[t] = req[t]
        /\ req'[s].pc = "locking" /\ req'[s].op = req[s].op /\ req'[s].to = req[s].to
        /\ req'[s].on = req[s].on /\ req'[s].left = M!Members
    BY <1>6, <1>a DEF M!Begin, M!Requests
  <2>3. Founded'
    BY <2>1, <2>2, <1>d DEF Founded
  <2>4. LocksHeld' /\ Asks'
    BY <2>1, <2>2, <1>d DEF LocksHeld, Asks, InHand
  <2>5. locked[s] = {}
    BY <2>1 DEF LocksHeld, InHand
  <2>6. ~missed => Guarded'
    BY <2>1, <2>2, <2>5, <1>d, <1>a DEF Guarded, Peopled, InTurn, WriteIsSafe
  <2> QED BY <2>1, <2>3, <2>4, <2>6
<1>7. ASSUME NEW u \in Users, M!LockRow(s, u) PROVE MembershipInv'
  <2>1. /\ req[s].pc = "locking" /\ u \in req[s].left \ M!Held(s)
        /\ UNCHANGED <<kind, created, key, role, missed>>
    BY <1>7 DEF M!LockRow, M!At
  <2>2. /\ \A t \in Slots : t # s => req'[t] = req[t] /\ locked'[t] = locked[t]
        /\ req'[s].pc = "locking" /\ req'[s].op = req[s].op /\ req'[s].to = req[s].to
        /\ req'[s].on = req[s].on /\ req'[s].left = req[s].left \ {u} /\ locked'[s] = locked[s] \cup {u}
    BY <1>7, <2>1, <1>a DEF M!LockRow, M!Requests
  <2>3. Founded'
    BY <2>1, <2>2, <1>d DEF Founded
  <2>4. Asks'
    BY <2>1, <2>2 DEF Asks, InHand
  <2>5. LocksHeld'
    <3>1. u \in M!Members /\ \A t \in Slots \ {s} : u \notin locked[t]
      BY <2>1 DEF LocksHeld, M!Held
    <3> QED BY <3>1, <2>1, <2>2, <1>d DEF LocksHeld, InHand
  <2>6. ASSUME ~missed PROVE Guarded'
    <3>1. Peopled' /\ (M!Members' = {} \/ \E v \in Users : role'[v] = M!Top')
      BY <2>1, <2>2, <2>6, <1>d DEF Guarded, Peopled
    <3>2. M!Members = locked[s] \cup req[s].left
      BY <2>1, <2>6 DEF Guarded, InTurn
    <3>3. InTurn'
      BY <2>1, <2>2, <2>6, <3>2, <1>d DEF Guarded, InTurn
    <3>4. \A t \in Slots : req'[t].pc = "writing" => WriteIsSafe(t)'
      BY <2>1, <2>2, <2>6, <1>d, <1>a DEF Guarded, WriteIsSafe
    <3> QED BY <3>1, <3>3, <3>4 DEF Guarded
  <2> QED BY <2>1, <2>3, <2>4, <2>5, <2>6
<1>11. ASSUME M!Locked(s) PROVE MembershipInv'
  <2>1. /\ req[s].pc = "locking" /\ req[s].left = {}
        /\ UNCHANGED <<kind, created, key, role, locked, missed>>
    BY <1>11 DEF M!Locked, M!At
  <2>2. /\ \A t \in Slots : t # s => req'[t] = req[t]
        /\ req'[s].pc = "checking" /\ req'[s].op = req[s].op /\ req'[s].to = req[s].to
        /\ req'[s].on = req[s].on /\ req'[s].left = req[s].left
    BY <1>11, <1>a DEF M!Locked, M!Goto, M!Requests
  <2>3. Founded'
    BY <2>1, <2>2, <1>d DEF Founded
  <2>4. LocksHeld' /\ Asks'
    BY <2>1, <2>2, <1>d DEF LocksHeld, Asks, InHand
  <2>5. ASSUME ~missed PROVE Guarded'
    <3>1. locked[s] = M!Members /\ M!Members # {}
      BY <2>1, <2>5 DEF Guarded, Peopled, InTurn
    \* Whoever holds rows holds rows of members, and this request holds them all.
    <3>2. \A t \in Slots \ {s} : locked[t] = {}
      <4> SUFFICES ASSUME NEW t \in Slots \ {s} PROVE locked[t] = {}
        OBVIOUS
      <4>1. locked[t] \subseteq M!Members /\ locked[s] \cap locked[t] = {}
        BY DEF LocksHeld
      <4> QED BY <4>1, <3>1
    <3>3. \A t \in Slots \ {s} : req[t].pc \notin {"checking", "writing"}
      BY <3>2, <2>5 DEF Guarded, InTurn
    <3>4. InTurn'
      BY <2>1, <2>2, <2>5, <3>1, <3>3, <1>d DEF Guarded, InTurn
    <3>5. Peopled' /\ (M!Members' = {} \/ \E v \in Users : role'[v] = M!Top')
      BY <2>1, <2>2, <2>5, <1>d DEF Guarded, Peopled
    <3>6. \A t \in Slots : req'[t].pc # "writing"
      BY <2>2, <3>3
    <3> QED BY <3>4, <3>5, <3>6 DEF Guarded
  <2> QED BY <2>1, <2>3, <2>4, <2>5
<1>8. ASSUME M!Check(s) PROVE MembershipInv'
  <2>1. /\ req[s].pc = "checking" /\ UNCHANGED <<kind, created, key, role, missed>> /\ req[s].on \in Users
        /\ req[s].op \in {"set", "remove"}
    BY <1>8, <1>a DEF M!Check, M!At, Asks, InHand
  <2>2. CASE M!Missing(s) \/ M!LastTop(s)
    <3>1. \A t \in Slots : /\ req'[t] = IF t = s THEN M!Free ELSE req[t]
                           /\ locked'[t] = IF t = s THEN {} ELSE locked[t]
      BY <1>8, <1>b, <2>2 DEF M!Check
    <3>2. Founded'
      BY <2>1, <3>1, <1>d, <1>f DEF Founded
    <3>3. LocksHeld' /\ Asks'
      BY <2>1, <3>1, <1>d, <1>f DEF LocksHeld, Asks, InHand
    <3>4. ~missed => Guarded'
      BY <2>1, <3>1, <1>d, <1>a, <1>f DEF Guarded, Peopled, InTurn, WriteIsSafe
    <3> QED BY <2>1, <3>2, <3>3, <3>4
  <2>3. CASE ~(M!Missing(s) \/ M!LastTop(s))
    <3>1. /\ \A t \in Slots : t # s => req'[t] = req[t]
          /\ req'[s].pc = "writing" /\ req'[s].op = req[s].op /\ req'[s].on = req[s].on /\ req'[s].to = req[s].to
          /\ req'[s].left = req[s].left /\ locked' = locked
      BY <1>8, <1>a, <2>3 DEF M!Check, M!Goto, M!Requests
    <3>2. Founded'
      BY <2>1, <3>1, <1>d DEF Founded
    <3>3. LocksHeld' /\ Asks'
      BY <2>1, <3>1, <1>d DEF LocksHeld, Asks, InHand
    <3>4. ASSUME ~missed PROVE Guarded'
      <4>1. Peopled' /\ InTurn' /\ (M!Members' = {} \/ \E v \in Users : role'[v] = M!Top')
        BY <2>1, <3>1, <3>4, <1>d DEF Guarded, Peopled, InTurn
      <4>2. WriteIsSafe(s)'
        BY <2>1, <2>3, <3>1, <1>d DEF WriteIsSafe, M!Missing, M!LastTop
      <4>3. \A t \in Slots : req'[t].pc = "writing" => WriteIsSafe(t)'
        BY <4>2, <2>1, <3>1, <3>4, <1>d, <1>a DEF Guarded, WriteIsSafe
      <4> QED BY <4>1, <4>3 DEF Guarded
    <3> QED BY <2>1, <3>2, <3>3, <3>4
  <2> QED BY <2>2, <2>3
<1>9. ASSUME M!Write(s) PROVE MembershipInv'
  <2> DEFINE on == req[s].on
  <2>1. /\ req[s].pc = "writing" /\ on \in Users /\ req[s].op \in {"set", "remove"}
        /\ UNCHANGED <<kind, created, key, missed>> /\ M!Top' = M!Top /\ created
        /\ \A t \in Slots : req[t].pc # "creating"
    BY <1>9, <1>a DEF M!Write, M!At, M!Top, Asks, InHand, Founded
  <2>2. /\ \A u \in Users \ {on} : role'[u] = role[u]
        /\ role'[on] = IF role[on] = "none" THEN "none" ELSE req[s].to
        /\ locked' = [locked EXCEPT ![s] = {}]
        /\ \A t \in Slots \ {s} : on \notin locked[t]
    BY <1>9, <1>a, <2>1 DEF M!Write, M!Held
  <2>3. M!Members' = IF req[s].op = "remove" THEN M!Members \ {on} ELSE M!Members
    <3>1. req[s].op = "remove" => req[s].to = "none"
      BY <1>a
    <3>2. req[s].op = "set" => req[s].to # "none"
      BY DEF Asks
    <3> QED BY <2>1, <2>2, <3>1, <3>2 DEF M!Members
  <2>4. \A t \in Slots \ {s} :
           /\ req'[t].pc = req[t].pc /\ req'[t].op = req[t].op /\ req'[t].on = req[t].on /\ req'[t].to = req[t].to
           /\ req'[t].left = (IF req[s].op = "remove" THEN req[t].left \ {on} ELSE req[t].left)
           /\ locked'[t] = locked[t]
    <3>1. \A t \in Slots \ {s} : req'[t] = (IF req[s].op = "remove" THEN M!Skipping(on)[t] ELSE req[t])
      <4>1. CASE req[s].op = "remove"
        <5>1. req' = [M!Skipping(on) EXCEPT ![s] = M!Free]
          BY <4>1, <1>9 DEF M!Write
        <5>2. DOMAIN M!Skipping(on) = Slots
          BY DEF M!Skipping
        <5> QED BY <5>1, <5>2, <4>1
      <4>2. CASE req[s].op # "remove"
        <5>1. req' = [req EXCEPT ![s] = M!Free]
          BY <4>2, <1>9 DEF M!Write
        <5> QED BY <5>1, <4>2, <1>a
      <4> QED BY <4>1, <4>2
    <3>2. \A t \in Slots : /\ M!Skipping(on)[t].pc = req[t].pc /\ M!Skipping(on)[t].op = req[t].op
                           /\ M!Skipping(on)[t].on = req[t].on /\ M!Skipping(on)[t].to = req[t].to
                           /\ M!Skipping(on)[t].left = req[t].left \ {on}
      BY <1>a DEF M!Skipping, M!Requests
    <3>3. \A t \in Slots \ {s} : locked'[t] = locked[t]
      BY <1>a, <2>2
    <3> HIDE DEF on
    <3> QED BY <3>1, <3>2, <3>3
  <2>5. req'[s] = M!Free /\ locked'[s] = {}
    <3>1. CASE req[s].op = "remove"
      <4>1. req' = [M!Skipping(on) EXCEPT ![s] = M!Free]
        BY <3>1, <1>9 DEF M!Write
      <4> QED BY <4>1, <1>a, <2>2 DEF M!Skipping
    <3>2. CASE req[s].op # "remove"
      <4>1. req' = [req EXCEPT ![s] = M!Free]
        BY <3>2, <1>9 DEF M!Write
      <4> QED BY <4>1, <1>a, <2>2
    <3> QED BY <3>1, <3>2
  <2> HIDE DEF on
  <2>6. Founded'
    BY <2>1, <2>4, <2>5, <1>f DEF Founded
  <2>7. LocksHeld' /\ Asks'
    <3>1. \A t \in Slots \ {s} : locked'[t] \subseteq M!Members' /\ req'[t].left \subseteq M!Members'
      <4> SUFFICES ASSUME NEW t \in Slots \ {s}
                   PROVE  locked'[t] \subseteq M!Members' /\ req'[t].left \subseteq M!Members'
        OBVIOUS
      <4>1. locked[t] \subseteq M!Members /\ req[t].left \subseteq M!Members
        BY DEF LocksHeld
      <4>2. on \notin locked[t] /\ locked'[t] = locked[t]
        BY <2>2, <2>4
      <4>3. req'[t].left = (IF req[s].op = "remove" THEN req[t].left \ {on} ELSE req[t].left)
        BY <2>4
      <4>4. CASE req[s].op = "remove"  BY <4>1, <4>2, <4>3, <4>4, <2>3
      <4>5. CASE req[s].op # "remove"  BY <4>1, <4>2, <4>3, <4>5, <2>3
      <4> QED BY <4>4, <4>5
    <3>2. LocksHeld'
      BY <3>1, <2>4, <2>5, <1>f DEF LocksHeld, InHand
    <3>3. Asks'
      BY <2>4, <2>5, <1>f DEF Asks, InHand
    <3> QED BY <3>2, <3>3
  <2>8. ASSUME ~missed PROVE Guarded'
    <3>1. WriteIsSafe(s) /\ M!Members # {} /\ \E v \in Users : role[v] = M!Top
      BY <2>1, <2>8 DEF Guarded, Peopled
    <3>2. \E v \in Users : role'[v] = M!Top
      <4>1. CASE \E v \in Users \ {on} : role[v] = M!Top
        BY <2>2, <4>1
      <4>2. CASE \A v \in Users \ {on} : role[v] # M!Top
        <5>1. M!Others(on) = {} /\ role[on] = M!Top
          BY <3>1, <4>2 DEF M!Others
        <5>2. req[s].to = M!Top
          BY <5>1, <3>1, <2>1 DEF WriteIsSafe, on
        <5> QED BY <5>1, <5>2, <2>1, <2>2, <1>e
      <4> QED BY <4>1, <4>2
    <3>3. M!Members' # {} /\ \E v \in Users : role'[v] = M!Top'
      BY <2>1, <3>2, <1>e DEF M!Members
    <3>4. Peopled'
      BY <3>3 DEF Peopled
    <3>5. \A t \in Slots : req'[t].pc \notin {"checking", "writing"}
      BY <2>1, <2>4, <2>5, <2>8, <1>f DEF Guarded, InTurn
    <3>6. \A t \in Slots : req'[t].pc = "locking" => M!Members' = locked'[t] \cup req'[t].left
      <4> SUFFICES ASSUME NEW t \in Slots \ {s}, req[t].pc = "locking"
                   PROVE  M!Members' = locked'[t] \cup req'[t].left
        BY <2>4, <2>5, <1>f
      <4>1. M!Members = locked[t] \cup req[t].left
        BY <2>8 DEF Guarded, InTurn
      <4> QED BY <4>1, <2>2, <2>3, <2>4
    <3> QED BY <3>3, <3>4, <3>5, <3>6 DEF Guarded, InTurn
  <2> QED BY <2>1, <2>6, <2>7, <2>8
<1>10. ASSUME M!Fail(s) PROVE MembershipInv'
  <2>1. req[s].pc # "idle" /\ UNCHANGED <<kind, created, key, role, missed>>
    BY <1>10 DEF M!Fail, M!At
  <2>2. \A t \in Slots : /\ req'[t] = IF t = s THEN M!Free ELSE req[t]
                         /\ locked'[t] = IF t = s THEN {} ELSE locked[t]
    BY <1>10, <1>b DEF M!Fail
  <2>3. Founded'
    BY <2>1, <2>2, <1>d, <1>f DEF Founded
  <2>4. LocksHeld' /\ Asks'
    BY <2>1, <2>2, <1>d, <1>f DEF LocksHeld, Asks, InHand
  <2>5. ~missed => Guarded'
    BY <2>1, <2>2, <1>d, <1>a, <1>f DEF Guarded, Peopled, InTurn, WriteIsSafe
  <2> QED BY <2>1, <2>3, <2>4, <2>5
<1> QED BY <1>0, <1>1, <1>2, <1>3, <1>4, <1>5, <1>6, <1>7, <1>8, <1>9, <1>10, <1>11

-----------------------------------------------------------------------------
\* Sessions.  A token that is over has a row which no query finds again, a
\* request only has a token that was issued, and a row that was not issued yet
\* has no past.
SessionsInv ==
    /\ \A k \in over : session[k].status # "unissued" /\ ~S!Found(k)
    /\ \A s \in Slots : call[s].k \in Tokens => session[call[s].k].status # "unissued"
    /\ \A k \in Tokens : session[k].status = "unissued" => session[k].age = 0 /\ ~session[k].expired
    /\ S!RefusedForGood /\ S!UseIsRemembered

\* A login has no token yet, every other request has the one it came with.
UsesHaveToken == \A s \in Slots : call[s].op \in {"use", "switch"} => call[s].k \in Tokens

SessionsType == S!SessionsTypeOK /\ UsesHaveToken

LEMMA RowsOfTheDead ==
    ASSUME NEW status \in {"unissued", "revoked", "deleted"}
    PROVE  S!Dead(status) \in S!Row
BY Assumptions DEF S!Dead, S!Row, S!Ages, S!SessionsAssumption

LEMMA RevokedRows ==
    ASSUME S!SessionsTypeOK, NEW k \in Tokens
    PROVE  /\ S!Revoked(k) \in [Tokens -> S!Row]
           /\ \A j \in Tokens : S!Revoked(k)[j] = IF j = k /\ session[k].status = "live"
                                                  THEN S!Dead("revoked") ELSE session[j]
BY RowsOfTheDead DEF S!Revoked, S!SessionsTypeOK

LEMMA OlderAge ==
    ASSUME NEW age \in S!Ages
    PROVE  /\ S!Older(age) \in S!Ages /\ age <= S!Older(age)
           /\ S!Older(age) = IF age > IdleTimeout THEN age ELSE age + 1
BY Assumptions DEF S!Older, S!Ages, S!SessionsAssumption

LEMMA FreeCall == S!Free \in S!Calls /\ S!Free.pc = "free" /\ S!Free.op = "none" /\ S!Free.k = NoToken /\ S!Free.late = FALSE
BY DEF S!Free, S!Calls

LEMMA SessionsTypeStep ==
    ASSUME SessionsType, S!SessionsNext
    PROVE  SessionsType'
<1> DEFINE Working(t) == call[t].pc \in {"idle", "touch", "role", "retire"} => call[t].k \in Tokens
<1> DEFINE Used(t)    == call[t].op \in {"use", "switch"} => call[t].k \in Tokens
<1>a. /\ session \in [Tokens -> S!Row] /\ call \in [Slots -> S!Calls]
      /\ \A t \in Slots : Working(t) /\ Used(t)
      /\ unused \in [Tokens -> S!Ages] /\ over \subseteq Tokens
  BY DEF SessionsType, UsesHaveToken, S!SessionsTypeOK
<1>b. 0 \in S!Ages
  BY Assumptions DEF S!Ages, S!SessionsAssumption
<1>c. ASSUME NEW s \in Slots, S!Answer(s)
      PROVE  call' \in [Slots -> S!Calls] /\ \A t \in Slots : Working(t)' /\ Used(t)'
  <2>1. \A t \in Slots : call'[t] = IF t = s THEN S!Free ELSE call[t]
    BY <1>a, <1>c DEF S!Answer
  <2> QED BY <2>1, <1>a, <1>c, FreeCall DEF S!Answer
<1>d. ASSUME NEW s \in Slots, NEW pc \in {"role", "issue", "retire"}, S!Goto(s, pc), call[s].k \in Tokens
      PROVE  call' \in [Slots -> S!Calls] /\ \A t \in Slots : Working(t)' /\ Used(t)'
  BY <1>a, <1>d DEF S!Goto, S!Calls
<1>1. ASSUME NEW s \in Slots, S!RefuseIdle(s) PROVE SessionsType'
  BY <1>1, <1>a, <1>c, RevokedRows DEF S!RefuseIdle, S!At, SessionsType, UsesHaveToken, S!SessionsTypeOK
<1>2. ASSUME NEW s \in Slots, S!Touch(s) PROVE SessionsType'
  <2>1. call[s].k \in Tokens
    BY <1>2, <1>a DEF S!Touch, S!At
  <2>2. session' \in [Tokens -> S!Row] /\ unused' \in [Tokens -> S!Ages] /\ over' = over
    BY <1>2, <2>1, <1>a, <1>b DEF S!Touch, S!Row
  <2>3. call' \in [Slots -> S!Calls] /\ \A t \in Slots : Working(t)' /\ Used(t)'
    BY <1>2, <2>1, <1>d DEF S!Touch
  <2> QED BY <2>2, <2>3, <1>a DEF SessionsType, UsesHaveToken, S!SessionsTypeOK
<1>3. ASSUME NEW s \in Slots, S!Serve(s) PROVE SessionsType'
  BY <1>3, <1>a, <1>c DEF S!Serve, SessionsType, UsesHaveToken, S!SessionsTypeOK
<1>4. ASSUME NEW s \in Slots, S!SwitchTeam(s) PROVE SessionsType'
  BY <1>4, <1>a, <1>c, <1>d DEF S!SwitchTeam, S!At, SessionsType, UsesHaveToken, S!SessionsTypeOK
<1>5. ASSUME NEW s \in Slots, S!Retire(s) PROVE SessionsType'
  BY <1>5, <1>a, <1>c, RevokedRows DEF S!Retire, S!At, SessionsType, UsesHaveToken, S!SessionsTypeOK
<1>6. ASSUME NEW s \in Slots, S!Fail(s) PROVE SessionsType'
  BY <1>6, <1>a, <1>c DEF S!Fail, SessionsType, UsesHaveToken, S!SessionsTypeOK
<1>7. ASSUME NEW s \in Slots, S!Login(s) PROVE SessionsType'
  <2>1. call' \in [Slots -> S!Calls] /\ \A t \in Slots : Working(t)' /\ Used(t)'
    BY <1>7, <1>a DEF S!Login, S!Free, S!Calls
  <2> QED BY <2>1, <1>7, <1>a DEF S!Login, SessionsType, UsesHaveToken, S!SessionsTypeOK
<1>8. ASSUME NEW s \in Slots, NEW k \in Tokens, S!Issue(s, k) PROVE SessionsType'
  <2>1. session' \in [Tokens -> S!Row]
    BY <1>8, <1>a DEF S!Issue, S!Row
  <2>2. call' \in [Slots -> S!Calls] /\ \A t \in Slots : Working(t)' /\ Used(t)'
    <3>1. CASE call[s].op = "switch"
      BY <3>1, <1>8, <1>a, <1>d DEF S!Issue
    <3>2. CASE call[s].op # "switch"
      BY <3>2, <1>8, <1>c DEF S!Issue
    <3> QED BY <3>1, <3>2
  <2> QED BY <2>1, <2>2, <1>8, <1>a DEF S!Issue, SessionsType, UsesHaveToken, S!SessionsTypeOK
<1>9. ASSUME NEW s \in Slots, NEW k \in Tokens, NEW op \in {"use", "switch"}, S!Select(s, op, k)
      PROVE  SessionsType'
  <2>1. S!NextStep(session[k].age) \in {"idle", "touch", "role"}
    BY DEF S!NextStep
  <2>2. call' \in [Slots -> S!Calls] /\ \A t \in Slots : Working(t)' /\ Used(t)'
    <3>1. CASE S!Found(k)
      <4>1. PICK late \in BOOLEAN : late = (k \in over)
        <5>1. (k \in over) \in BOOLEAN
          OBVIOUS
        <5> WITNESS (k \in over) \in BOOLEAN
        <5> QED OBVIOUS
      <4> DEFINE new == [pc |-> S!NextStep(session[k].age), op |-> op, k |-> k, late |-> late]
      <4>2. new \in S!Calls /\ new.k \in Tokens
        BY <2>1 DEF S!Calls
      <4>3. call' = [call EXCEPT ![s] = new]
        BY <1>9, <3>1, <4>1 DEF S!Select
      <4> HIDE DEF new
      <4> QED BY <4>2, <4>3, <1>a
    <3>2. CASE ~S!Found(k)
      BY <3>2, <1>9, <1>a DEF S!Select
    <3> QED BY <3>1, <3>2
  <2>3. unused' \in [Tokens -> S!Ages] /\ over' \subseteq Tokens /\ session' = session
    BY <1>9, <1>a, <1>b DEF S!Select
  <2> QED BY <2>2, <2>3, <1>a DEF SessionsType, UsesHaveToken, S!SessionsTypeOK
<1>10. ASSUME NEW k \in Tokens, S!Logout(k) PROVE SessionsType'
  BY <1>10, <1>a, RevokedRows DEF S!Logout, SessionsType, UsesHaveToken, S!SessionsTypeOK
<1>11. ASSUME NEW k \in Tokens, S!Expire(k) PROVE SessionsType'
  <2>1. session' \in [Tokens -> S!Row]
    BY <1>11, <1>a DEF S!Expire, S!Row
  <2> QED BY <2>1, <1>11, <1>a DEF S!Expire, SessionsType, UsesHaveToken, S!SessionsTypeOK
<1>12. ASSUME S!Purge PROVE SessionsType'
  BY <1>12, <1>a, RowsOfTheDead DEF S!Purge, SessionsType, UsesHaveToken, S!SessionsTypeOK
<1>13. ASSUME S!Tick PROVE SessionsType'
  <2>1. \A k \in Tokens : session[k].age \in S!Ages /\ unused[k] \in S!Ages
    BY <1>a DEF S!Row
  <2>2. session' \in [Tokens -> S!Row]
    <3>1. \A k \in Tokens : [session[k] EXCEPT !.age = S!Older(@)] \in S!Row
      BY <1>a, <2>1, OlderAge DEF S!Row
    <3> QED BY <1>13, <1>a, <3>1 DEF S!Tick
  <2>3. unused' \in [Tokens -> S!Ages]
    BY <1>13, <1>a, <2>1, OlderAge DEF S!Tick
  <2> QED BY <2>2, <2>3, <1>13, <1>a DEF S!Tick, SessionsType, UsesHaveToken, S!SessionsTypeOK
<1> QED BY <1>1, <1>2, <1>3, <1>4, <1>5, <1>6, <1>7, <1>8, <1>9, <1>10, <1>11, <1>12, <1>13
        DEF S!SessionsNext, S!Step

\* What a step may do to the rows so that none comes back: each stays, ages
\* with its token's last use, or is out for good.
RowsOnlyEnd ==
    \A k \in Tokens :
        \/ session'[k] = session[k]
        \/ session[k].status # "unissued" /\ session'[k] = S!Dead("revoked")
        \/ session[k].status # "unissued" /\ session'[k] = S!Dead("deleted")

LEMMA EndedRowsAreSound ==
    ASSUME SessionsType, SessionsType', SessionsInv, RowsOnlyEnd, UNCHANGED unused
    PROVE  /\ \A k \in over : session'[k].status # "unissued" /\ ~S!Found(k)'
           /\ \A k \in Tokens : session[k].status # "unissued" => session'[k].status # "unissued"
           /\ \A k \in Tokens : session'[k].status = "unissued" => session'[k].age = 0 /\ ~session'[k].expired
           /\ S!UseIsRemembered'
<1>a. over \subseteq Tokens /\ session \in [Tokens -> S!Row] /\ unused \in [Tokens -> S!Ages]
  BY DEF SessionsType, S!SessionsTypeOK
<1>1. \A k \in Tokens : session[k].status # "unissued" => session'[k].status # "unissued"
  BY DEF RowsOnlyEnd, S!Dead
<1>2. \A k \in over : session'[k].status # "unissued" /\ ~S!Found(k)'
  BY <1>a DEF SessionsInv, RowsOnlyEnd, S!Dead, S!Found
<1>3. \A k \in Tokens : session'[k].status = "unissued" => session'[k].age = 0 /\ ~session'[k].expired
  BY DEF SessionsInv, RowsOnlyEnd, S!Dead
<1>4. S!UseIsRemembered'
  BY DEF SessionsInv, RowsOnlyEnd, S!Dead, S!UseIsRemembered
<1> QED BY <1>1, <1>2, <1>3, <1>4

LEMMA SessionsInvStep ==
    ASSUME SessionsType, SessionsType', SessionsInv, S!SessionsNext
    PROVE  SessionsInv'
<1>a. /\ session \in [Tokens -> S!Row] /\ call \in [Slots -> S!Calls]
      /\ \A t \in Slots : /\ call[t].pc \in {"idle", "touch", "role", "retire"} => call[t].k \in Tokens
                          /\ call[t].op \in {"use", "switch"} => call[t].k \in Tokens
      /\ unused \in [Tokens -> S!Ages] /\ over \subseteq Tokens
  BY DEF SessionsType, UsesHaveToken, S!SessionsTypeOK
<1>b. \A k \in over : session[k].status # "unissued" /\ ~S!Found(k)
  BY DEF SessionsInv
<1>c. \A t \in Slots : /\ call[t].k \in Tokens => session[call[t].k].status # "unissued"
                       /\ ~call[t].late
  BY DEF SessionsInv, S!RefusedForGood
<1>d. \A k \in Tokens : /\ session[k].status = "unissued" => session[k].age = 0 /\ ~session[k].expired
                        /\ session[k].status = "live" => session[k].age <= unused[k] + TouchInterval
  BY DEF SessionsInv, S!UseIsRemembered
<1>e. \A k \in Tokens : session[k].age \in Nat /\ unused[k] \in Nat
  BY <1>a, Assumptions DEF S!Row, S!Ages, S!SessionsAssumption
<1>f. TouchInterval \in Nat /\ IdleTimeout \in Nat /\ NoToken \notin Tokens
  BY Assumptions DEF S!SessionsAssumption
\* Answering forgets a request, going on keeps its token.
<1>g. ASSUME NEW s \in Slots, S!Answer(s)
      PROVE  \A t \in Slots : call'[t] = call[t] \/ (call'[t].k = NoToken /\ ~call'[t].late)
  BY <1>a, <1>g, FreeCall DEF S!Answer
<1>h. ASSUME NEW s \in Slots, NEW pc, S!Goto(s, pc)
      PROVE  \A t \in Slots : call'[t].k = call[t].k /\ call'[t].late = call[t].late
  BY <1>a, <1>h DEF S!Goto, S!Calls
<1>i. ASSUME NEW s \in Slots, S!Answer(s) \/ (\E pc : S!Goto(s, pc)) \/ UNCHANGED call,
             \A k \in Tokens : session[k].status # "unissued" => session'[k].status # "unissued"
      PROVE  /\ \A t \in Slots : call'[t].k \in Tokens => session'[call'[t].k].status # "unissued"
             /\ S!RefusedForGood'
  BY <1>i, <1>c, <1>f, <1>g, <1>h DEF S!RefusedForGood
\* A step that ends the token k, or changes no row.
<1>j. ASSUME NEW s \in Slots, S!Answer(s) \/ (\E pc : S!Goto(s, pc)) \/ UNCHANGED call,
             NEW k \in Tokens, session[k].status # "unissued", UNCHANGED unused,
             \/ session' = S!Revoked(k) /\ over' = over \cup {k}
             \/ UNCHANGED session /\ over' = over
      PROVE  SessionsInv'
  <2>1. RowsOnlyEnd
    BY <1>j, RevokedRows DEF RowsOnlyEnd, SessionsType
  <2>2. \A j \in over' : session'[j].status # "unissued" /\ ~S!Found(j)'
    <3>1. session' = S!Revoked(k) => session'[k].status # "unissued" /\ ~S!Found(k)'
      BY <1>j, <1>a, RevokedRows DEF S!Found, S!Dead, SessionsType
    <3> QED BY <1>j, <2>1, <3>1, EndedRowsAreSound
  <2> QED BY <1>i, <1>j, <2>1, <2>2, EndedRowsAreSound DEF SessionsInv
<1>1. ASSUME NEW s \in Slots, S!RefuseIdle(s) PROVE SessionsInv'
  BY <1>1, <1>a, <1>c, <1>j DEF S!RefuseIdle, S!At
<1>2. ASSUME NEW s \in Slots, S!Touch(s) PROVE SessionsInv'
  <2> DEFINE k == call[s].k
  <2>1. k \in Tokens /\ over' = over
    BY <1>2, <1>a DEF S!Touch, S!At
  <2>2. /\ \A j \in Tokens : session'[j].status = session[j].status /\ session'[j].expired = session[j].expired
        /\ \A j \in Tokens : session'[j].age = IF j = k /\ session[k].status = "live" THEN 0 ELSE session[j].age
    BY <1>2, <2>1, <1>a DEF S!Touch, S!Row
  <2>3. \A j \in Tokens : unused'[j] = IF j = k THEN 0 ELSE unused[j]
    BY <1>2, <2>1, <1>a DEF S!Touch
  <2>4. \A j \in over' : session'[j].status # "unissued" /\ ~S!Found(j)'
    BY <2>1, <2>2, <1>a, <1>b DEF S!Found
  <2>5. \A j \in Tokens : session'[j].status = "unissued" => session'[j].age = 0 /\ ~session'[j].expired
    BY <2>1, <2>2, <1>c, <1>d
  <2>6. S!UseIsRemembered'
    BY <2>2, <2>3, <1>d, <1>e, <1>f DEF S!UseIsRemembered
  <2> QED BY <2>2, <2>4, <2>5, <2>6, <1>2, <1>i DEF S!Touch, SessionsInv
<1>3. ASSUME NEW s \in Slots, S!Serve(s) PROVE SessionsInv'
  BY <1>3, <1>a, <1>c, <1>j DEF S!Serve, S!At
<1>4. ASSUME NEW s \in Slots, S!SwitchTeam(s) PROVE SessionsInv'
  BY <1>4, <1>a, <1>c, <1>j DEF S!SwitchTeam, S!At
<1>5. ASSUME NEW s \in Slots, S!Retire(s) PROVE SessionsInv'
  BY <1>5, <1>a, <1>c, <1>j DEF S!Retire, S!At
<1>6. ASSUME NEW s \in Slots, S!Fail(s) PROVE SessionsInv'
  <2>1. RowsOnlyEnd /\ UNCHANGED <<session, unused, over>>
    BY <1>6 DEF S!Fail, RowsOnlyEnd
  <2> QED BY <2>1, <1>6, <1>i, EndedRowsAreSound DEF S!Fail, SessionsInv
<1>7. ASSUME NEW s \in Slots, S!Login(s) PROVE SessionsInv'
  <2>1. RowsOnlyEnd /\ UNCHANGED <<session, unused, over>>
    BY <1>7 DEF S!Login, RowsOnlyEnd
  <2>2. \A t \in Slots : call'[t] = call[t] \/ (call'[t].k = NoToken /\ ~call'[t].late)
    BY <1>7, <1>a DEF S!Login, S!Free
  <2>3. /\ \A t \in Slots : call'[t].k \in Tokens => session'[call'[t].k].status # "unissued"
        /\ S!RefusedForGood'
    BY <2>1, <2>2, <1>c, <1>f DEF S!RefusedForGood
  <2> QED BY <2>1, <2>3, EndedRowsAreSound DEF SessionsInv
<1>8. ASSUME NEW s \in Slots, NEW k \in Tokens, S!Issue(s, k) PROVE SessionsInv'
  <2>1. /\ session[k].status = "unissued" /\ UNCHANGED <<unused, over>> /\ k \notin over
        /\ S!Answer(s) \/ S!Goto(s, "retire")
    BY <1>8, <1>b DEF S!Issue
  <2>2. /\ \A j \in Tokens \ {k} : session'[j] = session[j]
        /\ session'[k].status = "live" /\ session'[k].age = 0
    BY <1>8, <2>1, <1>a, <1>d DEF S!Issue, S!Row
  <2>3. \A j \in over' : session'[j].status # "unissued" /\ ~S!Found(j)'
    BY <2>1, <2>2, <1>a, <1>b DEF S!Found
  <2>4. \A j \in Tokens : session'[j].status = "unissued" => session'[j].age = 0 /\ ~session'[j].expired
    BY <2>2, <1>d
  <2>5. S!UseIsRemembered'
    BY <2>1, <2>2, <1>d, <1>e, <1>f DEF S!UseIsRemembered
  <2> QED BY <2>1, <2>2, <2>3, <2>4, <2>5, <1>i DEF SessionsInv
<1>9. ASSUME NEW s \in Slots, NEW k \in Tokens, NEW op \in {"use", "switch"}, S!Select(s, op, k)
      PROVE  SessionsInv'
  <2>1. UNCHANGED session /\ session[k].status # "unissued"
    BY <1>9 DEF S!Select
  <2>2. CASE S!Found(k)
    <3>1. k \notin over /\ UNCHANGED over
      BY <1>9, <2>2, <1>b DEF S!Select
    <3>2. \A t \in Slots : call'[t] = call[t] \/ (call'[t].k = k /\ ~call'[t].late)
      <4> DEFINE new == [pc |-> S!NextStep(session[k].age), op |-> op, k |-> k, late |-> k \in over]
      <4>1. new.k = k /\ ~new.late
        BY <3>1
      <4>2. call' = [call EXCEPT ![s] = new]
        BY <1>9, <2>2 DEF S!Select
      <4> HIDE DEF new
      <4> QED BY <4>1, <4>2, <1>a
    <3>3. \A j \in Tokens : unused'[j] = unused[j] \/ (j = k /\ unused'[j] = 0 /\ session[k].age <= TouchInterval)
      BY <1>9, <2>2, <1>a, <1>e, <1>f DEF S!Select, S!NextStep
    <3>4. S!UseIsRemembered'
      BY <2>1, <3>3, <1>d, <1>e, <1>f DEF S!UseIsRemembered
    <3>5. S!RefusedForGood' /\ \A t \in Slots : call'[t].k \in Tokens => session'[call'[t].k].status # "unissued"
      BY <2>1, <3>2, <1>c DEF S!RefusedForGood
    <3> QED BY <2>1, <3>1, <3>4, <3>5, <1>b, <1>d DEF SessionsInv, S!Found
  <2>3. CASE ~S!Found(k)
    <3>1. over' = over \cup {k} /\ UNCHANGED <<session, call, unused>>
      BY <1>9, <2>3 DEF S!Select
    <3> QED BY <2>1, <2>3, <3>1 DEF SessionsInv, S!Found, S!RefusedForGood, S!UseIsRemembered
  <2> QED BY <2>2, <2>3
<1>10. ASSUME NEW k \in Tokens, S!Logout(k) PROVE SessionsInv'
  <2>1. RowsOnlyEnd /\ over' = over \cup {k} /\ UNCHANGED <<call, unused>> /\ session[k].status # "unissued"
    BY <1>10, RevokedRows DEF S!Logout, RowsOnlyEnd, SessionsType
  <2>2. session'[k].status # "unissued" /\ ~S!Found(k)'
    BY <1>10, <1>a, RevokedRows DEF S!Logout, S!Found, S!Dead, SessionsType
  <2>3. \A j \in over' : session'[j].status # "unissued" /\ ~S!Found(j)'
    BY <2>1, <2>2, EndedRowsAreSound
  <2>4. S!RefusedForGood' /\ \A t \in Slots : call'[t].k \in Tokens => session'[call'[t].k].status # "unissued"
    BY <2>1, <1>c, EndedRowsAreSound DEF S!RefusedForGood
  <2> QED BY <2>1, <2>3, <2>4, EndedRowsAreSound DEF SessionsInv
<1>11. ASSUME NEW k \in Tokens, S!Expire(k) PROVE SessionsInv'
  <2>1. /\ UNCHANGED <<call, unused, over>>
        /\ \A j \in Tokens : session'[j].status = session[j].status /\ session'[j].age = session[j].age
        /\ \A j \in Tokens : session[j].expired => session'[j].expired
        /\ \A j \in Tokens : session'[j].expired = session[j].expired \/ session'[j].status = "live"
    BY <1>11, <1>a DEF S!Expire, S!Row, S!Found
  <2>2. \A j \in over' : session'[j].status # "unissued" /\ ~S!Found(j)'
    BY <2>1, <1>a, <1>b DEF S!Found
  <2> QED BY <2>1, <2>2, <1>c, <1>d DEF SessionsInv, S!RefusedForGood, S!UseIsRemembered
<1>12. ASSUME S!Purge PROVE SessionsInv'
  <2>1. RowsOnlyEnd /\ UNCHANGED <<call, unused, over>>
    BY <1>12, <1>d DEF S!Purge, RowsOnlyEnd
  <2>2. S!RefusedForGood' /\ \A t \in Slots : call'[t].k \in Tokens => session'[call'[t].k].status # "unissued"
    BY <2>1, <1>c, EndedRowsAreSound DEF S!RefusedForGood
  <2> QED BY <2>1, <2>2, EndedRowsAreSound DEF SessionsInv
<1>13. ASSUME S!Tick PROVE SessionsInv'
  <2>1. /\ UNCHANGED <<call, over>>
        /\ \A j \in Tokens : session'[j].status = session[j].status /\ session'[j].expired = session[j].expired
    BY <1>13, <1>a DEF S!Tick, S!Row
  <2>2. \A j \in Tokens : IF session[j].status = "live"
                          THEN session'[j].age = S!Older(session[j].age) /\ unused'[j] = S!Older(unused[j])
                          ELSE session'[j].age = session[j].age /\ unused'[j] = unused[j]
    BY <1>13, <1>a DEF S!Tick, S!Row
  <2>3. S!UseIsRemembered'
    <3> SUFFICES ASSUME NEW j \in Tokens, session'[j].status = "live"
                 PROVE  session'[j].age <= unused'[j] + TouchInterval
      BY DEF S!UseIsRemembered
    <3>1. session[j].age \in S!Ages /\ unused[j] \in S!Ages
      BY <1>a DEF S!Row
    <3>2. /\ session'[j].age = IF session[j].age > IdleTimeout THEN session[j].age ELSE session[j].age + 1
          /\ unused'[j] = IF unused[j] > IdleTimeout THEN unused[j] ELSE unused[j] + 1
      BY <2>1, <2>2, <3>1, OlderAge
    <3>3. session[j].age <= unused[j] + TouchInterval
      BY <2>1, <1>d
    <3> QED BY <3>1, <3>2, <3>3, <1>f DEF S!Ages
  <2>4. \A j \in over' : session'[j].status # "unissued" /\ ~S!Found(j)'
    BY <2>1, <1>a, <1>b DEF S!Found
  <2>5. \A j \in Tokens : session'[j].status = "unissued" => session'[j].age = 0 /\ ~session'[j].expired
    BY <2>1, <2>2, <1>d
  <2> QED BY <2>1, <2>3, <2>4, <2>5, <1>c DEF SessionsInv, S!RefusedForGood
<1> QED BY <1>1, <1>2, <1>3, <1>4, <1>5, <1>6, <1>7, <1>8, <1>9, <1>10, <1>11, <1>12, <1>13
        DEF S!SessionsNext, S!Step

-----------------------------------------------------------------------------
\* Limits.  The run checks the active tests against the limit; what a step keeps
\* is the bound on those whose row is still on its way as well; those set running
\* again after their end are in neither.
Pending == {t \in Tests : test[t] \in {"submitted", "active"}} \ revived

Updating(s) == job[s].pc \in {"merge", "upsert"}

\* The limits of AI calls that count today: the one in force, and those that
\* requests about to count hold.
LimitsHeld == {quota["maxGeminiCallsPerDay"]} \cup {job[s].limit : s \in {r \in Slots : job[r].pc = "take"}}

HeldAreAllowed == \A n \in LimitsHeld : n <= allowed

\* As long as no count was taken while a test had no row.
PendingFit == raced \/ Cardinality(Pending) <= quota["maxConcurrentTests"]

\* As long as no two updates overlapped, one at most is under way, and it merges
\* into the limits that are in force.
UpdatesInTurn ==
    lapped \/ /\ quota = asked
              /\ \A s \in Slots : job[s].pc = "upsert" => job[s].q = quota
              /\ \A r, s \in Slots : Updating(r) /\ Updating(s) => r = s

QuotasInv == HeldAreAllowed /\ Q!CallsWithinLimit /\ PendingFit /\ UpdatesInTurn

LEMMA GreatestOfBounded ==
    ASSUME NEW C \in SUBSET Nat, C # {}, NEW b \in Nat, \A c \in C : c <= b
    PROVE  \E m \in C : \A c \in C : c <= m
<1> DEFINE T == {b - c : c \in C}
<1>1. T \subseteq Nat /\ T # {}
  <2>1. \A c \in C : b - c \in Nat
    OBVIOUS
  <2> QED BY <2>1
<1>2. PICK x \in T : \A y \in T : ~(<<y, x>> \in OpToRel(<, Nat))
  BY <1>1, NatLessThanWellFounded, WFMin
<1>3. \A y \in T : ~(y < x)
  BY <1>1, <1>2 DEF OpToRel
<1>4. PICK m \in C : x = b - m
  OBVIOUS
<1>5. ASSUME NEW c \in C PROVE c <= m
  <2>1. ~(b - c < b - m)
    BY <1>3, <1>4
  <2>2. c \in Nat /\ m \in Nat
    OBVIOUS
  <2> QED BY <2>1, <2>2
<1> QED BY <1>5

\* The library's theorems are about these two operators, TeamQuotas about its own
\* instances of them.
LEMMA SameSizes ==
    ASSUME NEW A
    PROVE  Q!IsFiniteSet(A) = IsFiniteSet(A) /\ Q!Cardinality(A) = Cardinality(A)
<1>1. Q!IsFiniteSet(A) = IsFiniteSet(A)
  BY DEF Q!IsFiniteSet, IsFiniteSet
<1>2. Q!Cardinality(A) = Cardinality(A)
  BY DEF Q!Cardinality, Cardinality
<1> QED BY <1>1, <1>2

LEMMA LimitsArePositive == Limits \subseteq Nat \ {0} /\ Default \in Limits /\ IsFiniteSet(Tests)
BY Assumptions, SameSizes DEF Q!QuotasAssumption

\* What Midnight chooses exists: the greatest of the limits held.
LEMMA MidnightsLimit ==
    ASSUME Q!QuotasTypeOK, HeldAreAllowed, Q!Midnight
    PROVE  allowed' \in Limits /\ \A n \in LimitsHeld : n <= allowed'
<1> DEFINE G(n) == /\ \A s \in Slots : Q!At(s, "take") => job[s].limit <= n
                   /\ quota["maxGeminiCallsPerDay"] <= n
                   /\ \/ n = quota["maxGeminiCallsPerDay"]
                      \/ \E s \in Slots : Q!At(s, "take") /\ n = job[s].limit
<1>1. LimitsHeld \subseteq Limits /\ LimitsHeld # {} /\ allowed \in Nat
  BY LimitsArePositive DEF Q!QuotasTypeOK, Q!Quotas, Q!Fields, LimitsHeld
<1>2. PICK m \in LimitsHeld : \A n \in LimitsHeld : n <= m
  BY <1>1, LimitsArePositive, GreatestOfBounded DEF HeldAreAllowed
<1>3. m \in Limits /\ G(m)
  BY <1>1, <1>2 DEF LimitsHeld, Q!At
<1>4. allowed' = CHOOSE n \in Limits : G(n)
  BY DEF Q!Midnight
<1>5. allowed' \in Limits /\ G(allowed')
  <2> HIDE DEF G
  <2> QED BY <1>3, <1>4
<1> QED BY <1>5 DEF LimitsHeld, Q!At

LEMMA MergedLimits ==
    ASSUME NEW q \in Q!Quotas, NEW set \in [Q!Fields -> Limits \cup {0}]
    PROVE  Q!Merged(q, set) \in Q!Quotas
BY DEF Q!Merged, Q!Quotas

LEMMA FreeJob == Q!Free \in Q!Jobs /\ Q!Free.pc = "free" /\ Q!Free.limit = 0
BY DEF Q!Free, Q!Jobs, Q!Nobody

SoundJob(s) == /\ job[s].pc = "upsert" => job[s].q \in Q!Quotas
               /\ job[s].pc \in {"take", "count", "peek"} => job[s].limit \in Limits
               /\ job[s].pc = "count" => job[s].t \in Tests

LEMMA QuotasTypeStep ==
    ASSUME Q!QuotasTypeOK, HeldAreAllowed, Q!QuotasNext
    PROVE  Q!QuotasTypeOK'
<1>a. /\ quota \in Q!Quotas /\ asked \in Q!Quotas /\ usage \in Nat
      /\ test \in [Tests -> Q!States]
      /\ job \in [Slots -> Q!Jobs] /\ \A s \in Slots : SoundJob(s)
      /\ allowed \in Limits /\ lapped \in BOOLEAN /\ raced \in BOOLEAN /\ revived \subseteq Tests
  BY DEF Q!QuotasTypeOK, SoundJob, Q!At
<1>b. ASSUME   /\ quota' \in Q!Quotas /\ asked' \in Q!Quotas /\ usage' \in Nat
               /\ test' \in [Tests -> Q!States]
               /\ job' \in [Slots -> Q!Jobs] /\ \A s \in Slots : SoundJob(s)'
               /\ allowed' \in Limits /\ lapped' \in BOOLEAN /\ raced' \in BOOLEAN /\ revived' \subseteq Tests
      PROVE    Q!QuotasTypeOK'
  BY <1>b DEF Q!QuotasTypeOK, SoundJob, Q!At
<1>c. /\ quota["maxGeminiCallsPerDay"] \in Limits /\ quota["maxConcurrentTests"] \in Limits
      /\ Limits \subseteq Nat
  BY <1>a, LimitsArePositive DEF Q!Quotas, Q!Fields
<1>d. ASSUME NEW s \in Slots, NEW new \in Q!Jobs, Q!Take(s, new),
             /\ new.pc = "upsert" => new.q \in Q!Quotas
             /\ new.pc \in {"take", "count", "peek"} => new.limit \in Limits
             /\ new.pc = "count" => new.t \in Tests
      PROVE  job' \in [Slots -> Q!Jobs] /\ \A r \in Slots : SoundJob(r)'
  BY <1>a, <1>d DEF Q!Take, SoundJob
<1>e. ASSUME NEW s \in Slots, Q!Answer(s)
      PROVE  job' \in [Slots -> Q!Jobs] /\ \A r \in Slots : SoundJob(r)'
  BY <1>d, <1>e, FreeJob DEF Q!Answer
<1>f. [Q!Free EXCEPT !.pc = "call"] \in Q!Jobs /\ [Q!Free EXCEPT !.pc = "call"].pc = "call"
  BY DEF Q!Free, Q!Jobs, Q!Nobody
<1>1. ASSUME NEW s \in Slots, NEW set \in [Q!Fields -> Limits \cup {0}], Q!PutQuotas(s, set)
      PROVE  Q!QuotasTypeOK'
  <2> DEFINE new == [Q!Free EXCEPT !.pc = "merge", !.set = set]
  <2>1. new \in Q!Jobs /\ new.pc = "merge"
    BY DEF Q!Free, Q!Jobs, Q!Nobody
  <2> HIDE DEF new
  <2>2. job' \in [Slots -> Q!Jobs] /\ \A r \in Slots : SoundJob(r)'
    BY <2>1, <1>1, <1>d DEF Q!PutQuotas, new
  <2> QED BY <2>2, <1>1, <1>a, <1>b DEF Q!PutQuotas
<1>2. ASSUME NEW s \in Slots, Q!ReadLimits(s) PROVE Q!QuotasTypeOK'
  <2> DEFINE new == [job[s] EXCEPT !.pc = "upsert", !.q = quota]
  <2>1. new \in Q!Jobs /\ new.pc = "upsert" /\ new.q \in Q!Quotas
    BY <1>a DEF Q!Jobs, Q!Quotas
  <2>2. job' = [job EXCEPT ![s] = new]
    BY <1>2, <1>a DEF Q!ReadLimits
  <2> HIDE DEF new
  <2>3. job' \in [Slots -> Q!Jobs] /\ \A r \in Slots : SoundJob(r)'
    BY <2>1, <2>2, <1>d DEF Q!Take
  <2> QED BY <2>3, <1>2, <1>a, <1>b DEF Q!ReadLimits
<1>3. ASSUME NEW s \in Slots, Q!Upsert(s) PROVE Q!QuotasTypeOK'
  <2>1. job[s].q \in Q!Quotas /\ job[s].set \in [Q!Fields -> Limits \cup {0}]
    BY <1>3, <1>a DEF Q!Upsert, Q!At, SoundJob, Q!Jobs
  <2>2. quota' \in Q!Quotas
    BY <1>3, <2>1, MergedLimits DEF Q!Upsert
  <2>3. asked' \in Q!Quotas
    <3>1. [f \in Q!Fields |-> IF job[s].set[f] # 0 THEN job[s].set[f] ELSE asked[f]] \in Q!Quotas
      BY <2>1, <1>a DEF Q!Quotas
    <3> QED BY <3>1, <1>3, <2>2 DEF Q!Upsert
  <2>4. allowed' \in Limits
    BY <1>3, <1>a, <2>2 DEF Q!Upsert, Q!Upper, Q!Quotas, Q!Fields
  <2>5. raced' \in BOOLEAN
    BY <1>3 DEF Q!Upsert
  <2>6. usage' = usage /\ test' = test /\ lapped' = lapped /\ revived' = revived
    BY <1>3 DEF Q!Upsert
  <2> QED BY <2>2, <2>3, <2>4, <2>5, <2>6, <1>3, <1>a, <1>b, <1>e DEF Q!Upsert
<1>4. ASSUME NEW s \in Slots, Q!AskAI(s) PROVE Q!QuotasTypeOK'
  <2> DEFINE new == [Q!Free EXCEPT !.pc = "take", !.limit = quota["maxGeminiCallsPerDay"]]
  <2>1. new \in Q!Jobs /\ new.pc = "take" /\ new.limit \in Limits
    BY <1>c DEF Q!Free, Q!Jobs, Q!Nobody
  <2> HIDE DEF new
  <2>2. job' \in [Slots -> Q!Jobs] /\ \A r \in Slots : SoundJob(r)'
    BY <2>1, <1>4, <1>d DEF Q!AskAI, new
  <2> QED BY <2>2, <1>4, <1>a, <1>b DEF Q!AskAI
<1>5. ASSUME NEW s \in Slots, Q!CountCall(s) PROVE Q!QuotasTypeOK'
  <2>1. job' \in [Slots -> Q!Jobs] /\ \A r \in Slots : SoundJob(r)'
    <3>1. Q!Answer(s) \/ Q!Take(s, [Q!Free EXCEPT !.pc = "call"])
      BY <1>5 DEF Q!CountCall
    <3> QED BY <3>1, <1>d, <1>e, <1>f
  <2>2. usage' \in Nat
    BY <1>5, <1>a DEF Q!CountCall
  <2> QED BY <2>1, <2>2, <1>5, <1>a, <1>b DEF Q!CountCall
<1>6. ASSUME NEW s \in Slots, Q!AskTrend(s) PROVE Q!QuotasTypeOK'
  <2> DEFINE new == [Q!Free EXCEPT !.pc = "peek", !.limit = quota["maxGeminiCallsPerDay"]]
  <2>1. new \in Q!Jobs /\ new.pc = "peek" /\ new.limit \in Limits
    BY <1>c DEF Q!Free, Q!Jobs, Q!Nobody
  <2> HIDE DEF new
  <2>2. job' \in [Slots -> Q!Jobs] /\ \A r \in Slots : SoundJob(r)'
    BY <2>1, <1>6, <1>d DEF Q!AskTrend, new
  <2> QED BY <2>2, <1>6, <1>a, <1>b DEF Q!AskTrend
<1>7. ASSUME NEW s \in Slots, Q!Peek(s) PROVE Q!QuotasTypeOK'
  <2>1. job' \in [Slots -> Q!Jobs] /\ \A r \in Slots : SoundJob(r)'
    <3>1. Q!Answer(s) \/ Q!Take(s, [Q!Free EXCEPT !.pc = "call"])
      BY <1>7 DEF Q!Peek
    <3> QED BY <3>1, <1>d, <1>e, <1>f
  <2> QED BY <2>1, <1>7, <1>a, <1>b DEF Q!Peek
<1>8. ASSUME NEW s \in Slots, Q!AIAnswered(s) PROVE Q!QuotasTypeOK'
  BY <1>8, <1>a, <1>b, <1>e DEF Q!AIAnswered
<1>9. ASSUME NEW s \in Slots, NEW t \in Tests, Q!SubmitTest(s, t) PROVE Q!QuotasTypeOK'
  <2> DEFINE new == [Q!Free EXCEPT !.pc = "count", !.limit = quota["maxConcurrentTests"], !.t = t]
  <2>1. new \in Q!Jobs /\ new.pc = "count" /\ new.limit \in Limits /\ new.t \in Tests
    BY <1>c DEF Q!Free, Q!Jobs, Q!Nobody
  <2> HIDE DEF new
  <2>2. job' \in [Slots -> Q!Jobs] /\ \A r \in Slots : SoundJob(r)'
    BY <2>1, <1>9, <1>d DEF Q!SubmitTest, new
  <2> QED BY <2>2, <1>9, <1>a, <1>b DEF Q!SubmitTest
<1>10. ASSUME NEW s \in Slots, Q!CountTests(s) PROVE Q!QuotasTypeOK'
  <2>1. test' \in [Tests -> Q!States]
    BY <1>10, <1>a DEF Q!CountTests, Q!States
  <2>2. raced' \in BOOLEAN
    BY <1>10 DEF Q!CountTests
  <2>3. /\ quota' = quota /\ usage' = usage /\ asked' = asked /\ lapped' = lapped /\ allowed' = allowed
        /\ revived' = revived
    BY <1>10 DEF Q!CountTests
  <2> QED BY <2>1, <2>2, <2>3, <1>10, <1>a, <1>b, <1>e DEF Q!CountTests
<1>11. ASSUME NEW s \in Slots, Q!Fail(s) PROVE Q!QuotasTypeOK'
  BY <1>11, <1>a, <1>b, <1>e DEF Q!Fail
<1>12. ASSUME NEW t \in Tests,
              Q!PendingArrives(t) \/ Q!PendingLost(t) \/ Q!EndTest(t) \/ Q!RunningArrives(t)
       PROVE  Q!QuotasTypeOK'
  <2>1. /\ test' \in [Tests -> Q!States] /\ revived' \subseteq Tests
        /\ UNCHANGED <<quota, usage, job, asked, lapped, allowed, raced>>
    BY <1>12, <1>a DEF Q!PendingArrives, Q!PendingLost, Q!EndTest, Q!RunningArrives, Q!States
  <2> QED BY <2>1, <1>a, <1>b DEF SoundJob
<1>13. ASSUME Q!Midnight PROVE Q!QuotasTypeOK'
  <2>1. allowed' \in Limits
    BY <1>13, MidnightsLimit
  <2>2. usage' = 0 /\ UNCHANGED <<quota, test, job, asked, lapped, raced, revived>>
    BY <1>13 DEF Q!Midnight
  <2> QED BY <2>1, <2>2, <1>a, <1>b DEF SoundJob
<1> QED BY <1>1, <1>2, <1>3, <1>4, <1>5, <1>6, <1>7, <1>8, <1>9, <1>10, <1>11, <1>12, <1>13
        DEF Q!QuotasNext

LEMMA PendingIsFinite ==
    ASSUME NEW A \in SUBSET Tests
    PROVE  IsFiniteSet(A) /\ Cardinality(A) \in Nat
<1>1. IsFiniteSet(A)
  BY LimitsArePositive, FS_Subset
<1> QED BY <1>1, FS_CardinalityType

LEMMA FewerPending ==
    ASSUME NEW A \in SUBSET Tests, NEW B \in SUBSET A
    PROVE  Cardinality(B) <= Cardinality(A)
BY PendingIsFinite, FS_Subset

\* A step that changes no limit and no test, and lets no update begin.
LEMMA JobMovesOn ==
    ASSUME Q!QuotasTypeOK, QuotasInv, UNCHANGED <<quota, asked, lapped, allowed, raced, revived>>,
           NEW s \in Slots, NEW new \in Q!Jobs, job' = [job EXCEPT ![s] = new],
           new.pc \notin {"merge", "upsert"},
           new.pc = "take" => new.limit = quota["maxGeminiCallsPerDay"]
    PROVE  HeldAreAllowed' /\ UpdatesInTurn' /\ (UNCHANGED test => PendingFit')
<1>1. \A r \in Slots : job'[r] = IF r = s THEN new ELSE job[r]
  BY DEF Q!QuotasTypeOK
<1>2. HeldAreAllowed'
  BY <1>1 DEF QuotasInv, HeldAreAllowed, LimitsHeld
<1>3. UpdatesInTurn'
  BY <1>1 DEF QuotasInv, UpdatesInTurn, Updating
<1>4. UNCHANGED test => PendingFit'
  BY DEF QuotasInv, PendingFit, Pending
<1> QED BY <1>2, <1>3, <1>4

LEMMA QuotasInvStep ==
    ASSUME Q!QuotasTypeOK, Q!QuotasTypeOK', QuotasInv, Q!QuotasNext
    PROVE  QuotasInv'
<1>a. /\ quota \in Q!Quotas /\ asked \in Q!Quotas /\ usage \in Nat
      /\ test \in [Tests -> Q!States]
      /\ job \in [Slots -> Q!Jobs] /\ \A s \in Slots : SoundJob(s)
      /\ allowed \in Limits /\ lapped \in BOOLEAN /\ raced \in BOOLEAN /\ revived \subseteq Tests
  BY DEF Q!QuotasTypeOK, SoundJob, Q!At
<1>b. quota' \in Q!Quotas /\ allowed' \in Limits
  BY DEF Q!QuotasTypeOK
<1>c. /\ quota["maxGeminiCallsPerDay"] \in Limits /\ quota["maxConcurrentTests"] \in Limits
      /\ quota'["maxGeminiCallsPerDay"] \in Limits /\ quota'["maxConcurrentTests"] \in Limits
      /\ Limits \subseteq Nat \ {0}
  BY <1>a, <1>b, LimitsArePositive DEF Q!Quotas, Q!Fields
<1>g. /\ quota["maxGeminiCallsPerDay"] \in Nat /\ quota["maxConcurrentTests"] \in Nat
      /\ quota'["maxGeminiCallsPerDay"] \in Nat /\ quota'["maxConcurrentTests"] \in Nat
      /\ allowed \in Nat /\ allowed' \in Nat
  BY <1>a, <1>b, <1>c
<1>d. ASSUME NEW s \in Slots, NEW new \in Q!Jobs, Q!Take(s, new)
      PROVE  \A r \in Slots : job'[r] = IF r = s THEN new ELSE job[r]
  BY <1>a, <1>d DEF Q!Take
<1>e. [Q!Free EXCEPT !.pc = "call"] \in Q!Jobs /\ [Q!Free EXCEPT !.pc = "call"].pc = "call"
  BY DEF Q!Free, Q!Jobs, Q!Nobody
\* Steps that only move a request on.
<1>f. ASSUME NEW s \in Slots, NEW new \in Q!Jobs, Q!Take(s, new),
             new.pc \notin {"merge", "upsert"},
             new.pc = "take" => new.limit = quota["maxGeminiCallsPerDay"],
             UNCHANGED <<quota, usage, test, asked, lapped, allowed, raced, revived>>
      PROVE  QuotasInv'
  BY <1>f, JobMovesOn DEF Q!Take, QuotasInv, Q!CallsWithinLimit
<1>1. ASSUME NEW s \in Slots, NEW set \in [Q!Fields -> Limits \cup {0}], Q!PutQuotas(s, set)
      PROVE  QuotasInv'
  <2> DEFINE new == [Q!Free EXCEPT !.pc = "merge", !.set = set]
  <2>1. new \in Q!Jobs /\ new.pc = "merge"
    BY DEF Q!Free, Q!Jobs, Q!Nobody
  <2>2. Q!Take(s, new) /\ UNCHANGED <<quota, usage, test, asked, allowed, raced, revived>>
    BY <1>1 DEF Q!PutQuotas
  <2>3. lapped' = (lapped \/ \E r \in Slots : Updating(r))
    BY <1>1 DEF Q!PutQuotas, Updating
  <2> HIDE DEF new
  <2>4. \A r \in Slots : job'[r] = IF r = s THEN new ELSE job[r]
    BY <2>1, <2>2, <1>d
  <2>5. HeldAreAllowed'
    BY <2>1, <2>2, <2>4 DEF QuotasInv, HeldAreAllowed, LimitsHeld
  <2>6. Q!CallsWithinLimit' /\ PendingFit'
    BY <2>2 DEF QuotasInv, Q!CallsWithinLimit, PendingFit, Pending
  <2>7. UpdatesInTurn'
    <3>1. CASE lapped \/ \E r \in Slots : Updating(r)
      BY <3>1, <2>3 DEF UpdatesInTurn
    <3>2. CASE ~lapped /\ \A r \in Slots : ~Updating(r)
      BY <3>2, <2>1, <2>2, <2>4 DEF QuotasInv, UpdatesInTurn, Updating
    <3> QED BY <3>1, <3>2
  <2> QED BY <2>5, <2>6, <2>7 DEF QuotasInv
<1>2. ASSUME NEW s \in Slots, Q!ReadLimits(s) PROVE QuotasInv'
  <2>1. /\ job[s].pc = "merge" /\ UNCHANGED <<quota, usage, test, asked, lapped, allowed, raced, revived>>
        /\ \A r \in Slots : r # s => job'[r] = job[r]
        /\ job'[s].pc = "upsert" /\ job'[s].q = quota
    BY <1>2, <1>a DEF Q!ReadLimits, Q!At, Q!Jobs
  <2>2. HeldAreAllowed'
    BY <2>1 DEF QuotasInv, HeldAreAllowed, LimitsHeld
  <2>3. Q!CallsWithinLimit' /\ PendingFit'
    BY <2>1 DEF QuotasInv, Q!CallsWithinLimit, PendingFit, Pending
  <2>4. UpdatesInTurn'
    BY <2>1 DEF QuotasInv, UpdatesInTurn, Updating
  <2> QED BY <2>2, <2>3, <2>4 DEF QuotasInv
<1>3. ASSUME NEW s \in Slots, Q!Upsert(s) PROVE QuotasInv'
  <2>1. /\ job[s].pc = "upsert" /\ UNCHANGED <<usage, test, lapped, revived>>
        /\ quota' = Q!Merged(job[s].q, job[s].set)
        /\ allowed' = Q!Upper(allowed, quota'["maxGeminiCallsPerDay"])
        /\ raced' = (raced \/ quota'["maxConcurrentTests"] < quota["maxConcurrentTests"])
        /\ Q!Take(s, Q!Free)
    BY <1>3 DEF Q!Upsert, Q!At, Q!Answer
  <2>2. \A r \in Slots : job'[r] = IF r = s THEN Q!Free ELSE job[r]
    BY <2>1, <1>d, FreeJob
  <2>3. allowed <= allowed' /\ quota'["maxGeminiCallsPerDay"] <= allowed'
    BY <2>1, <1>g DEF Q!Upper
  <2>4. HeldAreAllowed'
    <3> SUFFICES ASSUME NEW r \in Slots, job'[r].pc = "take" PROVE job'[r].limit <= allowed'
      BY <2>3 DEF HeldAreAllowed, LimitsHeld
    <3>1. job'[r] = job[r]
      BY <2>2, FreeJob
    <3>2. job[r].limit <= allowed /\ job[r].limit \in Limits
      BY <3>1, <1>a DEF QuotasInv, HeldAreAllowed, LimitsHeld, SoundJob
    <3> DEFINE n == job[r].limit
    <3>3. n \in Nat
      BY <3>2, <1>c
    <3>4. n <= allowed /\ job'[r].limit = n
      BY <3>1, <3>2
    <3> HIDE DEF n
    <3> QED BY <3>3, <3>4, <2>3, <1>g
  <2>5. Q!CallsWithinLimit'
    BY <2>1, <2>3, <1>a, <1>b, <1>c DEF QuotasInv, Q!CallsWithinLimit
  <2>6. PendingFit'
    <3>1. Pending' = Pending /\ Cardinality(Pending) \in Nat
      BY <2>1, PendingIsFinite DEF Pending
    <3>2. CASE raced \/ quota'["maxConcurrentTests"] < quota["maxConcurrentTests"]
      BY <3>2, <2>1 DEF PendingFit
    <3>3. CASE ~raced /\ ~(quota'["maxConcurrentTests"] < quota["maxConcurrentTests"])
      <4>1. Cardinality(Pending) <= quota["maxConcurrentTests"]
        BY <3>3 DEF QuotasInv, PendingFit
      <4>2. Cardinality(Pending)' <= quota'["maxConcurrentTests"]
        BY <4>1, <3>1, <3>3, <1>g
      <4> QED BY <4>2 DEF PendingFit
    <3> QED BY <3>2, <3>3
  <2>7. UpdatesInTurn'
    <3>1. CASE lapped
      BY <3>1, <2>1 DEF UpdatesInTurn
    <3>2. CASE ~lapped
      <4>1. /\ quota = asked /\ job[s].q = quota
            /\ \A r \in Slots : Updating(r) => r = s
        BY <3>2, <2>1 DEF QuotasInv, UpdatesInTurn, Updating
      <4>2. asked' = [f \in Q!Fields |-> IF job[s].set[f] # 0 THEN job[s].set[f] ELSE asked[f]]
        BY <3>2, <1>3 DEF Q!Upsert
      <4>3. quota' = asked'
        BY <4>1, <4>2, <2>1 DEF Q!Merged
      <4>4. \A r \in Slots : ~Updating(r)'
        BY <4>1, <2>2, FreeJob DEF Updating
      <4> QED BY <4>3, <4>4 DEF UpdatesInTurn, Updating
    <3> QED BY <3>1, <3>2
  <2> QED BY <2>4, <2>5, <2>6, <2>7 DEF QuotasInv
<1>4. ASSUME NEW s \in Slots, Q!AskAI(s) PROVE QuotasInv'
  <2> DEFINE new == [Q!Free EXCEPT !.pc = "take", !.limit = quota["maxGeminiCallsPerDay"]]
  <2>1. new \in Q!Jobs /\ new.pc = "take" /\ new.limit = quota["maxGeminiCallsPerDay"]
    BY <1>c DEF Q!Free, Q!Jobs, Q!Nobody
  <2> HIDE DEF new
  <2> QED BY <2>1, <1>4, <1>f DEF Q!AskAI, new
<1>5. ASSUME NEW s \in Slots, Q!CountCall(s) PROVE QuotasInv'
  <2>1. /\ job[s].pc = "take" /\ UNCHANGED <<quota, test, asked, lapped, allowed, raced, revived>>
        /\ Q!Answer(s) \/ Q!Take(s, [Q!Free EXCEPT !.pc = "call"])
    BY <1>5 DEF Q!CountCall, Q!At
  <2>2. PICK new \in Q!Jobs : /\ job' = [job EXCEPT ![s] = new]
                              /\ new.pc \notin {"merge", "upsert", "take"}
    BY <2>1, <1>e, FreeJob DEF Q!Answer, Q!Take
  <2>3. HeldAreAllowed' /\ UpdatesInTurn' /\ PendingFit'
    BY <2>1, <2>2, JobMovesOn
  <2>4. Q!CallsWithinLimit'
    <3>1. job[s].limit <= allowed /\ job[s].limit \in Limits
      BY <2>1, <1>a DEF QuotasInv, HeldAreAllowed, LimitsHeld, SoundJob
    <3>2. usage' = usage \/ (usage' = usage + 1 /\ (usage = 0 \/ usage < job[s].limit))
      BY <1>5 DEF Q!CountCall, Q!UnderLimit
    <3> QED BY <2>1, <3>1, <3>2, <1>a, <1>c DEF QuotasInv, Q!CallsWithinLimit
  <2> QED BY <2>3, <2>4 DEF QuotasInv
<1>6. ASSUME NEW s \in Slots, Q!AskTrend(s) PROVE QuotasInv'
  <2> DEFINE new == [Q!Free EXCEPT !.pc = "peek", !.limit = quota["maxGeminiCallsPerDay"]]
  <2>1. new \in Q!Jobs /\ new.pc = "peek"
    BY <1>c DEF Q!Free, Q!Jobs, Q!Nobody
  <2> HIDE DEF new
  <2> QED BY <2>1, <1>6, <1>f DEF Q!AskTrend, new
<1>7. ASSUME NEW s \in Slots, Q!Peek(s) PROVE QuotasInv'
  BY <1>7, <1>e, <1>f, FreeJob DEF Q!Peek, Q!Answer
<1>8. ASSUME NEW s \in Slots, Q!AIAnswered(s) PROVE QuotasInv'
  BY <1>8, <1>f, FreeJob DEF Q!AIAnswered, Q!Answer
<1>9. ASSUME NEW s \in Slots, NEW t \in Tests, Q!SubmitTest(s, t) PROVE QuotasInv'
  <2> DEFINE new == [Q!Free EXCEPT !.pc = "count", !.limit = quota["maxConcurrentTests"], !.t = t]
  <2>1. new \in Q!Jobs /\ new.pc = "count"
    BY <1>c DEF Q!Free, Q!Jobs, Q!Nobody
  <2> HIDE DEF new
  <2> QED BY <2>1, <1>9, <1>f DEF Q!SubmitTest, new
<1>10. ASSUME NEW s \in Slots, Q!CountTests(s) PROVE QuotasInv'
  <2>1. /\ job[s].pc = "count" /\ job[s].t \in Tests /\ job[s].limit \in Limits
        /\ UNCHANGED <<quota, usage, asked, lapped, allowed, revived>>
        /\ job' = [job EXCEPT ![s] = Q!Free]
    BY <1>10, <1>a DEF Q!CountTests, Q!At, Q!Answer, Q!Take, SoundJob
  <2>2. raced' = (raced \/ (\E t \in Tests : test[t] = "submitted")
                        \/ job[s].limit # quota["maxConcurrentTests"])
    BY <1>10 DEF Q!CountTests
  <2>3. \A r \in Slots : job'[r] = IF r = s THEN Q!Free ELSE job[r]
    BY <2>1, <1>a
  <2>4. HeldAreAllowed'
    BY <2>1, <2>3, FreeJob DEF QuotasInv, HeldAreAllowed, LimitsHeld
  <2>5. UpdatesInTurn'
    BY <2>1, <2>3, FreeJob DEF QuotasInv, UpdatesInTurn, Updating
  <2>6. Q!CallsWithinLimit'
    BY <2>1 DEF QuotasInv, Q!CallsWithinLimit
  <2>7. PendingFit'
    <3>1. CASE raced'
      BY <3>1 DEF PendingFit
    <3>2. CASE ~raced'
      <4>1. ~raced /\ (\A t \in Tests : test[t] # "submitted") /\ job[s].limit = quota["maxConcurrentTests"]
        BY <3>2, <2>2
      \* Every pending test has its row: the count missed none.
      <4>2. Pending \subseteq Q!Active /\ Q!Active \subseteq Tests
        BY <4>1 DEF Pending, Q!Active
      <4>3. IsFiniteSet(Pending) /\ Cardinality(Pending) \in Nat
        BY PendingIsFinite DEF Pending
      <4>4. /\ Q!Cardinality(Q!Active) = Cardinality(Q!Active) /\ Cardinality(Q!Active) \in Nat
            /\ Cardinality(Pending) <= Cardinality(Q!Active)
        BY <4>2, SameSizes, FewerPending, PendingIsFinite
      <4>5. CASE test' = test
        BY <4>1, <4>5, <2>1 DEF QuotasInv, PendingFit, Pending
      <4>6. CASE ~Q!AtLimit(Cardinality(Q!Active), job[s].limit)
        <5>1. Pending' \subseteq Pending \cup {job[s].t}
          BY <4>6, <1>10, <1>a, <2>1 DEF Q!CountTests, Pending
        <5>2. Cardinality(Pending \cup {job[s].t}) <= Cardinality(Pending) + 1
          <6> DEFINE n == Cardinality(Pending)
          <6>1. Cardinality(Pending \cup {job[s].t}) \in {n, n + 1} /\ n \in Nat
            BY <4>3, FS_AddElement
          <6> HIDE DEF n
          <6>2. Cardinality(Pending \cup {job[s].t}) <= n + 1
            BY <6>1
          <6> QED BY <6>2 DEF n
        <5>3. Cardinality(Pending) < quota["maxConcurrentTests"]
          BY <4>1, <4>3, <4>4, <4>6, <1>g DEF Q!AtLimit
        <5>4. Cardinality(Pending \cup {job[s].t}) \in Nat
          BY <4>3, FS_AddElement, FS_CardinalityType
        <5>5. Cardinality(Pending \cup {job[s].t}) <= quota["maxConcurrentTests"]
          BY <5>2, <5>3, <5>4, <4>3, <1>g
        <5>6. /\ Cardinality(Pending') <= Cardinality(Pending \cup {job[s].t})
              /\ Cardinality(Pending') \in Nat
          <6>1. Pending \cup {job[s].t} \subseteq Tests
            BY <2>1 DEF Pending
          <6> QED BY <5>1, <6>1, FewerPending, PendingIsFinite
        <5>7. Cardinality(Pending') <= quota["maxConcurrentTests"]
          BY <5>4, <5>5, <5>6, <1>g
        <5> QED BY <5>7, <2>1 DEF PendingFit
      <4> QED BY <4>4, <4>5, <4>6, <1>10 DEF Q!CountTests
    <3> QED BY <3>1, <3>2
  <2> QED BY <2>4, <2>5, <2>6, <2>7 DEF QuotasInv
<1>11. ASSUME NEW s \in Slots, Q!Fail(s) PROVE QuotasInv'
  BY <1>11, <1>f, FreeJob DEF Q!Fail, Q!Answer
<1>12. ASSUME NEW t \in Tests,
              Q!PendingArrives(t) \/ Q!PendingLost(t) \/ Q!EndTest(t) \/ Q!RunningArrives(t)
       PROVE  QuotasInv'
  <2>1. UNCHANGED <<quota, usage, job, asked, lapped, allowed, raced>>
    BY <1>12 DEF Q!PendingArrives, Q!PendingLost, Q!EndTest, Q!RunningArrives
  <2>2. Pending' \subseteq Pending /\ Pending \subseteq Tests /\ Pending' \subseteq Tests
    BY <1>12, <1>a DEF Q!PendingArrives, Q!PendingLost, Q!EndTest, Q!RunningArrives, Pending
  <2>3. PendingFit'
    <3>1. CASE raced
      BY <3>1, <2>1 DEF PendingFit
    <3>2. CASE ~raced
      <4>1. Cardinality(Pending) <= quota["maxConcurrentTests"]
        BY <3>2 DEF QuotasInv, PendingFit
      <4>2. Cardinality(Pending') <= Cardinality(Pending)
        BY <2>2, FewerPending
      <4>3. Cardinality(Pending) \in Nat /\ Cardinality(Pending') \in Nat
        BY <2>2, PendingIsFinite
      <4>4. Cardinality(Pending') <= quota["maxConcurrentTests"]
        BY <4>1, <4>2, <4>3, <1>g
      <4> QED BY <4>4, <2>1 DEF PendingFit
    <3> QED BY <3>1, <3>2
  <2> QED BY <2>1, <2>3 DEF QuotasInv, HeldAreAllowed, LimitsHeld, Q!CallsWithinLimit, UpdatesInTurn, Updating
<1>13. ASSUME Q!Midnight PROVE QuotasInv'
  <2>1. usage' = 0 /\ UNCHANGED <<quota, test, job, asked, lapped, raced, revived>>
    BY <1>13 DEF Q!Midnight
  <2>2. \A n \in LimitsHeld : n <= allowed'
    BY <1>13, MidnightsLimit DEF QuotasInv
  <2>3. HeldAreAllowed'
    BY <2>1, <2>2 DEF HeldAreAllowed, LimitsHeld
  <2>4. Q!CallsWithinLimit'
    BY <2>1, <1>b, <1>c DEF Q!CallsWithinLimit
  <2>5. PendingFit' /\ UpdatesInTurn'
    BY <2>1 DEF QuotasInv, PendingFit, Pending, UpdatesInTurn, Updating
  <2> QED BY <2>3, <2>4, <2>5 DEF QuotasInv
<1> QED BY <1>1, <1>2, <1>3, <1>4, <1>5, <1>6, <1>7, <1>8, <1>9, <1>10, <1>11, <1>12, <1>13
        DEF Q!QuotasNext

-----------------------------------------------------------------------------
\* The three components side by side.
AccountsInv ==
    /\ MembershipType /\ MembershipInv
    /\ SessionsType /\ SessionsInv
    /\ Q!QuotasTypeOK /\ QuotasInv

LEMMA InitAccounts == Init => AccountsInv
<1> SUFFICES ASSUME Init PROVE AccountsInv
  OBVIOUS
<1>1. MembershipType
  BY DEF Init, M!MembershipInit, MembershipType, M!MembershipTypeOK, RolesOfKind, M!Free, M!Requests, M!Steps
<1>2. MembershipInv
  <2>1. M!Members = {}
    BY DEF Init, M!MembershipInit, M!Members
  <2>2. \A s \in Slots : req[s].pc = "idle" /\ req[s].op = "none" /\ req[s].left = {} /\ locked[s] = {}
    BY DEF Init, M!MembershipInit, M!Free
  <2>3. ~created /\ ~key
    BY DEF Init, M!MembershipInit
  <2> QED BY <2>1, <2>2, <2>3 DEF MembershipInv, Founded, LocksHeld, Asks, InHand, Guarded, Peopled, InTurn
<1>3. SessionsType
  <2>1. 0 \in S!Ages
    BY Assumptions DEF S!Ages, S!SessionsAssumption
  <2> QED BY <2>1, FreeCall, RowsOfTheDead
          DEF Init, S!SessionsInit, SessionsType, S!SessionsTypeOK, UsesHaveToken
<1>4. SessionsInv
  <2>1. TouchInterval \in Nat /\ NoToken \notin Tokens
    BY Assumptions DEF S!SessionsAssumption
  <2> QED BY <2>1, FreeCall DEF Init, S!SessionsInit, S!Dead, SessionsInv, S!RefusedForGood, S!UseIsRemembered
<1>5. Q!QuotasTypeOK
  BY FreeJob, LimitsArePositive DEF Init, Q!QuotasInit, Q!QuotasTypeOK, Q!Quotas, Q!At, Q!States
<1>6. QuotasInv
  <2>1. \A s \in Slots : job[s].pc = "free"
    BY FreeJob DEF Init, Q!QuotasInit
  <2>2. /\ quota["maxGeminiCallsPerDay"] = Default /\ quota["maxConcurrentTests"] = Default
        /\ allowed = Default /\ usage = 0 /\ quota = asked
    BY DEF Init, Q!QuotasInit, Q!Fields
  <2>3. Default \in Nat
    BY LimitsArePositive
  <2>4. HeldAreAllowed /\ Q!CallsWithinLimit
    BY <2>1, <2>2, <2>3 DEF HeldAreAllowed, LimitsHeld, Q!CallsWithinLimit
  <2>5. Pending = {}
    BY DEF Init, Q!QuotasInit, Pending
  <2>6. PendingFit
    BY <2>2, <2>3, <2>5, FS_EmptySet DEF PendingFit
  <2>7. UpdatesInTurn
    BY <2>1, <2>2 DEF UpdatesInTurn, Updating
  <2> QED BY <2>4, <2>6, <2>7 DEF QuotasInv
<1> QED BY <1>1, <1>2, <1>3, <1>4, <1>5, <1>6 DEF AccountsInv

\* A step of one component is one of its own next-state relation, and leaves the
\* others' variables as they are.
LEMMA MembershipFrame == Membership => M!MembershipNext /\ UNCHANGED <<svars, qvars>>
BY DEF Membership, Mem, M!MembershipNext

LEMMA SessionsFrame == Sessions => S!SessionsNext /\ UNCHANGED <<mvars, qvars>>
BY DEF Sessions, Ses, S!SessionsNext, S!Step

LEMMA QuotasFrame == Quotas => Q!QuotasNext /\ UNCHANGED <<mvars, svars>>
BY DEF Quotas, Quo, Q!QuotasNext

LEMMA MembershipStays ==
    ASSUME MembershipType, MembershipInv, UNCHANGED mvars
    PROVE  MembershipType' /\ MembershipInv'
BY DEF mvars, MembershipType, M!MembershipTypeOK, RolesOfKind, MembershipInv, Founded, LocksHeld, Asks, Guarded,
       Peopled, InTurn, WriteIsSafe, M!Members, M!Others, M!Top

LEMMA SessionsStay ==
    ASSUME SessionsType, SessionsInv, UNCHANGED svars
    PROVE  SessionsType' /\ SessionsInv'
BY DEF svars, SessionsType, S!SessionsTypeOK, UsesHaveToken, SessionsInv, S!Found, S!RefusedForGood,
       S!UseIsRemembered

LEMMA QuotasStay ==
    ASSUME Q!QuotasTypeOK, QuotasInv, UNCHANGED qvars
    PROVE  Q!QuotasTypeOK' /\ QuotasInv'
BY DEF qvars, Q!QuotasTypeOK, Q!At, QuotasInv, HeldAreAllowed, LimitsHeld, Q!CallsWithinLimit, PendingFit,
       Pending, UpdatesInTurn, Updating

LEMMA StepAccounts == AccountsInv /\ [Next]_allvars => AccountsInv'
<1> SUFFICES ASSUME AccountsInv, [Next]_allvars PROVE AccountsInv'
  OBVIOUS
<1> USE DEF AccountsInv
<1>1. CASE Membership
  <2>1. MembershipType' /\ MembershipInv'
    BY <1>1, MembershipFrame, MembershipTypeStep, MembershipInvStep
  <2> QED BY <1>1, <2>1, MembershipFrame, SessionsStay, QuotasStay
<1>2. CASE Sessions
  <2>1. SessionsType' /\ SessionsInv'
    BY <1>2, SessionsFrame, SessionsTypeStep, SessionsInvStep
  <2> QED BY <1>2, <2>1, SessionsFrame, MembershipStays, QuotasStay
<1>3. CASE Quotas
  <2>1. Q!QuotasTypeOK' /\ QuotasInv'
    BY <1>3, QuotasFrame, QuotasTypeStep, QuotasInvStep DEF QuotasInv
  <2> QED BY <1>3, <2>1, QuotasFrame, MembershipStays, SessionsStay
<1>4. CASE UNCHANGED allvars
  <2>1. UNCHANGED mvars /\ UNCHANGED svars /\ UNCHANGED qvars
    BY <1>4 DEF allvars
  <2> QED BY <2>1, MembershipStays, SessionsStay, QuotasStay
<1> QED BY <1>1, <1>2, <1>3, <1>4 DEF Next

LEMMA AccountsInvariant == Spec => []AccountsInv
BY InitAccounts, StepAccounts, PTL DEF Spec

\* Every variable of the three components keeps its type; a role is always one of
\* the group's own kind.
THEOREM TypeCorrect == Spec => []TypeOK
<1>1. AccountsInv => TypeOK
  BY DEF AccountsInv, MembershipType, SessionsType, TypeOK
<1> QED BY <1>1, AccountsInvariant, PTL

\* A team with members keeps an admin and an organisation an owner, however many
\* administrators demote and remove each other at the same time, and although a
\* request may do its work after its caller has lost the role, unless somebody was
\* added while one of them waited for the rows it locks (teams.ts).
THEOREM TopCorrect == Spec => []TopRemains
<1>1. AccountsInv => TopRemains
  BY DEF AccountsInv, MembershipInv, Guarded, TopRemains, M!TopRemains
<1> QED BY <1>1, AccountsInvariant, PTL

\* Whichever way a PUT or DELETE of a member ends, no row stays locked (teams.ts).
THEOREM LocksCorrect == Spec => []LocksReleased
<1>1. AccountsInv => LocksReleased
  BY DEF AccountsInv, MembershipInv, LocksHeld, InHand, LocksReleased, M!LocksReleased
<1> QED BY <1>1, AccountsInvariant, PTL

\* Once a client knows a token to be over it is never let in again, whatever an
\* older request with it is still about to write (session.ts).
THEOREM RefusedCorrect == Spec => []RefusedForGood
<1>1. AccountsInv => RefusedForGood
  BY DEF AccountsInv, SessionsInv, RefusedForGood
<1> QED BY <1>1, AccountsInvariant, PTL

\* The throttled last_seen_at is behind the last use of a session by the touch
\* interval at most, for every idle timeout and interval (session.ts).
THEOREM UseCorrect == Spec => []UseIsRemembered
<1>1. AccountsInv => UseIsRemembered
  BY DEF AccountsInv, SessionsInv, UseIsRemembered
<1> QED BY <1>1, AccountsInvariant, PTL

\* The AI calls of a day stay within the greatest limit of that day, and only
\* overlapping requests, a lowered limit or a row set running again take a team
\* past its test limit (quotas.ts of both services, results.ts).
THEOREM LimitsCorrect == Spec => []WithinLimits
<1>1. ASSUME AccountsInv PROVE WithinLimits
  <2>1. raced \/ Q!Cardinality(Q!Active \ revived) <= quota["maxConcurrentTests"]
    <3>1. CASE raced
      BY <3>1
    <3>2. CASE ~raced
      <4>1. Cardinality(Pending) <= quota["maxConcurrentTests"]
        BY <1>1, <3>2 DEF AccountsInv, QuotasInv, PendingFit
      <4>2. Q!Active \ revived \subseteq Pending /\ Pending \subseteq Tests
        BY DEF Q!Active, Pending
      <4>3. Cardinality(Q!Active \ revived) <= Cardinality(Pending)
        BY <4>2, FewerPending
      <4>4. Cardinality(Q!Active \ revived) \in Nat /\ Cardinality(Pending) \in Nat
        BY <4>2, PendingIsFinite
      <4>5. quota["maxConcurrentTests"] \in Nat
        BY <1>1, LimitsArePositive DEF AccountsInv, Q!QuotasTypeOK, Q!Quotas, Q!Fields
      <4>6. Cardinality(Q!Active \ revived) <= quota["maxConcurrentTests"]
        BY <4>1, <4>3, <4>4, <4>5
      <4> QED BY <4>6, SameSizes
    <3> QED BY <3>1, <3>2
  <2> QED BY <1>1, <2>1 DEF AccountsInv, QuotasInv, WithinLimits, Q!TestsWithinLimit
<1> QED BY <1>1, AccountsInvariant, PTL

\* Without overlapping updates each limit is what the last request set it to
\* (quotas.ts).
THEOREM AskedCorrect == Spec => []LimitsAsAsked
<1>1. AccountsInv => LimitsAsAsked
  BY DEF AccountsInv, QuotasInv, UpdatesInTurn, LimitsAsAsked, Q!LimitsAsAsked
<1> QED BY <1>1, AccountsInvariant, PTL
==============================================================================
