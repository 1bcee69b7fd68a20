------------------------ MODULE ClientWorker_proofs -------------------------
(***************************************************************************)
(* Theorems about ClientWorker, for every set of tests, replicas, slots    *)
(* and browsers, every prefetch and retry limit, any number of faults.     *)
(***************************************************************************)
EXTENDS ClientWorker, FiniteSetTheorems, SequenceTheorems, WellFoundedInduction, TLAPS

\* A set of numbers below a bound has a greatest one: what acquire() pops.
LEMMA NewestIsGreatest ==
    ASSUME NEW n \in Nat, NEW S \in SUBSET (1..n), S # {}
    PROVE  Newest(S) \in S /\ \A j \in S : j <= Newest(S)
<1> DEFINE T == {n - i : i \in S}
<1>1. T \subseteq Nat /\ T # {}
  <2>1. \A i \in S : i \in Nat /\ i <= n /\ n - i \in Nat
    OBVIOUS
  <2> QED
    BY <2>1
<1>2. PICK x \in T : \A y \in T : ~(<<y, x>> \in OpToRel(<, Nat))
  BY <1>1, NatLessThanWellFounded, WFMin
<1>3. \A y \in T : ~(y < x)
  BY <1>1, <1>2 DEF OpToRel
<1>4. PICK i \in S : x = n - i
  OBVIOUS
<1>5. \A j \in S : j <= i
  <2> SUFFICES ASSUME NEW j \in S PROVE j <= i
    OBVIOUS
  <2>1. ~(n - j < n - i)
    BY <1>3, <1>4
  <2> QED
    BY <2>1
<1> QED
  BY <1>5 DEF Newest

\* What acquire() finds: nothing that is connected, or the newest that is.
LEMMA ReusableIsNewest ==
    ASSUME TypeOK, NEW r \in Replicas
    PROVE  \/ /\ Reusable(r) = 0
              /\ \A i \in DOMAIN idle[r] : <<r, idle[r][i]>> \notin alive
           \/ /\ Reusable(r) \in DOMAIN idle[r] /\ Reusable(r) # 0
              /\ Reusable(r) \in 1..Len(idle[r])
              /\ <<r, idle[r][Reusable(r)]>> \in alive
              /\ \A i \in DOMAIN idle[r] : i > Reusable(r) => <<r, idle[r][i]>> \notin alive
<1> DEFINE C == Connected(r, idle[r])
<1>1. idle[r] \in Seq(Browsers) /\ Len(idle[r]) \in Nat /\ DOMAIN idle[r] = 1..Len(idle[r])
  BY DEF TypeOK
<1>2. C \in SUBSET (1..Len(idle[r]))
  BY <1>1 DEF Connected
<1>3. CASE C = {}
  BY <1>1, <1>3 DEF Reusable, Connected
<1>4. CASE C # {}
  <2>1. Newest(C) \in C /\ \A j \in C : j <= Newest(C)
    BY <1>1, <1>2, <1>4, NewestIsGreatest
  <2>2. Reusable(r) = Newest(C)
    BY <1>4 DEF Reusable
  <2>3. \A i \in DOMAIN idle[r] : <<r, idle[r][i]>> \in alive => i \in C
    BY DEF Connected
  <2>4. <<r, idle[r][Newest(C)]>> \in alive
    BY <2>1 DEF Connected
  <2> HIDE DEF C
  <2>5. Newest(C) \in 1..Len(idle[r])
    BY <1>2, <2>1
  <2>6. ASSUME NEW i \in DOMAIN idle[r], i > Newest(C)
        PROVE  <<r, idle[r][i]>> \notin alive
    <3>1. ~(i <= Newest(C))
      BY <1>1, <2>5, <2>6
    <3> QED
      BY <2>1, <2>3, <3>1
  <2>7. /\ Reusable(r) \in DOMAIN idle[r] /\ Reusable(r) # 0 /\ Reusable(r) \in 1..Len(idle[r])
        /\ <<r, idle[r][Reusable(r)]>> \in alive
    BY <1>1, <2>2, <2>4, <2>5
  <2> QED
    BY <2>2, <2>6, <2>7
<1> QED
  BY <1>3, <1>4

-----------------------------------------------------------------------------
(* How an invocation moves *)

\* h goes to step p with browser b and keeps its delivery; no other one moves.
Moves(h, p, b) ==
    /\ handler' \in [Handlers -> HandlerState]
    /\ \A g \in Handlers \ {h} : handler'[g] = handler[g]
    /\ handler'[h].pc = p /\ handler'[h].b = b
    /\ handler'[h].t = Test(h) /\ handler'[h].k = handler[h].k
    /\ handler'[h].live = handler[h].live

HandlersTyped ==
    /\ handler \in [Handlers -> HandlerState]
    /\ \A h \in Handlers : /\ handler[h].pc # "idle" => handler[h].t \in Tests
                           /\ handler[h].pc \in HeldSteps => handler[h].b \in Browsers

\* Where a throw leads: retries are published on a channel that is there.
Thrown(h) == IF handler[h].live THEN "retrying" ELSE "rejected"

LEMMA MovesType ==
    ASSUME HandlersTyped, NEW h \in Handlers, NEW p, NEW b,
           Moves(h, p, b), handler[h].pc # "idle",
           p \in HeldSteps => b \in Browsers
    PROVE  HandlersTyped'
BY DEF HandlersTyped, Moves, Test

LEMMA GotoMoves ==
    ASSUME HandlersTyped, NEW h \in Handlers, NEW p \in Steps, Goto(h, p)
    PROVE  \E b : b = handler[h].b /\ Moves(h, p, b)
<1>1. handler' = [handler EXCEPT ![h] = [handler[h] EXCEPT !.pc = p]]
  BY DEF Goto, HandlersTyped
<1>2. [handler[h] EXCEPT !.pc = p] \in HandlerState
  BY DEF HandlersTyped, HandlerState
<1> QED
  BY <1>1, <1>2 DEF Moves, HandlersTyped, HandlerState, Test

\* The invocation gives up its browser.
LEMMA LeavesBrowser ==
    ASSUME HandlersTyped, NEW h \in Handlers, NEW p \in Steps,
           handler' = [handler EXCEPT ![h].pc = p, ![h].b = NoBrowser]
    PROVE  Moves(h, p, NoBrowser)
<1> DEFINE s == [handler[h] EXCEPT !.pc = p, !.b = NoBrowser]
<1>1. handler' = [handler EXCEPT ![h] = s]
  BY DEF HandlersTyped
<1>2. /\ s \in HandlerState
      /\ s.pc = p /\ s.b = NoBrowser /\ s.t = handler[h].t /\ s.k = handler[h].k
      /\ s.live = handler[h].live
  BY DEF HandlersTyped, HandlerState
<1> HIDE DEF s
<1> QED
  BY <1>1, <1>2 DEF Moves, HandlersTyped, Test

LEMMA ThrowMoves ==
    ASSUME HandlersTyped, NEW h \in Handlers, Throw(h)
    PROVE  \E p \in {"retrying", "rejected"} : p = Thrown(h) /\ Moves(h, p, NoBrowser)
<1>1. PICK p \in {"retrying", "rejected"} : p = Thrown(h)
  BY DEF Thrown
<1>2. handler' = [handler EXCEPT ![h].pc = p, ![h].b = NoBrowser]
  BY <1>1 DEF Throw, Thrown
<1> QED
  BY <1>1, <1>2, LeavesBrowser DEF Steps, SentSteps

\* The end of a run: its browser is given up; it is acknowledged unpublished
\* only where the test's flag was up.
LEMMA ResolveMoves ==
    ASSUME HandlersTyped, NEW h \in Handlers, NEW ok \in BOOLEAN, Resolve(h, ok)
    PROVE  \E p \in {"acking", "confirming", "retrying", "rejected"} :
              /\ Moves(h, p, NoBrowser)
              /\ p = "acking" => Test(h) \in flags[h[1]]
              /\ p # "acking" => UNCHANGED flags \/ ~handler[h].live
              /\ p # "rejected" <=> handler[h].live
              /\ \/ UNCHANGED flags
                 \/ flags' = [flags EXCEPT ![h[1]] = @ \ {Test(h)}]
<1>1. CASE ok /\ handler[h].live
  <2>1. PICK p \in {"acking", "confirming"} :
           /\ handler' = [handler EXCEPT ![h].pc = p, ![h].b = NoBrowser]
           /\ p = "acking" <=> Test(h) \in flags[h[1]]
    BY <1>1 DEF Resolve
  <2>2. Moves(h, p, NoBrowser)
    BY <2>1, LeavesBrowser DEF Steps, SentSteps
  <2> QED
    BY <1>1, <2>1, <2>2 DEF Resolve
<1>2. CASE ~(ok /\ handler[h].live)
  <2>1. PICK p \in {"retrying", "rejected"} : p = Thrown(h) /\ Moves(h, p, NoBrowser)
    BY <1>2, ThrowMoves DEF Resolve
  <2> QED
    BY <1>2, <2>1 DEF Resolve, Thrown
<1> QED
  BY <1>1, <1>2

LEMMA EndMoves ==
    ASSUME HandlersTyped, NEW h \in Handlers, NEW ok \in BOOLEAN, End(h, ok)
    PROVE  \/ /\ Browser(h) \in alive /\ UNCHANGED flags
              /\ \E b : b = handler[h].b /\ Moves(h, "releasing", b)
           \/ Browser(h) \notin alive /\ Resolve(h, ok)
<1>1. CASE Browser(h) \in alive
  <2> DEFINE s == [handler[h] EXCEPT !.pc = "releasing", !.ok = ok]
  <2>1. handler' = [handler EXCEPT ![h] = s]
    BY <1>1 DEF End, HandlersTyped
  <2>2. /\ s \in HandlerState
        /\ s.pc = "releasing" /\ s.b = handler[h].b /\ s.t = handler[h].t
        /\ s.k = handler[h].k /\ s.live = handler[h].live
    BY DEF HandlersTyped, HandlerState, Steps, HeldSteps
  <2> HIDE DEF s
  <2> QED
    BY <1>1, <2>1, <2>2 DEF End, Moves, HandlersTyped, Test
<1>2. CASE Browser(h) \notin alive
  BY <1>2 DEF End
<1> QED
  BY <1>1, <1>2

\* A new invocation, in a slot that was free.
LEMMA IdleTypes ==
    /\ IdleHandler \in HandlerState /\ IdleHandler.pc = "idle"
    /\ IdleHandler.b = NoBrowser /\ ~IdleHandler.live
BY ConstantsAssumption DEF IdleHandler, HandlerState

LEMMA CheckOutMoves ==
    ASSUME HandlersTyped, NEW h \in Handlers, NEW b \in Browsers, NEW run \in HandlerState,
           run.t \in Tests, CheckOut(h, b, run)
    PROVE  /\ HandlersTyped'
           /\ \A g \in Handlers \ {h} : handler'[g] = handler[g]
           /\ handler'[h].pc = "preparing" /\ handler'[h].b = b
           /\ handler'[h].t = run.t /\ handler'[h].k = run.k /\ handler'[h].live = run.live
<1> DEFINE s == [run EXCEPT !.pc = "preparing", !.b = b]
<1>1. handler' = [handler EXCEPT ![h] = s]
  BY DEF CheckOut
<1>2. /\ s \in HandlerState
      /\ s.pc = "preparing" /\ s.b = b /\ s.t = run.t /\ s.k = run.k /\ s.live = run.live
  BY DEF HandlerState, Steps, HeldSteps
<1> HIDE DEF s
<1> QED
  BY <1>1, <1>2 DEF HandlersTyped

\* The slot a delivery takes and the invocation it starts.
Slot(r) == CHOOSE g \in {h \in Of(r) : At(h, "idle")} : TRUE
NewRun(t, k) == [IdleHandler EXCEPT !.t = t, !.k = k, !.live = TRUE]

LEMMA SlotIsFree ==
    ASSUME NEW r \in Replicas, {h \in Of(r) : At(h, "idle")} # {}
    PROVE  Slot(r) \in Handlers /\ Slot(r) \in Of(r) /\ Slot(r)[1] = r /\ At(Slot(r), "idle")
BY DEF Slot, Of

LEMMA NewRunType ==
    ASSUME NEW t \in Tests, NEW k \in 0..MaxRetries
    PROVE  /\ NewRun(t, k) \in HandlerState
           /\ NewRun(t, k).t = t /\ NewRun(t, k).k = k /\ NewRun(t, k).live
           /\ NewRun(t, k).b = NoBrowser
BY ConstantsAssumption DEF NewRun, IdleHandler, HandlerState

\* h is free and starts the k-th run of t.
Starts(r, t, k, h) ==
    /\ h = Slot(r) /\ h[1] = r /\ At(h, "idle") /\ HandlersTyped'
    /\ \A g \in Handlers \ {h} : handler'[g] = handler[g]
    /\ handler'[h].t = t /\ handler'[h].k = k /\ handler'[h].live

\* The pool has no connected browser for it.
FindsNone(r, h) ==
    /\ handler'[h].pc = "launching" /\ handler'[h].b = NoBrowser
    /\ idle' = [idle EXCEPT ![r] = <<>>] /\ UNCHANGED <<running, timers>>
    /\ \A i \in DOMAIN idle[r] : <<r, idle[r][i]>> \notin alive

\* Its browser is the i-th of the idle list; what lay on top of it was dead.
Finds(r, t, h, i) ==
    /\ handler'[h].pc = "preparing" /\ handler'[h].b = idle[r][i]
    /\ idle[r][i] \in Browsers /\ <<r, idle[r][i]>> \in alive
    /\ idle' = [idle EXCEPT ![r] = SubSeq(@, 1, i - 1)]
    /\ running' = [running EXCEPT ![r][t] = idle[r][i]]
    /\ timers' = timers \cup {<<r, idle[r][i]>>}
    /\ \A j \in DOMAIN idle[r] : j > i => <<r, idle[r][j]>> \notin alive

\* A delivery finds no connected browser, or takes the newest one and drops
\* what lay on top of it.
LEMMA DeliverMoves ==
    ASSUME TypeOK, NEW r \in Replicas, NEW t \in Tests, NEW k \in 0..MaxRetries,
           Deliver(r, t, k)
    PROVE  \E h \in Handlers :
              /\ Starts(r, t, k, h)
              /\ FindsNone(r, h) \/ \E i \in 1..Len(idle[r]) : Finds(r, t, h, i)
<1>0. HandlersTyped
  BY DEF TypeOK, HandlersTyped
<1>1. PICK h \in Handlers : h = Slot(r) /\ h[1] = r /\ At(h, "idle")
  BY SlotIsFree DEF Deliver
<1>2. \/ /\ Reusable(r) = 0
         /\ handler' = [handler EXCEPT ![h] = [NewRun(t, k) EXCEPT !.pc = "launching"]]
         /\ idle' = [idle EXCEPT ![r] = <<>>] /\ UNCHANGED <<running, timers>>
      \/ /\ Reusable(r) # 0
         /\ CheckOut(h, idle[r][Reusable(r)], NewRun(t, k))
         /\ idle' = [idle EXCEPT ![r] = SubSeq(@, 1, Reusable(r) - 1)]
  BY <1>1 DEF Deliver, Slot, NewRun
<1>3. CASE Reusable(r) = 0
  <2> DEFINE s == [NewRun(t, k) EXCEPT !.pc = "launching"]
  <2>1. s \in HandlerState /\ s.pc = "launching" /\ s.t = t /\ s.k = k /\ s.live /\ s.b = NoBrowser
    BY NewRunType DEF HandlerState, Steps
  <2>2. handler' = [handler EXCEPT ![h] = s]
    BY <1>2, <1>3
  <2> HIDE DEF s
  <2>3. \A i \in DOMAIN idle[r] : <<r, idle[r][i]>> \notin alive
    BY <1>3, ReusableIsNewest
  <2>4. HandlersTyped' /\ \A g \in Handlers \ {h} : handler'[g] = handler[g]
    BY <1>0, <2>1, <2>2 DEF HandlersTyped, HeldSteps
  <2>5. handler'[h] = s
    BY <1>0, <2>2 DEF HandlersTyped
  <2> QED
    BY <1>1, <1>2, <1>3, <2>1, <2>3, <2>4, <2>5 DEF Starts, FindsNone
<1>4. CASE Reusable(r) # 0
  <2>1. PICK i \in 1..Len(idle[r]) :
           /\ i = Reusable(r) /\ <<r, idle[r][i]>> \in alive /\ idle[r][i] \in Browsers
           /\ \A j \in DOMAIN idle[r] : j > i => <<r, idle[r][j]>> \notin alive
    BY <1>4, ReusableIsNewest DEF TypeOK
  <2>2. PICK b \in Browsers : b = idle[r][i]
    BY <2>1
  <2>3. PICK run \in HandlerState : run = NewRun(t, k) /\ run.t = t /\ run.k = k /\ run.live
    BY NewRunType
  <2>4. CheckOut(h, b, run)
    BY <1>2, <1>4, <2>1, <2>2, <2>3 DEF CheckOut
  <2>5. /\ HandlersTyped' /\ \A g \in Handlers \ {h} : handler'[g] = handler[g]
        /\ handler'[h].pc = "preparing" /\ handler'[h].b = b
        /\ handler'[h].t = t /\ handler'[h].k = k /\ handler'[h].live
    BY <1>0, <2>3, <2>4, CheckOutMoves
  <2>6. /\ idle' = [idle EXCEPT ![r] = SubSeq(@, 1, i - 1)]
        /\ running' = [running EXCEPT ![r][t] = b]
        /\ timers' = timers \cup {<<r, b>>}
    BY <1>1, <1>2, <1>4, <2>1, <2>3, <2>4 DEF CheckOut
  <2>7. Finds(r, t, h, i)
    BY <2>1, <2>2, <2>5, <2>6 DEF Finds
  <2> QED
    BY <1>1, <2>5, <2>7 DEF Starts
<1> QED
  BY <1>3, <1>4

-----------------------------------------------------------------------------
(* Types *)

LEMMA TypeHasHandlers == TypeOK => HandlersTyped
BY DEF TypeOK, HandlersTyped

LEMMA HandlerInUse ==
    ASSUME TypeOK, NEW h \in Handlers
    PROVE  /\ h[1] \in Replicas /\ h[2] \in Slots
           /\ handler[h].k \in 0..MaxRetries /\ handler[h].ok \in BOOLEAN
           /\ handler[h].pc # "idle" => handler[h].t \in Tests
           /\ handler[h].pc \in HeldSteps => handler[h].b \in Browsers
BY DEF TypeOK, HandlerState, Handlers

LEMMA HandlerCount ==
    ASSUME NEW S \in SUBSET Handlers
    PROVE  IsFiniteSet(S) /\ Cardinality(S) \in Nat
<1>1. IsFiniteSet(Handlers)
  BY FS_Product, ConstantsAssumption DEF Handlers
<1> QED
  BY <1>1, FS_Subset, FS_CardinalityType

LEMMA RetryTypes ==
    ASSUME TypeOK, NEW S \in SUBSET Handlers
    PROVE  Requeued(S) \in [Messages -> Nat] /\ Buried(S) \in [Tests -> Nat]
<1>1. ASSUME NEW m \in Messages
      PROVE  queue[m] + Cardinality({h \in S : m = <<Test(h), handler[h].k + 1>>}) \in Nat
  <2> DEFINE H == {h \in S : m = <<Test(h), handler[h].k + 1>>}
  <2>1. H \in SUBSET Handlers /\ queue[m] \in Nat
    BY DEF TypeOK
  <2> HIDE DEF H
  <2>2. Cardinality(H) \in Nat
    BY <2>1, HandlerCount
  <2>3. queue[m] + Cardinality(H) \in Nat
    BY <2>1, <2>2
  <2> QED
    BY <2>3 DEF H
<1>2. ASSUME NEW t \in Tests
      PROVE  dead[t] + Cardinality({h \in S : Test(h) = t /\ handler[h].k = MaxRetries}) \in Nat
  <2>1. {h \in S : Test(h) = t /\ handler[h].k = MaxRetries} \in SUBSET Handlers
    OBVIOUS
  <2> QED
    BY <2>1, HandlerCount DEF TypeOK
<1> QED
  BY <1>1, <1>2 DEF Requeued, Buried

LEMMA ChannelTypes ==
    ASSUME TypeOK, NEW r \in Replicas, NEW sent \in SUBSET Handlers,
           NEW kept \in SUBSET Handlers, ChannelEnds(r, sent, kept)
    PROVE  /\ queue' \in [Messages -> Nat] /\ dead' \in [Tests -> Nat]
           /\ results' \in [Tests -> Nat] /\ signals' \in [Replicas -> SUBSET Tests]
<1>1. ASSUME NEW m \in Messages
      PROVE  Requeued(sent)[m]
             + Cardinality({h \in Of(r) : Holds(h) /\ m = <<Test(h), handler[h].k>>}) \in Nat
  <2> DEFINE H == {h \in Of(r) : Holds(h) /\ m = <<Test(h), handler[h].k>>}
  <2>1. H \in SUBSET Handlers
    BY DEF Of
  <2> HIDE DEF H
  <2>2. Cardinality(H) \in Nat /\ Requeued(sent)[m] \in Nat
    BY <2>1, HandlerCount, RetryTypes
  <2>3. Requeued(sent)[m] + Cardinality(H) \in Nat
    BY <2>2
  <2> QED
    BY <2>3 DEF H
<1>2. ASSUME NEW t \in Tests
      PROVE  results[t] + Cardinality({h \in kept : Test(h) = t}) \in Nat
  <2> DEFINE H == {h \in kept : Test(h) = t}
  <2>1. H \in SUBSET Handlers /\ results[t] \in Nat
    BY DEF TypeOK
  <2> HIDE DEF H
  <2>2. Cardinality(H) \in Nat
    BY <2>1, HandlerCount
  <2>3. results[t] + Cardinality(H) \in Nat
    BY <2>1, <2>2
  <2> QED
    BY <2>3 DEF H
<1>3. signals' \in [Replicas -> SUBSET Tests]
  BY DEF ChannelEnds, TypeOK
<1> QED
  BY <1>1, <1>2, <1>3, RetryTypes DEF ChannelEnds

LEMMA TypeInit == Init => TypeOK
BY ConstantsAssumption
   DEF Init, TypeOK, HandlerState, IdleHandler, Steps, HeldSteps, SentSteps

LEMMA TypeOuter ==
    ASSUME TypeOK, NEW t \in Tests, Submit(t) \/ Cancel(t) \/ StoreResult(t)
    PROVE  TypeOK'
<1> USE DEF TypeOK, outerVars, brokerVars, linkVars, memoryVars, browserVars
<1>1. CASE Submit(t)
  <2>1. <<t, 0>> \in Messages
    BY ConstantsAssumption DEF Messages
  <2> QED
    BY <1>1, <2>1 DEF Submit
<1>2. CASE Cancel(t)
  <2>1. signals' \in [Replicas -> SUBSET Tests]
    BY <1>2 DEF Cancel
  <2> QED
    BY <1>2, <2>1 DEF Cancel
<1>3. CASE StoreResult(t)
  BY <1>3 DEF StoreResult
<1> QED
  BY <1>1, <1>2, <1>3

\* What acquire() leaves in the list.
LEMMA CutType ==
    ASSUME TypeOK, NEW r \in Replicas, NEW i \in 1..Len(idle[r])
    PROVE  /\ SubSeq(idle[r], 1, i - 1) \in Seq(Browsers)
           /\ Len(SubSeq(idle[r], 1, i - 1)) = i - 1
           /\ \A j \in 1..(i - 1) : SubSeq(idle[r], 1, i - 1)[j] = idle[r][j]
<1>1. idle[r] \in Seq(Browsers) /\ Len(idle[r]) \in Nat
  BY DEF TypeOK
<1>2. i - 1 \in Int /\ \A j \in 1..(i - 1) : idle[r][j] \in Browsers
  BY <1>1
<1>3. /\ SubSeq(idle[r], 1, i - 1) \in Seq(Browsers)
      /\ Len(SubSeq(idle[r], 1, i - 1)) = IF 1 <= i - 1 THEN (i - 1) - 1 + 1 ELSE 0
      /\ \A j \in 1..((i - 1) - 1 + 1) : SubSeq(idle[r], 1, i - 1)[j] = idle[r][1 + j - 1]
  <2> DEFINE n == i - 1
  <2>1. n \in Int /\ \A j \in 1..n : idle[r][j] \in Browsers
    BY <1>2
  <2> HIDE DEF n
  <2>2. /\ SubSeq(idle[r], 1, n) \in Seq(Browsers)
        /\ Len(SubSeq(idle[r], 1, n)) = IF 1 <= n THEN n - 1 + 1 ELSE 0
        /\ \A j \in 1..(n - 1 + 1) : SubSeq(idle[r], 1, n)[j] = idle[r][1 + j - 1]
    BY <2>1, SubSeqProperties
  <2> QED
    BY <2>2 DEF n
<1> QED
  BY <1>1, <1>3

LEMMA TypeDeliver ==
    ASSUME TypeOK, NEW r \in Replicas, NEW t \in Tests, NEW k \in 0..MaxRetries,
           Deliver(r, t, k)
    PROVE  TypeOK'
<1>1. PICK h \in Handlers :
         /\ Starts(r, t, k, h)
         /\ FindsNone(r, h) \/ \E i \in 1..Len(idle[r]) : Finds(r, t, h, i)
  BY DeliverMoves
<1>2. HandlersTyped' /\ queue' \in [Messages -> Nat]
  BY <1>1 DEF Starts, Deliver, Messages, TypeOK
<1>3. /\ idle' \in [Replicas -> Seq(Browsers)]
      /\ running' \in [Replicas -> [Tests -> Browsers \cup {NoBrowser}]]
      /\ timers' \subseteq Replicas \X Browsers
  <2>1. CASE FindsNone(r, h)
    BY <2>1 DEF FindsNone, TypeOK
  <2>2. ASSUME NEW i \in 1..Len(idle[r]), Finds(r, t, h, i)
        PROVE  /\ idle' \in [Replicas -> Seq(Browsers)]
               /\ running' \in [Replicas -> [Tests -> Browsers \cup {NoBrowser}]]
               /\ timers' \subseteq Replicas \X Browsers
    <3>1. SubSeq(idle[r], 1, i - 1) \in Seq(Browsers)
      BY CutType
    <3>2. running' \in [Replicas -> [Tests -> Browsers \cup {NoBrowser}]]
      BY <2>2 DEF Finds, TypeOK
    <3> QED
      BY <2>2, <3>1, <3>2 DEF Finds, TypeOK
  <2> QED
    BY <1>1, <2>1, <2>2
<1> QED
  BY <1>2, <1>3
     DEF Deliver, TypeOK, HandlersTyped, outerVars, linkVars

LEMMA TypeHandler ==
    ASSUME TypeOK, NEW h \in Handlers, HandlerStep(h)
    PROVE  TypeOK'
<1>0. HandlersTyped /\ h[1] \in Replicas
  BY TypeHasHandlers, HandlerInUse
<1>a. ASSUME NEW p, NEW b, Moves(h, p, b), handler[h].pc # "idle",
             p \in HeldSteps => b \in Browsers
      PROVE  HandlersTyped'
  BY <1>0, <1>a, MovesType
<1>b. ASSUME NEW ok \in BOOLEAN, Resolve(h, ok), handler[h].pc # "idle"
      PROVE  HandlersTyped' /\ flags' \in [Replicas -> SUBSET Tests]
  <2>1. PICK p \in {"acking", "confirming", "retrying", "rejected"} :
           /\ Moves(h, p, NoBrowser)
           /\ \/ UNCHANGED flags
              \/ flags' = [flags EXCEPT ![h[1]] = @ \ {Test(h)}]
    BY <1>0, <1>b, ResolveMoves
  <2>2. HandlersTyped'
    BY <1>a, <1>b, <2>1 DEF HeldSteps
  <2>3. flags \in [Replicas -> SUBSET Tests]
    BY DEF TypeOK
  <2>4. flags' \in [Replicas -> SUBSET Tests]
    BY <2>1, <2>3
  <2> QED
    BY <2>2, <2>4
<1>c. ASSUME Throw(h), handler[h].pc # "idle"
      PROVE  HandlersTyped'
  BY <1>0, <1>a, <1>c, ThrowMoves DEF HeldSteps
<1>d. ASSUME NEW p \in Steps, Goto(h, p), handler[h].pc # "idle",
             p \in HeldSteps => handler[h].b \in Browsers
      PROVE  HandlersTyped'
  BY <1>0, <1>a, <1>d, GotoMoves
<1> USE DEF outerVars, brokerVars, linkVars, memoryVars, browserVars
<1>1. CASE Launch(h)
  <2> DEFINE c == CHOOSE b \in Unused(h[1]) : TRUE
  <2>1. PICK b \in Browsers : b = c
    BY <1>1 DEF Launch, Unused
  <2>2. CheckOut(h, b, handler[h]) /\ alive' = alive \cup {<<h[1], b>>}
    BY <1>1, <2>1 DEF Launch, CheckOut
  <2>3. PICK run \in HandlerState : run = handler[h] /\ run.t \in Tests /\ CheckOut(h, b, run)
    BY <1>1, <2>2 DEF Launch, At, CheckOut, TypeOK
  <2>4. HandlersTyped'
    BY <1>0, <2>3, CheckOutMoves
  <2>5. running' \in [Replicas -> [Tests -> Browsers \cup {NoBrowser}]]
        /\ timers' \subseteq Replicas \X Browsers
    BY <1>0, <2>3 DEF CheckOut, TypeOK
  <2> QED
    BY <1>0, <1>1, <2>2, <2>4, <2>5 DEF Launch, TypeOK, HandlersTyped
<1>2. CASE LaunchFails(h)
  BY <1>2, <1>c DEF LaunchFails, At, TypeOK, HandlersTyped
<1>3. CASE Prepare(h)
  <2>1. HandlersTyped'
    <3>1. handler[h].pc = "preparing" /\ handler[h].b \in Browsers
      BY <1>3, HandlerInUse DEF Prepare, At, HeldSteps
    <3> QED
      BY <1>3, <1>c, <1>d, <3>1 DEF Prepare, Steps, HeldSteps
  <2> QED
    BY <1>3, <2>1 DEF Prepare, TypeOK, HandlersTyped
<1>4. CASE Sample(h)
  <2>1. HandlersTyped'
    <3>1. handler[h].pc = "sessions" /\ handler[h].b \in Browsers
      BY <1>4, HandlerInUse DEF Sample, At, HeldSteps
    <3> QED
      BY <1>4, <1>d, <3>1 DEF Sample, Steps, HeldSteps
  <2> QED
    BY <1>4, <2>1 DEF Sample, TypeOK, HandlersTyped
<1>5. ASSUME NEW ok \in BOOLEAN, End(h, ok), handler[h].pc \in {"sessions", "sampled"}
      PROVE  TypeOK'
  <2>1. handler[h].b \in Browsers /\ handler[h].t \in Tests
    BY <1>5, HandlerInUse DEF HeldSteps
  <2>2. HandlersTyped' /\ flags' \in [Replicas -> SUBSET Tests]
    <3>1. CASE UNCHANGED flags /\ \E b : b = handler[h].b /\ Moves(h, "releasing", b)
      BY <1>5, <1>a, <2>1, <3>1 DEF TypeOK
    <3>2. CASE Resolve(h, ok)
      BY <1>5, <1>b, <3>2
    <3> QED
      BY <1>0, <1>5, <3>1, <3>2, EndMoves
  <2>3. running' \in [Replicas -> [Tests -> Browsers \cup {NoBrowser}]]
    BY <1>0, <1>5, <2>1 DEF End, TypeOK, Test
  <2>4. timers' \subseteq Replicas \X Browsers
    BY <1>5 DEF End, TypeOK
  <2> QED
    BY <1>5, <2>2, <2>3, <2>4 DEF End, TypeOK, HandlersTyped
<1>6. CASE RunFails(h) \/ RunSucceeds(h)
  BY <1>5, <1>6 DEF RunFails, RunSucceeds, At
<1>7. CASE Release(h)
  <2>1. /\ handler[h].pc = "releasing" /\ handler[h].b \in Browsers
        /\ \E ok \in BOOLEAN : ok = handler[h].ok
    BY <1>7, HandlerInUse DEF Release, At, HeldSteps
  <2>2. CASE /\ Goto(h, "surplus") /\ UNCHANGED <<flags, idle>>
             /\ closing' = closing \cup ({Browser(h)} \cap alive)
    <3>1. HandlersTyped'
      BY <1>d, <2>1, <2>2 DEF Steps, HeldSteps
    <3> QED
      BY <1>7, <2>2, <3>1 DEF Release, TypeOK, HandlersTyped
  <2>3. CASE /\ idle' = [idle EXCEPT ![h[1]] = Append(@, handler[h].b)]
             /\ Resolve(h, handler[h].ok) /\ UNCHANGED closing
    <3>1. HandlersTyped' /\ flags' \in [Replicas -> SUBSET Tests]
      BY <1>b, <2>1, <2>3
    <3>2. idle' \in [Replicas -> Seq(Browsers)]
      BY <1>0, <2>1, <2>3, AppendProperties DEF TypeOK
    <3> QED
      BY <1>7, <2>3, <3>1, <3>2 DEF Release, TypeOK, HandlersTyped
  <2> QED
    BY <1>7, <2>2, <2>3 DEF Release
<1>8. CASE SurplusClosed(h)
  <2>1. HandlersTyped' /\ flags' \in [Replicas -> SUBSET Tests]
    <3>1. handler[h].pc = "surplus" /\ \E ok \in BOOLEAN : ok = handler[h].ok
      BY <1>8, HandlerInUse DEF SurplusClosed, At
    <3> QED
      BY <1>8, <1>b, <3>1 DEF SurplusClosed
  <2> QED
    BY <1>8, <2>1 DEF SurplusClosed, TypeOK, HandlersTyped
<1>9. CASE Confirm(h) \/ ConfirmFails(h)
  <2>1. handler[h].pc = "confirming" /\ Test(h) \in Tests
    BY <1>9, HandlerInUse DEF Confirm, ConfirmFails, At, Test
  <2>2. HandlersTyped'
    <3>1. CASE Confirm(h)
      BY <1>d, <2>1, <3>1 DEF Confirm, Steps, SentSteps, HeldSteps
    <3>2. CASE ConfirmFails(h)
      BY <1>c, <2>1, <3>2 DEF ConfirmFails
    <3> QED
      BY <1>9, <3>1, <3>2
  <2>3. results' \in [Tests -> Nat]
    <3>1. PICK t \in Tests : t = Test(h)
      BY <2>1
    <3>2. results' \in {results, [results EXCEPT ![t] = @ + 1]}
      BY <1>9, <3>1 DEF Confirm, ConfirmFails
    <3> QED
      BY <3>2 DEF TypeOK
  <2> QED
    BY <1>9, <2>2, <2>3 DEF Confirm, ConfirmFails, TypeOK, HandlersTyped
<1>10. CASE FramesRead(h)
  <2>1. queue' \in [Messages -> Nat] /\ dead' \in [Tests -> Nat]
    <3>1. {g \in {h} : At(g, "retrying")} \in SUBSET Handlers
      OBVIOUS
    <3> QED
      BY <1>10, <3>1, RetryTypes DEF FramesRead
  <2>2. HandlersTyped'
    BY <1>0, <1>10, IdleTypes DEF FramesRead, HandlersTyped, HeldSteps
  <2> QED
    BY <1>10, <2>1, <2>2 DEF FramesRead, TypeOK, HandlersTyped
<1> QED
  BY <1>1, <1>2, <1>3, <1>4, <1>6, <1>7, <1>8, <1>9, <1>10 DEF HandlerStep

LEMMA SeveredTypes ==
    ASSUME TypeOK, NEW r \in Replicas, handler' = Severed(r)
    PROVE  /\ HandlersTyped'
           /\ \A h \in Handlers :
                 \/ handler'[h] = handler[h] /\ h \notin Of(r)
                 \/ /\ h \in Of(r) /\ handler[h].pc \in SentSteps
                    /\ handler'[h] = IdleHandler
                 \/ /\ h \in Of(r) /\ handler[h].pc \notin SentSteps
                    /\ ~handler'[h].live
                    /\ handler'[h].pc = handler[h].pc /\ handler'[h].t = handler[h].t
                    /\ handler'[h].b = handler[h].b /\ handler'[h].k = handler[h].k
<1>1. ASSUME NEW h \in Handlers
      PROVE  LET s == [handler[h] EXCEPT !.live = FALSE] IN
             /\ s \in HandlerState /\ ~s.live /\ s.pc = handler[h].pc /\ s.t = handler[h].t
             /\ s.b = handler[h].b /\ s.k = handler[h].k
  <2>1. handler[h] \in HandlerState
    BY DEF TypeOK
  <2> QED
    BY <2>1 DEF HandlerState
<1>2. ASSUME NEW h \in Handlers
      PROVE  handler'[h] = IF h[1] # r THEN handler[h]
                           ELSE IF handler[h].pc \in SentSteps THEN IdleHandler
                           ELSE [handler[h] EXCEPT !.live = FALSE]
  BY DEF Severed
<1>3. ASSUME NEW h \in Handlers
      PROVE  \/ handler'[h] = handler[h] /\ h \notin Of(r)
             \/ /\ h \in Of(r) /\ handler[h].pc \in SentSteps
                /\ handler'[h] = IdleHandler
             \/ /\ h \in Of(r) /\ handler[h].pc \notin SentSteps
                /\ handler'[h] \in HandlerState /\ ~handler'[h].live
                /\ handler'[h].pc = handler[h].pc /\ handler'[h].t = handler[h].t
                /\ handler'[h].b = handler[h].b /\ handler'[h].k = handler[h].k
  BY <1>1, <1>2 DEF Of
<1>4. HandlersTyped'
  <2>1. DOMAIN handler' = Handlers /\ handler' = [h \in Handlers |-> handler'[h]]
    BY DEF Severed
  <2>2. \A h \in Handlers : handler'[h] \in HandlerState
    BY <1>3, IdleTypes DEF TypeOK
  <2>3. \A h \in Handlers : /\ handler'[h].pc # "idle" => handler'[h].t \in Tests
                            /\ handler'[h].pc \in HeldSteps => handler'[h].b \in Browsers
    BY <1>3, IdleTypes DEF TypeOK, HeldSteps
  <2> QED
    BY <2>1, <2>2, <2>3 DEF HandlersTyped
<1> QED
  BY <1>3, <1>4

LEMMA StoppedTypes ==
    ASSUME TypeOK, NEW r \in Replicas, StopProcess(r), faults' \in 0..MaxFaults
    PROVE  TypeOK'
<1>1. PICK sent \in SUBSET Retrying(r), kept \in SUBSET Confirming(r) :
         ChannelEnds(r, sent, kept)
  BY DEF StopProcess
<1>2. sent \in SUBSET Handlers /\ kept \in SUBSET Handlers
  BY DEF Retrying, Confirming, Of
<1>3. /\ queue' \in [Messages -> Nat] /\ dead' \in [Tests -> Nat]
      /\ results' \in [Tests -> Nat] /\ signals' \in [Replicas -> SUBSET Tests]
  BY <1>1, <1>2, ChannelTypes
<1>4. HandlersTyped'
  BY IdleTypes DEF StopProcess, TypeOK, HandlersTyped, HeldSteps
<1>5. /\ link' \in [Replicas -> {"down", "deaf", "cancelled", "consuming"}]
      /\ leaving' \in [Replicas -> {"no", "draining", "exiting"}]
      /\ flags' \in [Replicas -> SUBSET Tests]
      /\ idle' \in [Replicas -> Seq(Browsers)]
  BY DEF StopProcess, TypeOK
<1>6. running' \in [Replicas -> [Tests -> Browsers \cup {NoBrowser}]]
  BY DEF StopProcess, TypeOK
<1>7. /\ cancelAcks' \subseteq Replicas \X Browsers \X BOOLEAN
      /\ alive' \subseteq Replicas \X Browsers /\ closing' \subseteq alive'
      /\ timers' \subseteq Replicas \X Browsers
  BY DEF StopProcess, TypeOK
<1> QED
  BY <1>3, <1>4, <1>5, <1>6, <1>7 DEF StopProcess, TypeOK, HandlersTyped, outerVars

LEMMA FaultCount ==
    ASSUME TypeOK, NEW kind, Inject(kind)
    PROVE  faults' \in 0..MaxFaults
BY ConstantsAssumption DEF TypeOK, Inject

\* The acknowledgements of r's cancels, once its channel is gone.
LEMMA AcksSevered ==
    ASSUME TypeOK, NEW r \in Replicas,
           cancelAcks' = {IF a[1] = r THEN <<r, a[2], FALSE>> ELSE a : a \in cancelAcks}
    PROVE  cancelAcks' \subseteq Replicas \X Browsers \X BOOLEAN
<1> SUFFICES ASSUME NEW a \in cancelAcks
             PROVE  (IF a[1] = r THEN <<r, a[2], FALSE>> ELSE a) \in Replicas \X Browsers \X BOOLEAN
  OBVIOUS
<1>1. a \in Replicas \X Browsers \X BOOLEAN
  BY DEF TypeOK
<1>2. a[2] \in Browsers
  BY <1>1
<1> QED
  BY <1>1, <1>2

LEMMA TypeReplica ==
    ASSUME TypeOK, NEW r \in Replicas,
           \/ \E t \in Tests : ReceiveCancel(r, t)
           \/ \E b \in Browsers : TimerFires(r, b) \/ BrowserGone(r, b) \/ CancelClosed(r, b)
           \/ Disconnect(r) \/ Reconnect(r) \/ Crash(r) \/ Die(r)
           \/ Shutdown(r) \/ Drained(r) \/ Exit(r)
    PROVE  TypeOK'
<1> USE DEF outerVars, brokerVars, linkVars, memoryVars, browserVars
<1>1. ASSUME NEW t \in Tests, ReceiveCancel(r, t)
      PROVE  TypeOK'
  <2> DEFINE b == running[r][t]
  <2>1. /\ signals' \in [Replicas -> SUBSET Tests]
        /\ flags' \in [Replicas -> SUBSET Tests]
    BY <1>1 DEF ReceiveCancel, TypeOK
  <2>2. /\ cancelAcks' \subseteq Replicas \X Browsers \X BOOLEAN
        /\ closing' \subseteq alive
    <3>1. <<r, b>> \in alive => b \in Browsers
      BY DEF TypeOK
    <3>2. <<r, b>> \in alive => <<r, b, TRUE>> \in Replicas \X Browsers \X BOOLEAN
      BY <3>1
    <3>3. CASE <<r, b>> \in alive
      <4>1. closing' = closing \cup {<<r, b>>} /\ cancelAcks' = cancelAcks \cup {<<r, b, TRUE>>}
            /\ alive' = alive
        BY <1>1, <3>3 DEF ReceiveCancel
      <4> QED
        BY <3>2, <3>3, <4>1 DEF TypeOK
    <3>4. CASE <<r, b>> \notin alive
      BY <1>1, <3>4 DEF ReceiveCancel, TypeOK
    <3> QED
      BY <3>3, <3>4
  <2> QED
    BY <1>1, <2>1, <2>2 DEF ReceiveCancel, TypeOK
<1>2. ASSUME NEW b \in Browsers, TimerFires(r, b)
      PROVE  TypeOK'
  BY <1>2 DEF TimerFires, TypeOK
<1>3. ASSUME NEW b \in Browsers, BrowserGone(r, b)
      PROVE  TypeOK'
  <2>1. faults' \in 0..MaxFaults
    BY <1>3, FaultCount DEF BrowserGone, TypeOK
  <2> QED
    BY <1>3, <2>1 DEF BrowserGone, TypeOK
<1>4. ASSUME NEW b \in Browsers, CancelClosed(r, b)
      PROVE  TypeOK'
  <2>1. CASE StopProcess(r) /\ UNCHANGED faults
    BY <2>1, StoppedTypes DEF TypeOK
  <2>2. CASE ~StopProcess(r)
    BY <1>4, <2>2 DEF CancelClosed, TypeOK
  <2> QED
    BY <1>4, <2>1, <2>2 DEF CancelClosed
<1>5. CASE Disconnect(r)
  <2>1. faults' \in 0..MaxFaults
    BY <1>5, FaultCount DEF Disconnect
  <2>2. PICK sent \in SUBSET Handlers : ChannelEnds(r, sent, {})
    BY <1>5 DEF Disconnect, Retrying, Of
  <2>3. /\ queue' \in [Messages -> Nat] /\ dead' \in [Tests -> Nat]
        /\ results' \in [Tests -> Nat] /\ signals' \in [Replicas -> SUBSET Tests]
    BY <2>2, ChannelTypes
  <2>4. HandlersTyped'
    BY <1>5, SeveredTypes DEF Disconnect
  <2>5. cancelAcks' \subseteq Replicas \X Browsers \X BOOLEAN
    BY <1>5, AcksSevered DEF Disconnect
  <2>6. link' \in [Replicas -> {"down", "deaf", "cancelled", "consuming"}]
    BY <1>5 DEF Disconnect, TypeOK
  <2> QED
    BY <1>5, <2>1, <2>3, <2>4, <2>5, <2>6 DEF Disconnect, TypeOK, HandlersTyped
<1>6. CASE Reconnect(r)
  BY <1>6 DEF Reconnect, TypeOK
<1>7. CASE Crash(r) \/ Die(r) \/ Exit(r)
  <2>1. StopProcess(r) /\ faults' \in 0..MaxFaults
    BY <1>7, FaultCount DEF Crash, Die, Exit, TypeOK
  <2> QED
    BY <2>1, StoppedTypes
<1>8. CASE Shutdown(r)
  <2>1. faults' \in 0..MaxFaults
    BY <1>8, FaultCount DEF Shutdown
  <2>2. /\ link' \in [Replicas -> {"down", "deaf", "cancelled", "consuming"}]
        /\ leaving' \in [Replicas -> {"no", "draining", "exiting"}]
    BY <1>8 DEF Shutdown, TypeOK
  <2> QED
    BY <1>8, <2>1, <2>2 DEF Shutdown, TypeOK
<1>9. CASE Drained(r)
  <2>1. leaving' \in [Replicas -> {"no", "draining", "exiting"}]
    BY <1>9 DEF Drained, TypeOK
  <2>2. CASE Listening(r)
    <3>1. ChannelEnds(r, {}, {}) /\ handler' = Severed(r)
      BY <1>9, <2>2 DEF Drained
    <3>2. /\ queue' \in [Messages -> Nat] /\ dead' \in [Tests -> Nat]
          /\ results' \in [Tests -> Nat] /\ signals' \in [Replicas -> SUBSET Tests]
      BY <3>1, ChannelTypes
    <3>3. HandlersTyped'
      BY <3>1, SeveredTypes
    <3>4. cancelAcks' \subseteq Replicas \X Browsers \X BOOLEAN
      BY <1>9, <2>2, AcksSevered DEF Drained
    <3>5. link' \in [Replicas -> {"down", "deaf", "cancelled", "consuming"}]
      BY <1>9, <2>2 DEF Drained, TypeOK
    <3> QED
      BY <1>9, <2>1, <3>2, <3>3, <3>4, <3>5 DEF Drained, TypeOK, HandlersTyped
  <2>3. CASE ~Listening(r)
    BY <1>9, <2>1, <2>3 DEF Drained, TypeOK
  <2> QED
    BY <2>2, <2>3
<1> QED
  BY <1>1, <1>2, <1>3, <1>4, <1>5, <1>6, <1>7, <1>8, <1>9

LEMMA TypeStep == TypeOK /\ [Next]_vars => TypeOK'
<1> SUFFICES ASSUME TypeOK, [Next]_vars PROVE TypeOK'
  OBVIOUS
<1>1. CASE UNCHANGED vars
  BY <1>1 DEF vars, outerVars, brokerVars, linkVars, memoryVars, browserVars, TypeOK
<1>2. CASE Next
  BY <1>2, TypeOuter, TypeHandler, TypeDeliver, TypeReplica DEF Next, Deliveries
<1> QED
  BY <1>1, <1>2

\* Every variable keeps its type: an invocation at a step that uses a browser
\* has one, and no queue ever holds fewer than no messages.
THEOREM TypeCorrect == Spec => []TypeOK
BY TypeInit, TypeStep, PTL DEF Spec

-----------------------------------------------------------------------------
(* Browsers *)

\* The steps of an invocation whose runningBrowsers entry may stand.
InUse == {"preparing", "sessions", "sampled"}

\* Only a run between acquire() and release() has a browser, ...
OnlyRunsHold ==
    \A h \in Handlers : handler[h].pc \notin HeldSteps => handler[h].b = NoBrowser

\* ... which no other run of the replica has, ...
HeldAlone ==
    \A g, h \in Handlers :
        g[1] = h[1] /\ handler[g].b = handler[h].b /\ handler[h].b # NoBrowser => g = h

\* ... nor the pool, whose list is short and without repetition; ...
PoolSound ==
    \A r \in Replicas :
        /\ Len(idle[r]) <= Concurrency
        /\ \A i, j \in DOMAIN idle[r] : i # j => idle[r][i] # idle[r][j]

HeldOutside == \A h \in Handlers : ~InPool(h[1], handler[h].b)

\* ... and an entry of runningBrowsers names a browser outside the pool, which
\* is in the hands of its own test before its release() or of nobody.
EntriesOwn ==
    \A r \in Replicas, t \in Tests :
        running[r][t] # NoBrowser =>
            /\ ~InPool(r, running[r][t])
            /\ \A h \in Of(r) : handler[h].b = running[r][t] =>
                                   Test(h) = t /\ handler[h].pc \in InUse

BrowserInv == /\ OnlyRunsHold /\ HeldAlone /\ PoolSound
              /\ HeldOutside /\ EntriesOwn /\ NoOrphanBrowser

LEMMA InUseAreHeld == InUse \subseteq HeldSteps
BY DEF InUse, HeldSteps

LEMMA HolderExists ==
    ASSUME NEW r \in Replicas, NEW b
    PROVE  Holders(r, b) # {} <=> \E h \in Handlers : h[1] = r /\ handler[h].b = b
BY DEF Holders, Of

LEMMA HolderExistsNext ==
    ASSUME NEW r \in Replicas, NEW b
    PROVE  (Holders(r, b) # {})' <=> \E h \in Handlers : h[1] = r /\ handler'[h].b = b
BY DEF Holders, Of

\* Nobody takes or gives up a browser; runs may advance.
SameHolders ==
    \A h \in Handlers :
        /\ handler'[h].b = handler[h].b
        /\ handler[h].b # NoBrowser =>
              /\ handler'[h].t = handler[h].t
              /\ handler'[h].pc \in HeldSteps
              /\ handler[h].pc \in InUse => handler'[h].pc \in InUse

\* Browsers may end, be told to close, or lose their timer when they are.
FewerBrowsers ==
    \A p \in alive' : /\ p \in alive
                      /\ p \in closing \cup timers => p \in closing' \cup timers'

LEMMA BrowsersKept ==
    ASSUME TypeOK, BrowserInv, SameHolders, FewerBrowsers, UNCHANGED <<idle, running>>
    PROVE  BrowserInv'
<1>1. OnlyRunsHold' /\ HeldAlone' /\ HeldOutside' /\ PoolSound'
  BY DEF BrowserInv, OnlyRunsHold, HeldAlone, HeldOutside, PoolSound, InPool, SameHolders
<1>2. EntriesOwn'
  BY DEF BrowserInv, EntriesOwn, InPool, SameHolders, Test, Of
<1>3. NoOrphanBrowser'
  <2> SUFFICES ASSUME NEW p \in alive'
               PROVE  \/ InPool(p[1], p[2])' \/ (Holders(p[1], p[2]) # {})'
                      \/ p \in closing' \/ p \in timers'
    BY DEF NoOrphanBrowser
  <2>1. p \in alive /\ p[1] \in Replicas
    BY DEF FewerBrowsers, TypeOK
  <2>2. InPool(p[1], p[2])' <=> InPool(p[1], p[2])
    BY DEF InPool
  <2>3. (Holders(p[1], p[2]) # {})' <=> Holders(p[1], p[2]) # {}
    BY <2>1, HolderExists, HolderExistsNext DEF SameHolders
  <2> QED
    BY <2>1, <2>2, <2>3 DEF BrowserInv, NoOrphanBrowser, FewerBrowsers
<1> QED
  BY <1>1, <1>2, <1>3 DEF BrowserInv

\* The other invocations keep their browsers, and theirs are others than b.
LEMMA OthersHold ==
    ASSUME TypeOK, BrowserInv, NEW h \in Handlers,
           \A g \in Handlers \ {h} : handler'[g] = handler[g],
           handler'[h].b = NoBrowser, handler'[h].pc \notin HeldSteps
    PROVE  OnlyRunsHold' /\ HeldAlone'
BY DEF BrowserInv, OnlyRunsHold, HeldAlone

\* A run gives up a browser that is gone or going.
LEMMA BrowserDropped ==
    ASSUME TypeOK, BrowserInv, NEW h \in Handlers,
           \A g \in Handlers \ {h} : handler'[g] = handler[g],
           handler'[h].b = NoBrowser, handler'[h].pc \notin HeldSteps,
           Browser(h) \notin alive \ closing,
           UNCHANGED <<idle, running, alive, closing>>,
           \A p \in timers : p \in timers' \/ p = Browser(h)
    PROVE  BrowserInv'
<1>1. OnlyRunsHold' /\ HeldAlone'
  BY OthersHold
<1>2. PoolSound'
  BY DEF BrowserInv, PoolSound
<1>3. HeldOutside'
  <2>1. ~InPool(h[1], NoBrowser)
    <3>1. h[1] \in Replicas
      BY HandlerInUse
    <3> QED
      BY <3>1, ConstantsAssumption DEF InPool, TypeOK
  <2> QED
    BY <2>1 DEF BrowserInv, HeldOutside, InPool
<1>4. EntriesOwn'
  BY DEF BrowserInv, EntriesOwn, InPool, Test, Of
<1>5. NoOrphanBrowser'
  <2> SUFFICES ASSUME NEW p \in alive
               PROVE  \/ InPool(p[1], p[2])' \/ (Holders(p[1], p[2]) # {})'
                      \/ p \in closing' \/ p \in timers'
    BY DEF NoOrphanBrowser
  <2>1. p[1] \in Replicas /\ p = <<p[1], p[2]>>
    BY DEF TypeOK
  <2>2. InPool(p[1], p[2])' <=> InPool(p[1], p[2])
    BY DEF InPool
  <2>3. CASE p = Browser(h)
    BY <2>3
  <2>4. CASE p # Browser(h)
    <3>1. ASSUME NEW g \in Handlers, g[1] = p[1], handler[g].b = p[2]
          PROVE  (Holders(p[1], p[2]) # {})'
      <4>1. g # h
        BY <2>1, <2>4, <3>1 DEF Browser
      <4> QED
        BY <2>1, <3>1, <4>1, HolderExistsNext
    <3> QED
      BY <2>1, <2>2, <2>4, <3>1, HolderExists DEF BrowserInv, NoOrphanBrowser
  <2> QED
    BY <2>3, <2>4
<1> QED
  BY <1>1, <1>2, <1>3, <1>4, <1>5 DEF BrowserInv

\* InPool in the next state.
InPoolNext(r, c) == \E i \in DOMAIN idle'[r] : idle'[r][i] = c

\* A run takes a browser that nobody has or is about to get.
LEMMA BrowserTaken ==
    ASSUME TypeOK, TypeOK', BrowserInv, PoolSound',
           NEW h \in Handlers, NEW t \in Tests, NEW b \in Browsers,
           handler[h].b = NoBrowser,
           \A g \in Handlers \ {h} : handler'[g] = handler[g],
           handler'[h].pc = "preparing", handler'[h].b = b, handler'[h].t = t,
           running' = [running EXCEPT ![h[1]][t] = b],
           \A g \in Handlers : g[1] = h[1] => handler[g].b # b,
           \A u \in Tests : running[h[1]][u] # b,
           ~InPoolNext(h[1], b),
           \A r \in Replicas, c \in Browsers : InPoolNext(r, c) => InPool(r, c),
           \A p \in alive' : \/ p = <<h[1], b>>
                             \/ p \in alive /\ (InPool(p[1], p[2]) => InPoolNext(p[1], p[2])),
           closing' = closing, timers' = timers \cup {<<h[1], b>>}
    PROVE  BrowserInv'
<1>0. h[1] \in Replicas /\ b # NoBrowser
  BY HandlerInUse, ConstantsAssumption
<1>a. \A r \in Replicas : ~InPoolNext(r, NoBrowser)
  BY ConstantsAssumption DEF InPool, InPoolNext, TypeOK
<1>1. OnlyRunsHold' /\ HeldAlone'
  BY <1>0 DEF BrowserInv, OnlyRunsHold, HeldAlone, HeldSteps
<1>2. HeldOutside'
  <2> SUFFICES ASSUME NEW g \in Handlers PROVE ~InPoolNext(g[1], handler'[g].b)
    BY DEF HeldOutside, InPool, InPoolNext
  <2>1. CASE g = h
    BY <2>1 DEF InPool, InPoolNext
  <2>2. CASE g # h
    <3>1. handler'[g].b = handler[g].b /\ ~InPool(g[1], handler[g].b)
      BY <2>2 DEF BrowserInv, HeldOutside
    <3>2. g[1] \in Replicas /\ (handler[g].b \in Browsers \/ handler[g].b = NoBrowser)
      BY DEF TypeOK, HandlerState, Handlers
    <3> QED
      BY <1>a, <3>1, <3>2 DEF InPool, InPoolNext
  <2> QED
    BY <2>1, <2>2
<1>3. EntriesOwn'
  <2> SUFFICES ASSUME NEW r \in Replicas, NEW u \in Tests, running'[r][u] # NoBrowser
               PROVE  /\ ~InPoolNext(r, running'[r][u])
                      /\ \A g \in Handlers :
                            g[1] = r /\ handler'[g].b = running'[r][u] =>
                                handler'[g].t = u /\ handler'[g].pc \in InUse
    BY DEF EntriesOwn, InPool, InPoolNext, Of, Test
  <2>1. CASE r = h[1] /\ u = t
    <3>1. running'[r][u] = b
      BY <2>1 DEF TypeOK
    <3> QED
      BY <2>1, <3>1 DEF InPool, InPoolNext, InUse
  <2>2. CASE ~(r = h[1] /\ u = t)
    <3>1. running'[r][u] = running[r][u] /\ running[r][u] \in Browsers
      BY <2>2, <1>0 DEF TypeOK
    <3>2. /\ ~InPool(r, running[r][u])
          /\ \A g \in Handlers :
                g[1] = r /\ handler[g].b = running[r][u] =>
                    handler[g].t = u /\ handler[g].pc \in InUse
      BY <3>1, ConstantsAssumption DEF BrowserInv, EntriesOwn, Of, Test
    <3>3. ~InPoolNext(r, running'[r][u])
      BY <3>1, <3>2 DEF InPool, InPoolNext
    <3>4. r = h[1] => running'[r][u] # b
      BY <3>1
    <3> QED
      BY <3>1, <3>2, <3>3, <3>4
  <2> QED
    BY <2>1, <2>2
<1>4. NoOrphanBrowser'
  <2> SUFFICES ASSUME NEW p \in alive'
               PROVE  \/ InPoolNext(p[1], p[2]) \/ (Holders(p[1], p[2]) # {})'
                      \/ p \in closing' \/ p \in timers'
    BY DEF NoOrphanBrowser, InPool, InPoolNext
  <2>1. CASE p = <<h[1], b>>
    BY <2>1
  <2>2. CASE p # <<h[1], b>>
    <3>1. p \in alive /\ p[1] \in Replicas /\ p[2] \in Browsers
      BY <2>2 DEF TypeOK
    <3>2. ASSUME NEW g \in Handlers, g[1] = p[1], handler[g].b = p[2]
          PROVE  (Holders(p[1], p[2]) # {})'
      <4>1. g # h
        BY <3>1, <3>2, ConstantsAssumption
      <4> QED
        BY <3>1, <3>2, <4>1, HolderExistsNext
    <3> QED
      BY <2>2, <3>1, <3>2, HolderExists DEF BrowserInv, NoOrphanBrowser
  <2> QED
    BY <2>1, <2>2
<1> QED
  BY <1>1, <1>2, <1>3, <1>4 DEF BrowserInv

LEMMA LaunchKeeps ==
    ASSUME TypeOK, TypeOK', BrowserInv, NEW h \in Handlers, Launch(h)
    PROVE  BrowserInv'
<1>1. PICK b \in Browsers : b \in Unused(h[1]) /\ b = CHOOSE c \in Unused(h[1]) : TRUE
  BY DEF Launch, Unused
<1>2. PICK t \in Tests : t = handler[h].t
  BY HandlerInUse DEF Launch, At
<1>3. PICK run \in HandlerState : run = handler[h]
  BY DEF TypeOK
<1>4. CheckOut(h, b, run) /\ run.t = t
  BY <1>1, <1>2, <1>3 DEF Launch, CheckOut
<1>5. /\ \A g \in Handlers \ {h} : handler'[g] = handler[g]
      /\ handler'[h].pc = "preparing" /\ handler'[h].b = b /\ handler'[h].t = t
  BY <1>4, CheckOutMoves, TypeHasHandlers
<1>6. /\ running' = [running EXCEPT ![h[1]][t] = b]
      /\ timers' = timers \cup {<<h[1], b>>} /\ closing' = closing /\ idle' = idle
      /\ alive' = alive \cup {<<h[1], b>>}
  BY <1>1, <1>4 DEF Launch, CheckOut
<1>7. handler[h].b = NoBrowser
  BY DEF Launch, At, BrowserInv, OnlyRunsHold, HeldSteps
<1>8. /\ \A g \in Handlers : g[1] = h[1] => handler[g].b # b
      /\ \A u \in Tests : running[h[1]][u] # b
      /\ ~InPool(h[1], b)
  BY <1>1 DEF Unused, Of, InPool, InPoolNext
<1>9. /\ PoolSound' /\ ~InPoolNext(h[1], b)
      /\ \A r \in Replicas, c \in Browsers : InPoolNext(r, c) => InPool(r, c)
      /\ \A p \in alive' : \/ p = <<h[1], b>>
                           \/ p \in alive /\ (InPool(p[1], p[2]) => InPoolNext(p[1], p[2]))
  BY <1>6, <1>8 DEF BrowserInv, PoolSound, InPool, InPoolNext
<1> QED
  <2>1. /\ running' = [running EXCEPT ![h[1]][t] = b]
        /\ timers' = timers \cup {<<h[1], b>>} /\ closing' = closing
    BY <1>6
  <2> QED
    BY <1>5, <1>7, <1>8, <1>9, <2>1, BrowserTaken

LEMMA DeliverKeeps ==
    ASSUME TypeOK, TypeOK', BrowserInv,
           NEW r \in Replicas, NEW t \in Tests, NEW k \in 0..MaxRetries, Deliver(r, t, k)
    PROVE  BrowserInv'
<1>1. PICK h \in Handlers :
         /\ Starts(r, t, k, h)
         /\ FindsNone(r, h) \/ \E i \in 1..Len(idle[r]) : Finds(r, t, h, i)
  BY DeliverMoves
<1>2. /\ h[1] = r /\ handler[h].b = NoBrowser
      /\ \A g \in Handlers \ {h} : handler'[g] = handler[g]
      /\ handler'[h].t = t
      /\ alive' = alive /\ closing' = closing
  BY <1>1 DEF Starts, At, BrowserInv, OnlyRunsHold, HeldSteps, Deliver
<1>0. /\ idle[r] \in Seq(Browsers) /\ Len(idle[r]) \in Nat
      /\ DOMAIN idle[r] = 1..Len(idle[r]) /\ Len(idle[r]) <= Concurrency
  BY DEF TypeOK, BrowserInv, PoolSound
<1>3. CASE FindsNone(r, h)
  <2>1. /\ idle' = [idle EXCEPT ![r] = <<>>] /\ running' = running /\ timers' = timers
        /\ handler'[h].pc = "launching" /\ handler'[h].b = NoBrowser
    BY <1>3 DEF FindsNone
  <2>2. /\ OnlyRunsHold' /\ HeldAlone'
    BY <1>2, <2>1, OthersHold DEF HeldSteps
  <2>3. \A q \in Replicas : \A c : InPoolNext(q, c) <=> InPool(q, c) /\ q # r
    BY <2>1 DEF InPool, InPoolNext, TypeOK
  <2>4. PoolSound'
    BY <2>1, ConstantsAssumption DEF BrowserInv, PoolSound, TypeOK
  <2>5. HeldOutside'
    <3>1. \A q \in Replicas : ~InPool(q, NoBrowser)
      BY ConstantsAssumption DEF InPool, InPoolNext, TypeOK
    <3>2. \A g \in Handlers : g[1] \in Replicas /\ ~InPool(g[1], handler'[g].b)
      BY <1>2, <2>1, <3>1, HandlerInUse DEF BrowserInv, HeldOutside
    <3>3. \A g \in Handlers : ~InPoolNext(g[1], handler'[g].b)
      BY <2>3, <3>2
    <3> QED
      BY <3>3 DEF HeldOutside, InPool, InPoolNext
  <2>6. EntriesOwn'
    <3> SUFFICES ASSUME NEW q \in Replicas, NEW u \in Tests, running[q][u] # NoBrowser
                 PROVE  /\ ~InPoolNext(q, running[q][u])
                        /\ \A g \in Handlers :
                              g[1] = q /\ handler'[g].b = running[q][u] =>
                                  handler'[g].t = u /\ handler'[g].pc \in InUse
      BY <2>1 DEF EntriesOwn, InPool, InPoolNext, Of, Test
    <3>1. ~InPool(q, running[q][u])
      BY DEF BrowserInv, EntriesOwn
    <3>2. ~InPoolNext(q, running[q][u])
      BY <2>1, <3>1 DEF InPool, InPoolNext, TypeOK
    <3> QED
      BY <1>2, <2>1, <3>2 DEF BrowserInv, EntriesOwn, Of, Test
  <2>7. NoOrphanBrowser'
    <3> SUFFICES ASSUME NEW p \in alive
                 PROVE  \/ InPoolNext(p[1], p[2]) \/ (Holders(p[1], p[2]) # {})'
                        \/ p \in closing \/ p \in timers
      BY <1>2, <2>1 DEF NoOrphanBrowser, InPool, InPoolNext
    <3>1. p[1] \in Replicas /\ p[2] \in Browsers /\ p = <<p[1], p[2]>>
      BY DEF TypeOK
    <3>2. p[1] = r => ~InPool(r, p[2])
      BY <1>3, <3>1 DEF FindsNone, InPool, InPoolNext
    <3>3. Holders(p[1], p[2]) # {} => (Holders(p[1], p[2]) # {})'
      <4>1. \A g \in Handlers : handler[g].b = p[2] => g # h
        BY <1>2, <3>1, ConstantsAssumption
      <4> QED
        BY <1>2, <3>1, <4>1, HolderExists, HolderExistsNext
    <3> QED
      BY <2>3, <3>1, <3>2, <3>3 DEF BrowserInv, NoOrphanBrowser
  <2> QED
    BY <2>2, <2>4, <2>5, <2>6, <2>7 DEF BrowserInv
<1>4. ASSUME NEW i \in 1..Len(idle[r]), Finds(r, t, h, i)
      PROVE  BrowserInv'
  <2>1. PICK b \in Browsers : b = idle[r][i]
    BY <1>4 DEF Finds
  <2>2. /\ idle' = [idle EXCEPT ![r] = SubSeq(@, 1, i - 1)]
        /\ running' = [running EXCEPT ![h[1]][t] = b]
        /\ timers' = timers \cup {<<h[1], b>>}
        /\ handler'[h].pc = "preparing" /\ handler'[h].b = b
    BY <1>2, <1>4, <2>1 DEF Finds
  <2>3. /\ idle'[r] = SubSeq(idle[r], 1, i - 1)
        /\ \A q \in Replicas \ {r} : idle'[q] = idle[q]
    BY <2>2 DEF TypeOK
  <2>4. /\ Len(idle'[r]) = i - 1 /\ DOMAIN idle'[r] = 1..(i - 1)
        /\ \A j \in 1..(i - 1) : idle'[r][j] = idle[r][j]
    <3>1. idle'[r] \in Seq(Browsers)
      BY DEF TypeOK
    <3> QED
      BY <2>3, <3>1, CutType
  <2>5. PoolSound'
    <3> SUFFICES ASSUME NEW q \in Replicas
                 PROVE  /\ Len(idle'[q]) <= Concurrency
                        /\ \A j, l \in DOMAIN idle'[q] : j # l => idle'[q][j] # idle'[q][l]
      BY DEF PoolSound
    <3>1. CASE q = r
      <4>1. \A j \in 1..(i - 1) : j \in DOMAIN idle[r]
        BY <1>0
      <4>2. i - 1 <= Concurrency
        BY <1>0, ConstantsAssumption
      <4> QED
        BY <2>4, <3>1, <4>1, <4>2 DEF BrowserInv, PoolSound
    <3>2. CASE q # r
      BY <2>3, <3>2 DEF BrowserInv, PoolSound
    <3> QED
      BY <3>1, <3>2
  <2>6. ~InPoolNext(h[1], b)
    <3>1. \A j \in 1..(i - 1) : j \in DOMAIN idle[r] /\ j # i /\ i \in DOMAIN idle[r]
      BY <1>0
    <3>2. \A j \in 1..(i - 1) : idle[r][j] # idle[r][i]
      BY <3>1 DEF BrowserInv, PoolSound
    <3> QED
      BY <1>2, <2>1, <2>4, <3>2 DEF InPool, InPoolNext
  <2>7. \A q \in Replicas, c \in Browsers : InPoolNext(q, c) => InPool(q, c)
    <3> SUFFICES ASSUME NEW q \in Replicas, NEW c \in Browsers, NEW j \in DOMAIN idle'[q],
                        idle'[q][j] = c
                 PROVE  InPool(q, c)
      BY DEF InPool, InPoolNext
    <3>1. CASE q = r
      <4>1. j \in DOMAIN idle[r]
        BY <1>0, <2>4, <3>1
      <4> QED
        BY <2>4, <3>1, <4>1 DEF InPool, InPoolNext
    <3>2. CASE q # r
      BY <2>3, <3>2 DEF InPool, InPoolNext
    <3> QED
      BY <3>1, <3>2
  <2>8. /\ InPool(r, b)
        /\ \A g \in Handlers : g[1] = h[1] => handler[g].b # b
        /\ \A u \in Tests : running[h[1]][u] # b
    <3>1. InPool(r, b)
      BY <1>0, <2>1 DEF InPool, InPoolNext
    <3>2. b # NoBrowser
      BY ConstantsAssumption
    <3> QED
      BY <1>2, <3>1, <3>2 DEF BrowserInv, HeldOutside, EntriesOwn
  <2>9. ASSUME NEW p \in alive, InPool(p[1], p[2]), p # <<h[1], b>>
        PROVE  InPoolNext(p[1], p[2])
    <3>1. p[1] \in Replicas /\ p = <<p[1], p[2]>>
      BY DEF TypeOK
    <3>2. PICK j \in DOMAIN idle[p[1]] : idle[p[1]][j] = p[2]
      BY <2>9 DEF InPool, InPoolNext
    <3>3. CASE p[1] = r
      <4>1. ~(j > i) /\ j # i /\ j \in 1..Len(idle[r])
        BY <1>0, <1>2, <1>4, <2>1, <2>9, <3>1, <3>2, <3>3 DEF Finds
      <4>2. j \in 1..(i - 1)
        BY <1>0, <4>1
      <4> QED
        BY <2>4, <3>2, <3>3, <4>2 DEF InPool, InPoolNext
    <3>4. CASE p[1] # r
      BY <2>3, <3>1, <3>2, <3>4 DEF InPool, InPoolNext
    <3> QED
      BY <3>3, <3>4
  <2>10. \A p \in alive' : \/ p = <<h[1], b>>
                           \/ p \in alive /\ (InPool(p[1], p[2]) => InPoolNext(p[1], p[2]))
    BY <1>2, <2>9
  <2> QED
    BY <1>2, <2>2, <2>5, <2>6, <2>7, <2>8, <2>10, BrowserTaken
<1> QED
  BY <1>1, <1>3, <1>4

\* The finally block: the entry is deleted and the timer cleared while the run
\* still has the browser.
LEMMA ReleasingKeeps ==
    ASSUME TypeOK, BrowserInv, NEW h \in Handlers, NEW b, b = handler[h].b,
           Moves(h, "releasing", b), handler[h].pc \in InUse,
           running' = [running EXCEPT ![h[1]][Test(h)] = NoBrowser],
           timers' = timers \ {Browser(h)}, UNCHANGED <<alive, closing, idle>>
    PROVE  BrowserInv'
<1>0. /\ h[1] \in Replicas /\ Test(h) \in Tests
  BY HandlerInUse DEF InUse, Test
<1>1. OnlyRunsHold' /\ HeldAlone' /\ HeldOutside' /\ PoolSound'
  <2>1. \A g \in Handlers : handler'[g].b = handler[g].b
                             /\ (handler'[g].pc \notin HeldSteps => handler[g].pc \notin HeldSteps)
    BY DEF Moves, HeldSteps
  <2>2. OnlyRunsHold' /\ HeldAlone'
    BY <2>1 DEF BrowserInv, OnlyRunsHold, HeldAlone
  <2>3. HeldOutside'
    BY <2>1 DEF BrowserInv, HeldOutside, InPool
  <2>4. PoolSound'
    BY DEF BrowserInv, PoolSound
  <2> QED
    BY <2>2, <2>3, <2>4
<1>2. EntriesOwn'
  <2> SUFFICES ASSUME NEW r \in Replicas, NEW t \in Tests, running'[r][t] # NoBrowser
               PROVE  /\ ~InPoolNext(r, running'[r][t])
                      /\ \A g \in Handlers :
                            g[1] = r /\ handler'[g].b = running'[r][t] =>
                                handler'[g].t = t /\ handler'[g].pc \in InUse
    BY DEF EntriesOwn, InPool, InPoolNext, Of, Test
  <2>1. ~(r = h[1] /\ t = Test(h)) /\ running'[r][t] = running[r][t]
    BY <1>0 DEF TypeOK
  <2>2. /\ ~InPool(r, running[r][t])
        /\ \A g \in Handlers :
              g[1] = r /\ handler[g].b = running[r][t] =>
                  handler[g].t = t /\ handler[g].pc \in InUse
    BY <2>1 DEF BrowserInv, EntriesOwn, Of, Test
  <2>3. ~InPoolNext(r, running'[r][t])
    BY <2>1, <2>2 DEF InPool, InPoolNext
  <2> QED
    BY <2>1, <2>2, <2>3 DEF Moves, Test
<1>3. NoOrphanBrowser'
  <2> SUFFICES ASSUME NEW p \in alive
               PROVE  \/ InPoolNext(p[1], p[2]) \/ (Holders(p[1], p[2]) # {})'
                      \/ p \in closing \/ p \in timers'
    BY DEF NoOrphanBrowser, InPool, InPoolNext
  <2>1. p[1] \in Replicas /\ p = <<p[1], p[2]>>
    BY DEF TypeOK
  <2>2. InPool(p[1], p[2]) => InPoolNext(p[1], p[2])
    BY DEF InPool, InPoolNext
  <2>3. Holders(p[1], p[2]) # {} => (Holders(p[1], p[2]) # {})'
    BY <2>1, HolderExists, HolderExistsNext DEF Moves
  <2>4. CASE p = Browser(h)
    <3>1. p[1] = h[1] /\ p[2] = handler'[h].b
      BY <2>4 DEF Browser, Moves
    <3> QED
      BY <2>1, <3>1, HolderExistsNext
  <2> QED
    BY <2>2, <2>3, <2>4 DEF BrowserInv, NoOrphanBrowser
<1> QED
  BY <1>1, <1>2, <1>3 DEF BrowserInv

\* The run ends with its browser gone, which it gives up with its entry.
LEMMA GoneAtEndKeeps ==
    ASSUME TypeOK, BrowserInv, NEW h \in Handlers,
           NEW p \in {"acking", "confirming", "retrying", "rejected"},
           Moves(h, p, NoBrowser), handler[h].pc \in InUse, Browser(h) \notin alive,
           running' = [running EXCEPT ![h[1]][Test(h)] = NoBrowser],
           timers' = timers \ {Browser(h)}, UNCHANGED <<alive, closing, idle>>
    PROVE  BrowserInv'
<1>0. /\ h[1] \in Replicas /\ Test(h) \in Tests /\ p \notin HeldSteps
  BY HandlerInUse DEF InUse, Test, HeldSteps
<1>1. OnlyRunsHold' /\ HeldAlone'
  BY <1>0, OthersHold DEF Moves
<1>2. PoolSound'
  BY DEF BrowserInv, PoolSound
<1>3. HeldOutside'
  <2>1. ~InPool(h[1], NoBrowser)
    BY <1>0, ConstantsAssumption DEF InPool, TypeOK
  <2> QED
    BY <2>1 DEF BrowserInv, HeldOutside, InPool, Moves
<1>4. EntriesOwn'
  <2> SUFFICES ASSUME NEW r \in Replicas, NEW t \in Tests, running'[r][t] # NoBrowser
               PROVE  /\ ~InPoolNext(r, running'[r][t])
                      /\ \A g \in Handlers :
                            g[1] = r /\ handler'[g].b = running'[r][t] =>
                                handler'[g].t = t /\ handler'[g].pc \in InUse
    BY DEF EntriesOwn, InPool, InPoolNext, Of, Test
  <2>1. running'[r][t] = running[r][t]
    BY <1>0 DEF TypeOK
  <2>2. /\ ~InPool(r, running[r][t])
        /\ \A g \in Handlers :
              g[1] = r /\ handler[g].b = running[r][t] =>
                  handler[g].t = t /\ handler[g].pc \in InUse
    BY <2>1 DEF BrowserInv, EntriesOwn, Of, Test
  <2>3. ~InPoolNext(r, running'[r][t])
    BY <2>1, <2>2 DEF InPool, InPoolNext
  <2> QED
    BY <2>1, <2>2, <2>3 DEF Moves
<1>5. NoOrphanBrowser'
  <2> SUFFICES ASSUME NEW q \in alive
               PROVE  \/ InPoolNext(q[1], q[2]) \/ (Holders(q[1], q[2]) # {})'
                      \/ q \in closing \/ q \in timers'
    BY DEF NoOrphanBrowser, InPool, InPoolNext
  <2>1. q[1] \in Replicas /\ q = <<q[1], q[2]>> /\ q # Browser(h)
    BY DEF TypeOK
  <2>2. InPool(q[1], q[2]) => InPoolNext(q[1], q[2])
    BY DEF InPool, InPoolNext
  <2>3. ASSUME NEW g \in Handlers, g[1] = q[1], handler[g].b = q[2]
        PROVE  (Holders(q[1], q[2]) # {})'
    <3>1. g # h
      BY <2>1, <2>3 DEF Browser
    <3> QED
      BY <2>1, <2>3, <3>1, HolderExistsNext DEF Moves
  <2> QED
    BY <2>1, <2>2, <2>3, HolderExists DEF BrowserInv, NoOrphanBrowser
<1> QED
  BY <1>1, <1>2, <1>3, <1>4, <1>5 DEF BrowserInv

LEMMA EndKeeps ==
    ASSUME TypeOK, BrowserInv, NEW h \in Handlers, NEW ok \in BOOLEAN,
           End(h, ok), handler[h].pc \in InUse
    PROVE  BrowserInv'
<1>1. /\ running' = [running EXCEPT ![h[1]][Test(h)] = NoBrowser]
      /\ timers' = timers \ {Browser(h)} /\ UNCHANGED <<alive, closing, idle>>
  BY DEF End
<1>2. ASSUME NEW b, b = handler[h].b, Moves(h, "releasing", b)
      PROVE  BrowserInv'
  BY <1>1, <1>2, ReleasingKeeps
<1>3. ASSUME Browser(h) \notin alive, Resolve(h, ok)
      PROVE  BrowserInv'
  <2>1. PICK p \in {"acking", "confirming", "retrying", "rejected"} : Moves(h, p, NoBrowser)
    BY <1>3, ResolveMoves, TypeHasHandlers
  <2> QED
    BY <1>1, <1>3, <2>1, GoneAtEndKeeps
<1> QED
  BY <1>2, <1>3, EndMoves, TypeHasHandlers

\* release() hands the browser over to the idle list.
LEMMA PooledKeeps ==
    ASSUME TypeOK, TypeOK', BrowserInv, NEW h \in Handlers, NEW b \in Browsers,
           NEW p \in {"acking", "confirming", "retrying", "rejected"},
           b = handler[h].b, handler[h].pc = "releasing", Moves(h, p, NoBrowser),
           ~(Len(idle[h[1]]) >= Concurrency),
           idle' = [idle EXCEPT ![h[1]] = Append(@, b)],
           UNCHANGED <<running, alive, closing, timers>>
    PROVE  BrowserInv'
<1>0. h[1] \in Replicas /\ p \notin HeldSteps /\ b # NoBrowser
  BY HandlerInUse, ConstantsAssumption DEF HeldSteps
<1>1. OnlyRunsHold' /\ HeldAlone'
  BY <1>0, OthersHold DEF Moves
<1>2. /\ Len(idle[h[1]]) \in Nat /\ DOMAIN idle[h[1]] = 1..Len(idle[h[1]])
      /\ Len(idle'[h[1]]) = Len(idle[h[1]]) + 1
      /\ DOMAIN idle'[h[1]] = 1..(Len(idle[h[1]]) + 1)
      /\ \A i \in 1..Len(idle[h[1]]) : idle'[h[1]][i] = idle[h[1]][i]
      /\ idle'[h[1]][Len(idle[h[1]]) + 1] = b
      /\ \A r \in Replicas \ {h[1]} : idle'[r] = idle[r]
  <2>1. idle[h[1]] \in Seq(Browsers)
    BY <1>0 DEF TypeOK
  <2>2. idle'[h[1]] = Append(idle[h[1]], b) /\ \A r \in Replicas \ {h[1]} : idle'[r] = idle[r]
    BY <1>0 DEF TypeOK
  <2>3. /\ Len(Append(idle[h[1]], b)) = Len(idle[h[1]]) + 1
        /\ Append(idle[h[1]], b) \in Seq(Browsers)
        /\ \A i \in 1..Len(idle[h[1]]) : Append(idle[h[1]], b)[i] = idle[h[1]][i]
        /\ Append(idle[h[1]], b)[Len(idle[h[1]]) + 1] = b
    BY <2>1, AppendProperties
  <2> QED
    BY <2>1, <2>2, <2>3
<1>3. \A r \in Replicas : \A c : InPoolNext(r, c) <=> InPool(r, c) \/ (r = h[1] /\ c = b)
  <2> SUFFICES ASSUME NEW r \in Replicas, NEW c
               PROVE  InPoolNext(r, c) <=> InPool(r, c) \/ (r = h[1] /\ c = b)
    OBVIOUS
  <2>1. CASE r = h[1]
    <3>1. Len(idle[h[1]]) + 1 \in 1..(Len(idle[h[1]]) + 1)
      BY <1>2
    <3>2. \A i : i \in 1..(Len(idle[h[1]]) + 1) <=>
                    i \in 1..Len(idle[h[1]]) \/ i = Len(idle[h[1]]) + 1
      BY <1>2
    <3>3. InPoolNext(r, c) <=> \E i \in 1..(Len(idle[h[1]]) + 1) : idle'[h[1]][i] = c
      BY <1>2, <2>1 DEF InPoolNext
    <3>4. InPool(r, c) <=> \E i \in 1..Len(idle[h[1]]) : idle[h[1]][i] = c
      BY <1>2, <2>1 DEF InPool
    <3>5. \A i \in 1..Len(idle[h[1]]) : idle'[h[1]][i] = idle[h[1]][i]
      BY <1>2
    <3>6. idle'[h[1]][Len(idle[h[1]]) + 1] = b
      BY <1>2
    <3> QED
      BY <2>1, <3>1, <3>2, <3>3, <3>4, <3>5, <3>6
  <2>2. CASE r # h[1]
    <3>1. idle'[r] = idle[r]
      BY <1>2, <2>2
    <3> QED
      BY <2>2, <3>1 DEF InPool, InPoolNext
  <2> QED
    BY <2>1, <2>2
<1>4. ~InPool(h[1], b) /\ \A r \in Replicas : ~InPoolNext(r, NoBrowser)
  BY <1>0, ConstantsAssumption DEF BrowserInv, HeldOutside, InPoolNext, TypeOK
<1>5. PoolSound'
  <2> SUFFICES ASSUME NEW r \in Replicas
               PROVE  /\ Len(idle'[r]) <= Concurrency
                      /\ \A i, j \in DOMAIN idle'[r] : i # j => idle'[r][i] # idle'[r][j]
    BY DEF PoolSound
  <2>1. CASE r = h[1]
    <3>1. Len(idle'[r]) <= Concurrency
      BY <1>2, <2>1, ConstantsAssumption
    <3>2. \A i, j \in 1..Len(idle[r]) : i # j => idle[r][i] # idle[r][j]
      BY <1>2, <2>1 DEF BrowserInv, PoolSound
    <3>3. \A i \in 1..Len(idle[r]) : idle[r][i] # b
      BY <1>2, <1>4, <2>1 DEF InPool
    <3>4. \A i : i \in 1..(Len(idle[r]) + 1) <=> i \in 1..Len(idle[r]) \/ i = Len(idle[r]) + 1
      BY <1>2, <2>1
    <3> QED
      BY <1>2, <2>1, <3>1, <3>2, <3>3, <3>4
  <2>2. CASE r # h[1]
    BY <1>2, <2>2 DEF BrowserInv, PoolSound
  <2> QED
    BY <2>1, <2>2
<1>6. HeldOutside'
  <2> SUFFICES ASSUME NEW g \in Handlers PROVE ~InPoolNext(g[1], handler'[g].b)
    BY DEF HeldOutside, InPool, InPoolNext
  <2>1. CASE g = h
    BY <1>0, <1>4, <2>1 DEF Moves
  <2>2. CASE g # h
    <3>1. handler'[g].b = handler[g].b /\ ~InPool(g[1], handler[g].b) /\ g[1] \in Replicas
      BY <2>2, HandlerInUse DEF BrowserInv, HeldOutside, Moves
    <3>2. g[1] = h[1] => handler[g].b # b
      BY <1>0, <2>2 DEF BrowserInv, HeldAlone
    <3> QED
      BY <1>3, <3>1, <3>2
  <2> QED
    BY <2>1, <2>2
<1>7. EntriesOwn'
  <2> SUFFICES ASSUME NEW r \in Replicas, NEW t \in Tests, running[r][t] # NoBrowser
               PROVE  /\ ~InPoolNext(r, running[r][t])
                      /\ \A g \in Handlers :
                            g[1] = r /\ handler'[g].b = running[r][t] =>
                                handler'[g].t = t /\ handler'[g].pc \in InUse
    BY DEF EntriesOwn, InPool, InPoolNext, Of, Test
  <2>1. /\ ~InPool(r, running[r][t])
        /\ \A g \in Handlers :
              g[1] = r /\ handler[g].b = running[r][t] =>
                  handler[g].t = t /\ handler[g].pc \in InUse
    BY DEF BrowserInv, EntriesOwn, Of, Test
  <2>2. r = h[1] => running[r][t] # b
    BY <2>1 DEF InUse
  <2> QED
    BY <1>3, <2>1, <2>2 DEF Moves
<1>8. NoOrphanBrowser'
  <2> SUFFICES ASSUME NEW q \in alive
               PROVE  \/ InPoolNext(q[1], q[2]) \/ (Holders(q[1], q[2]) # {})'
                      \/ q \in closing \/ q \in timers
    BY DEF NoOrphanBrowser, InPool, InPoolNext
  <2>1. q[1] \in Replicas /\ q = <<q[1], q[2]>>
    BY DEF TypeOK
  <2>2. ASSUME NEW g \in Handlers, g[1] = q[1], handler[g].b = q[2]
        PROVE  InPoolNext(q[1], q[2]) \/ (Holders(q[1], q[2]) # {})'
    <3>1. CASE g = h
      BY <1>3, <2>1, <2>2, <3>1
    <3>2. CASE g # h
      BY <2>1, <2>2, <3>2, HolderExistsNext DEF Moves
    <3> QED
      BY <3>1, <3>2
  <2>3. Holders(q[1], q[2]) # {} => InPoolNext(q[1], q[2]) \/ (Holders(q[1], q[2]) # {})'
    BY <2>1, <2>2, HolderExists
  <2>4. InPool(q[1], q[2]) => InPoolNext(q[1], q[2])
    BY <1>3, <2>1
  <2> QED
    BY <2>3, <2>4 DEF BrowserInv, NoOrphanBrowser
<1> QED
  BY <1>1, <1>5, <1>6, <1>7, <1>8 DEF BrowserInv

\* A process ends with its handlers, its memory and its browsers.
LEMMA StopKeeps ==
    ASSUME TypeOK, BrowserInv, NEW r \in Replicas, StopProcess(r)
    PROVE  BrowserInv'
<1>1. /\ \A h \in Handlers : handler'[h] = IF h[1] = r THEN IdleHandler ELSE handler[h]
      /\ \A q \in Replicas : idle'[q] = IF q = r THEN <<>> ELSE idle[q]
      /\ \A q \in Replicas, t \in Tests :
            running'[q][t] = IF q = r THEN NoBrowser ELSE running[q][t]
      /\ alive' = {p \in alive : p[1] # r} /\ closing' = {p \in closing : p[1] # r}
      /\ timers' = {p \in timers : p[1] # r}
  BY DEF StopProcess, TypeOK
<1>2. OnlyRunsHold' /\ HeldAlone'
  BY <1>1, IdleTypes DEF BrowserInv, OnlyRunsHold, HeldAlone, HeldSteps
<1>3. PoolSound'
  BY <1>1, ConstantsAssumption DEF BrowserInv, PoolSound
<1>4. \A q \in Replicas : \A c : InPoolNext(q, c) <=> InPool(q, c) /\ q # r
  BY <1>1 DEF InPool, InPoolNext
<1>5. HeldOutside'
  <2> SUFFICES ASSUME NEW g \in Handlers PROVE ~InPoolNext(g[1], handler'[g].b)
    BY DEF HeldOutside, InPool, InPoolNext
  <2> QED
    BY <1>1, <1>4, HandlerInUse DEF BrowserInv, HeldOutside
<1>6. EntriesOwn'
  <2> SUFFICES ASSUME NEW q \in Replicas, NEW t \in Tests, running'[q][t] # NoBrowser
               PROVE  /\ ~InPoolNext(q, running'[q][t])
                      /\ \A g \in Handlers :
                            g[1] = q /\ handler'[g].b = running'[q][t] =>
                                handler'[g].t = t /\ handler'[g].pc \in InUse
    BY DEF EntriesOwn, InPool, InPoolNext, Of, Test
  <2>1. q # r /\ running'[q][t] = running[q][t]
    BY <1>1
  <2>2. ~InPoolNext(q, running'[q][t])
    BY <1>4, <2>1 DEF BrowserInv, EntriesOwn
  <2> QED
    BY <1>1, <2>1, <2>2 DEF BrowserInv, EntriesOwn, Of, Test
<1>7. NoOrphanBrowser'
  <2> SUFFICES ASSUME NEW p \in alive'
               PROVE  \/ InPoolNext(p[1], p[2]) \/ (Holders(p[1], p[2]) # {})'
                      \/ p \in closing' \/ p \in timers'
    BY DEF NoOrphanBrowser, InPool, InPoolNext
  <2>1. p \in alive /\ p[1] # r /\ p[1] \in Replicas
    BY <1>1 DEF TypeOK
  <2>2. Holders(p[1], p[2]) # {} => (Holders(p[1], p[2]) # {})'
    BY <1>1, <2>1, HolderExists, HolderExistsNext
  <2> QED
    BY <1>1, <1>4, <2>1, <2>2 DEF BrowserInv, NoOrphanBrowser
<1> QED
  BY <1>2, <1>3, <1>5, <1>6, <1>7 DEF BrowserInv

LEMMA HandlersKept ==
    ASSUME TypeOK, BrowserInv, FewerBrowsers, UNCHANGED <<handler, idle, running>>
    PROVE  BrowserInv'
<1>1. SameHolders
  BY InUseAreHeld DEF SameHolders, BrowserInv, OnlyRunsHold
<1> QED
  BY <1>1, BrowsersKept

\* An invocation that has no browser goes on without one.
LEMMA NoneDropped ==
    ASSUME TypeOK, BrowserInv, NEW h \in Handlers, handler[h].pc \notin HeldSteps,
           \A g \in Handlers \ {h} : handler'[g] = handler[g],
           handler'[h].b = NoBrowser, handler'[h].pc \notin HeldSteps,
           UNCHANGED <<idle, running, alive, closing, timers>>
    PROVE  BrowserInv'
<1>1. Browser(h) \notin alive
  BY ConstantsAssumption DEF Browser, TypeOK, BrowserInv, OnlyRunsHold
<1> QED
  BY <1>1, BrowserDropped

LEMMA HandlerKeeps ==
    ASSUME TypeOK, TypeOK', BrowserInv, NEW h \in Handlers, HandlerStep(h)
    PROVE  BrowserInv'
<1>0. HandlersTyped
  BY TypeHasHandlers
<1> USE DEF outerVars, brokerVars, linkVars, memoryVars, browserVars
<1>a. ASSUME NEW p \in HeldSteps, NEW b, b = handler[h].b, Moves(h, p, b),
             handler[h].pc \in HeldSteps, handler[h].pc \in InUse => p \in InUse,
             FewerBrowsers, UNCHANGED <<idle, running>>
      PROVE  BrowserInv'
  <2>1. ASSUME NEW g \in Handlers, g # h, handler[g].b # NoBrowser
        PROVE  handler[g].pc \in HeldSteps
    BY <2>1 DEF BrowserInv, OnlyRunsHold
  <2>2. SameHolders
    BY <1>a, <2>1 DEF SameHolders, Moves, Test
  <2> QED
    BY <1>a, <2>2, BrowsersKept
<1>b. ASSUME NEW p \in {"acking", "confirming", "retrying", "rejected"}, Moves(h, p, NoBrowser)
      PROVE  /\ \A g \in Handlers \ {h} : handler'[g] = handler[g]
             /\ handler'[h].b = NoBrowser /\ handler'[h].pc \notin HeldSteps
  BY <1>b DEF Moves, HeldSteps
<1>c. Throw(h) => /\ \A g \in Handlers \ {h} : handler'[g] = handler[g]
                  /\ handler'[h].b = NoBrowser /\ handler'[h].pc \notin HeldSteps
  BY <1>0, <1>b, ThrowMoves
<1>1. CASE Launch(h)
  BY <1>1, LaunchKeeps
<1>2. CASE LaunchFails(h)
  <2>1. handler[h].pc \notin HeldSteps
    BY <1>2 DEF LaunchFails, At, HeldSteps
  <2> QED
    BY <1>2, <1>c, <2>1, NoneDropped DEF LaunchFails
<1>3. CASE Prepare(h)
  <2>1. UNCHANGED <<idle, running, alive, closing, timers>> /\ handler[h].pc = "preparing"
    BY <1>3 DEF Prepare, At
  <2>2. FewerBrowsers
    BY <2>1 DEF FewerBrowsers
  <2>3. CASE Goto(h, "sessions")
    <3>1. PICK b : b = handler[h].b /\ Moves(h, "sessions", b)
      BY <1>0, <2>3, GotoMoves DEF Steps, HeldSteps
    <3> QED
      BY <1>a, <2>1, <2>2, <3>1 DEF HeldSteps, InUse
  <2>4. CASE Browser(h) \notin alive \ closing /\ Throw(h)
    BY <1>c, <2>1, <2>4, BrowserDropped
  <2> QED
    BY <1>3, <2>3, <2>4 DEF Prepare
<1>4. CASE Sample(h)
  <2>1. UNCHANGED <<idle, running, alive, closing, timers>> /\ handler[h].pc = "sessions"
    BY <1>4 DEF Sample, At
  <2>2. FewerBrowsers
    BY <2>1 DEF FewerBrowsers
  <2>3. PICK b : b = handler[h].b /\ Moves(h, "sampled", b)
    BY <1>0, <1>4, GotoMoves DEF Sample, Steps, HeldSteps
  <2> QED
    BY <1>a, <2>1, <2>2, <2>3 DEF HeldSteps, InUse
<1>5. CASE RunFails(h) \/ RunSucceeds(h)
  BY <1>5, EndKeeps DEF RunFails, RunSucceeds, At, InUse
<1>6. CASE Release(h)
  <2>1. /\ UNCHANGED <<running, alive, timers>> /\ handler[h].pc = "releasing"
        /\ handler[h].b \in Browsers /\ \E ok \in BOOLEAN : ok = handler[h].ok
    BY <1>6, HandlerInUse DEF Release, At, HeldSteps
  <2>2. CASE Len(idle[h[1]]) >= Concurrency
    <3>1. /\ Goto(h, "surplus") /\ closing' = closing \cup ({Browser(h)} \cap alive)
          /\ idle' = idle
      BY <1>6, <2>2 DEF Release
    <3>2. FewerBrowsers
      BY <2>1, <3>1 DEF FewerBrowsers
    <3>3. PICK b : b = handler[h].b /\ Moves(h, "surplus", b)
      BY <1>0, <3>1, GotoMoves DEF Steps, HeldSteps
    <3> QED
      BY <1>a, <2>1, <3>1, <3>2, <3>3 DEF HeldSteps, InUse
  <2>3. CASE ~(Len(idle[h[1]]) >= Concurrency)
    <3>1. PICK b \in Browsers : b = handler[h].b
      BY <2>1
    <3>2. PICK ok \in BOOLEAN : ok = handler[h].ok
      BY <2>1
    <3>3. /\ Resolve(h, ok) /\ UNCHANGED closing
          /\ idle' = [idle EXCEPT ![h[1]] = Append(@, b)]
      BY <1>6, <2>3, <3>1, <3>2 DEF Release
    <3>4. PICK p \in {"acking", "confirming", "retrying", "rejected"} : Moves(h, p, NoBrowser)
      BY <1>0, <3>3, ResolveMoves
    <3> QED
      BY <2>1, <2>3, <3>1, <3>3, <3>4, PooledKeeps
  <2> QED
    BY <2>2, <2>3
<1>7. CASE SurplusClosed(h)
  <2>1. PICK ok \in BOOLEAN : ok = handler[h].ok
    BY HandlerInUse
  <2>2. /\ Resolve(h, ok) /\ Browser(h) \notin alive
        /\ UNCHANGED <<idle, running, alive, closing, timers>>
    BY <1>7, <2>1 DEF SurplusClosed
  <2>3. PICK p \in {"acking", "confirming", "retrying", "rejected"} : Moves(h, p, NoBrowser)
    BY <1>0, <2>2, ResolveMoves
  <2> QED
    BY <1>b, <2>2, <2>3, BrowserDropped
<1>8. CASE Confirm(h) \/ ConfirmFails(h)
  <2>1. /\ handler[h].pc = "confirming" /\ handler[h].pc \notin HeldSteps
        /\ handler[h].b = NoBrowser
        /\ UNCHANGED <<idle, running, alive, closing, timers>>
    BY <1>8 DEF Confirm, ConfirmFails, At, HeldSteps, BrowserInv, OnlyRunsHold
  <2>2. CASE Goto(h, "acking")
    <3>1. PICK b : b = handler[h].b /\ Moves(h, "acking", b)
      BY <1>0, <2>2, GotoMoves DEF Steps, SentSteps
    <3> QED
      BY <1>b, <2>1, <3>1, NoneDropped
  <2>3. CASE Throw(h)
    BY <1>c, <2>1, <2>3, NoneDropped
  <2> QED
    BY <1>8, <2>2, <2>3 DEF Confirm, ConfirmFails
<1>9. CASE FramesRead(h)
  <2>1. /\ handler[h].pc \notin HeldSteps
        /\ UNCHANGED <<idle, running, alive, closing, timers>>
        /\ handler' = [handler EXCEPT ![h] = IdleHandler]
    BY <1>9 DEF FramesRead, HeldSteps, SentSteps
  <2>2. /\ \A g \in Handlers \ {h} : handler'[g] = handler[g]
        /\ handler'[h].b = NoBrowser /\ handler'[h].pc \notin HeldSteps
    BY <1>0, <2>1, IdleTypes DEF HandlersTyped, HeldSteps
  <2> QED
    BY <2>1, <2>2, NoneDropped
<1> QED
  BY <1>1, <1>2, <1>3, <1>4, <1>5, <1>6, <1>7, <1>8, <1>9 DEF HandlerStep

\* A channel ends under the runs; they keep their browsers.
LEMMA SeveredKeeps ==
    ASSUME TypeOK, BrowserInv, NEW r \in Replicas, handler' = Severed(r),
           UNCHANGED <<running, alive, closing, idle, timers>>
    PROVE  BrowserInv'
<1>1. SameHolders
  <2> SUFFICES ASSUME NEW h \in Handlers
               PROVE  /\ handler'[h].b = handler[h].b
                      /\ handler[h].b # NoBrowser =>
                            /\ handler'[h].t = handler[h].t
                            /\ handler'[h].pc \in HeldSteps
                            /\ handler[h].pc \in InUse => handler'[h].pc \in InUse
    BY DEF SameHolders
  <2>1. handler[h].pc \in SentSteps => handler[h].b = NoBrowser
    BY DEF BrowserInv, OnlyRunsHold, SentSteps, HeldSteps
  <2>2. handler[h].b # NoBrowser => handler[h].pc \in HeldSteps
    BY DEF BrowserInv, OnlyRunsHold
  <2> QED
    BY <2>1, <2>2, SeveredTypes, IdleTypes
<1>2. FewerBrowsers
  BY DEF FewerBrowsers
<1> QED
  BY <1>1, <1>2, BrowsersKept

LEMMA ReplicaKeeps ==
    ASSUME TypeOK, BrowserInv, NEW r \in Replicas,
           \/ \E t \in Tests : ReceiveCancel(r, t)
           \/ \E b \in Browsers : TimerFires(r, b) \/ BrowserGone(r, b) \/ CancelClosed(r, b)
           \/ Disconnect(r) \/ Reconnect(r) \/ Crash(r) \/ Die(r)
           \/ Shutdown(r) \/ Drained(r) \/ Exit(r)
    PROVE  BrowserInv'
<1> USE DEF outerVars, brokerVars, linkVars, memoryVars, browserVars
<1>1. ASSUME NEW t \in Tests, ReceiveCancel(r, t)
      PROVE  BrowserInv'
  <2>1. FewerBrowsers
    BY <1>1 DEF ReceiveCancel, FewerBrowsers
  <2> QED
    BY <1>1, <2>1, HandlersKept DEF ReceiveCancel
<1>2. ASSUME NEW b \in Browsers, TimerFires(r, b)
      PROVE  BrowserInv'
  <2>1. FewerBrowsers
    BY <1>2 DEF TimerFires, FewerBrowsers
  <2> QED
    BY <1>2, <2>1, HandlersKept DEF TimerFires
<1>3. ASSUME NEW b \in Browsers, BrowserGone(r, b)
      PROVE  BrowserInv'
  <2>1. FewerBrowsers
    BY <1>3 DEF BrowserGone, FewerBrowsers
  <2> QED
    BY <1>3, <2>1, HandlersKept DEF BrowserGone
<1>4. ASSUME NEW b \in Browsers, CancelClosed(r, b)
      PROVE  BrowserInv'
  <2>1. CASE StopProcess(r)
    BY <2>1, StopKeeps
  <2>2. CASE ~StopProcess(r)
    <3>1. UNCHANGED <<handler, idle, running, alive, closing, timers>>
      BY <1>4, <2>2 DEF CancelClosed
    <3>2. FewerBrowsers
      BY <3>1 DEF FewerBrowsers
    <3> QED
      BY <3>1, <3>2, HandlersKept
  <2> QED
    BY <2>1, <2>2
<1>5. CASE Disconnect(r)
  BY <1>5, SeveredKeeps DEF Disconnect
<1>6. CASE Reconnect(r) \/ Shutdown(r)
  <2>1. UNCHANGED <<handler, idle, running, alive, closing, timers>>
    BY <1>6 DEF Reconnect, Shutdown
  <2>2. FewerBrowsers
    BY <2>1 DEF FewerBrowsers
  <2> QED
    BY <2>1, <2>2, HandlersKept
<1>7. CASE Crash(r) \/ Die(r) \/ Exit(r)
  BY <1>7, StopKeeps DEF Crash, Die, Exit
<1>8. CASE Drained(r)
  <2>1. CASE Listening(r)
    BY <1>8, <2>1, SeveredKeeps DEF Drained
  <2>2. CASE ~Listening(r)
    <3>1. UNCHANGED <<handler, idle, running, alive, closing, timers>>
      BY <1>8, <2>2 DEF Drained
    <3>2. FewerBrowsers
      BY <3>1 DEF FewerBrowsers
    <3> QED
      BY <3>1, <3>2, HandlersKept
  <2> QED
    BY <2>1, <2>2
<1> QED
  BY <1>1, <1>2, <1>3, <1>4, <1>5, <1>6, <1>7, <1>8

LEMMA BrowserInit == Init => BrowserInv
<1> SUFFICES ASSUME Init PROVE BrowserInv
  OBVIOUS
<1>1. /\ \A h \in Handlers : handler[h].pc = "idle" /\ handler[h].b = NoBrowser
      /\ \A r \in Replicas : idle[r] = <<>> /\ \A t \in Tests : running[r][t] = NoBrowser
      /\ alive = {}
  BY IdleTypes DEF Init
<1>2. \A r \in Replicas : \A b : ~InPool(r, b)
  BY <1>1 DEF InPool
<1>3. OnlyRunsHold /\ HeldAlone /\ EntriesOwn /\ NoOrphanBrowser
  BY <1>1 DEF OnlyRunsHold, HeldAlone, EntriesOwn, NoOrphanBrowser
<1>4. HeldOutside
  BY <1>2 DEF HeldOutside, Handlers
<1>5. PoolSound
  BY <1>1, ConstantsAssumption DEF PoolSound
<1> QED
  BY <1>3, <1>4, <1>5 DEF BrowserInv

LEMMA BrowserStep == TypeOK /\ TypeOK' /\ BrowserInv /\ [Next]_vars => BrowserInv'
<1> SUFFICES ASSUME TypeOK, TypeOK', BrowserInv, [Next]_vars PROVE BrowserInv'
  OBVIOUS
<1>1. CASE \/ UNCHANGED vars
           \/ \E t \in Tests : Submit(t) \/ Cancel(t) \/ StoreResult(t)
  <2>1. UNCHANGED <<handler, idle, running, alive, closing, timers>>
    BY <1>1 DEF vars, Submit, Cancel, StoreResult, outerVars, brokerVars, linkVars,
                memoryVars, browserVars
  <2>2. FewerBrowsers
    BY <2>1 DEF FewerBrowsers
  <2> QED
    BY <2>1, <2>2, HandlersKept
<1>2. CASE Next
  BY <1>1, <1>2, HandlerKeeps, DeliverKeeps, ReplicaKeeps DEF Next, Deliveries
<1> QED
  BY <1>1, <1>2

LEMMA BrowserCorrect == Spec => []BrowserInv
<1>1. TypeOK /\ BrowserInv /\ [Next]_vars => BrowserInv'
  BY TypeStep, BrowserStep
<1> QED
  BY <1>1, BrowserInit, TypeCorrect, PTL DEF Spec

\* A pooled browser is checked out to one run at a time, never while it is
\* still in the idle list, and the list never holds one twice or more than
\* WORKER_CONCURRENCY of them (browserPool.ts 7-13, 33).
THEOREM ExclusiveCorrect == Spec => []BrowsersExclusive
<1>1. TypeOK /\ BrowserInv => BrowsersExclusive
  <2> SUFFICES ASSUME TypeOK, BrowserInv, NEW r \in Replicas, NEW b \in Browsers
               PROVE  /\ Cardinality(Holders(r, b)) <= 1
                      /\ InPool(r, b) => Holders(r, b) = {}
    BY DEF BrowsersExclusive, BrowserInv, PoolSound
  <2> DEFINE H == Holders(r, b)
  <2>1. \A g, h \in H : g = h
    BY ConstantsAssumption DEF Holders, Of, BrowserInv, HeldAlone
  <2>2. InPool(r, b) => H = {}
    BY DEF Holders, Of, BrowserInv, HeldOutside
  <2> HIDE DEF H
  <2>3. Cardinality(H) <= 1
    <3>1. CASE H = {}
      BY <3>1, FS_EmptySet
    <3>2. CASE H # {}
      <4>1. PICK h \in H : TRUE
        BY <3>2
      <4>2. H = {h}
        BY <2>1, <4>1
      <4>3. Cardinality({h}) = 1
        BY FS_Singleton
      <4> QED
        BY <4>2, <4>3
    <3> QED
      BY <3>1, <3>2
  <2> QED
    BY <2>2, <2>3 DEF H
<1> QED
  BY <1>1, TypeCorrect, BrowserCorrect, PTL

\* Every live Chrome process is idle, in use, told to close, or under a kill
\* timer (runner.ts 142-165, 411-416).
THEOREM NoOrphanCorrect == Spec => []NoOrphanBrowser
<1>1. BrowserInv => NoOrphanBrowser
  BY DEF BrowserInv
<1> QED
  BY <1>1, BrowserCorrect, PTL

\* A runningBrowsers entry names a browser of its own test or one that nobody
\* works with: a cancel never closes another test's (index.ts 147-150).
THEOREM CancelHitsCorrect == Spec => []CancelHitsItsOwn
<1>1. BrowserInv => CancelHitsItsOwn
  BY DEF BrowserInv, EntriesOwn, CancelHitsItsOwn, Holders
<1> QED
  BY <1>1, BrowserCorrect, PTL

-----------------------------------------------------------------------------
(***************************************************************************)
(* What becomes of an accepted browser test and of a cancel: theorems      *)
(* about ClientWorker that follow the messages.                            *)
(***************************************************************************)

-----------------------------------------------------------------------------
(* What a step does with messages *)

\* h goes on with its delivery; it is acknowledged when its result has been
\* persisted, or for a flag, which it takes down.
GoesOn(h) ==
    /\ \A g \in Handlers \ {h} : handler'[g] = handler[g]
    /\ handler[h].pc \notin {"idle", "acking"} /\ handler'[h].pc # "idle"
    /\ handler'[h].t = handler[h].t /\ handler'[h].k = handler[h].k
    /\ handler'[h].live = handler[h].live
    /\ handler'[h].pc = "rejected" => ~handler[h].live
    /\ \/ /\ UNCHANGED flags
          /\ handler'[h].pc = "acking" =>
                results'[Test(h)] > 0 \/ Test(h) \in flags[h[1]]
       \/ /\ Test(h) \in flags[h[1]]
          /\ flags' = [flags EXCEPT ![h[1]] = @ \ {Test(h)}]
          /\ handler'[h].pc = "acking" \/ ~handler[h].live
    /\ \A t \in Tests : results'[t] >= results[t]
    /\ UNCHANGED <<outerVars, queue, dead, linkVars, cancelAcks, faults>>

LEMMA ResolveGoesOn ==
    ASSUME TypeOK, NEW h \in Handlers, NEW ok \in BOOLEAN, Resolve(h, ok),
           handler[h].pc \notin {"idle", "acking"},
           UNCHANGED <<outerVars, queue, dead, results, linkVars, cancelAcks, faults>>
    PROVE  GoesOn(h)
<1>0. HandlersTyped /\ \A t \in Tests : results'[t] >= results[t]
  BY TypeHasHandlers DEF TypeOK
<1>1. PICK p \in {"acking", "confirming", "retrying", "rejected"} :
         /\ Moves(h, p, NoBrowser)
         /\ p = "acking" => Test(h) \in flags[h[1]]
         /\ p # "acking" => UNCHANGED flags \/ ~handler[h].live
         /\ p # "rejected" <=> handler[h].live
         /\ \/ UNCHANGED flags
            \/ flags' = [flags EXCEPT ![h[1]] = @ \ {Test(h)}]
  BY <1>0, ResolveMoves
<1>2. UNCHANGED flags \/ Test(h) \in flags[h[1]]
  BY DEF Resolve
<1> QED
  BY <1>0, <1>1, <1>2 DEF GoesOn, Moves, Test

LEMMA ThrowGoesOn ==
    ASSUME TypeOK, NEW h \in Handlers, Throw(h), handler[h].pc \notin {"idle", "acking"},
           \A t \in Tests : results'[t] >= results[t],
           UNCHANGED <<outerVars, queue, dead, linkVars, flags, cancelAcks, faults>>
    PROVE  GoesOn(h)
<1>1. PICK p \in {"retrying", "rejected"} : p = Thrown(h) /\ Moves(h, p, NoBrowser)
  BY ThrowMoves, TypeHasHandlers
<1> QED
  BY <1>1 DEF GoesOn, Moves, Thrown, Test

LEMMA GotoGoesOn ==
    ASSUME TypeOK, NEW h \in Handlers, NEW p \in Steps, Goto(h, p),
           handler[h].pc \notin {"idle", "acking"}, p # "rejected",
           p = "acking" => results'[Test(h)] > 0,
           \A t \in Tests : results'[t] >= results[t],
           UNCHANGED <<outerVars, queue, dead, linkVars, flags, cancelAcks, faults>>
    PROVE  GoesOn(h)
<1>1. PICK b : Moves(h, p, b)
  BY GotoMoves, TypeHasHandlers
<1>2. p # "idle"
  BY DEF Steps, HeldSteps, SentSteps
<1> QED
  BY <1>1, <1>2 DEF GoesOn, Moves, Test

LEMMA HandlerGoesOn ==
    ASSUME TypeOK, NEW h \in Handlers, HandlerStep(h), ~FramesRead(h)
    PROVE  GoesOn(h)
<1> USE DEF outerVars, brokerVars, linkVars, memoryVars, browserVars
<1>0. HandlersTyped /\ \A t \in Tests : results[t] >= results[t]
  BY TypeHasHandlers DEF TypeOK
<1>1. CASE Launch(h)
  <2>1. PICK b \in Browsers : b \in Unused(h[1]) /\ b = CHOOSE c \in Unused(h[1]) : TRUE
    BY <1>1 DEF Launch, Unused
  <2>2. PICK run \in HandlerState : run = handler[h]
    BY DEF TypeOK
  <2>3. run.t \in Tests
    BY <1>1, <2>2, HandlerInUse DEF Launch, At
  <2>4. CheckOut(h, b, run)
    BY <1>1, <2>1, <2>2 DEF Launch, CheckOut
  <2>5. /\ \A g \in Handlers \ {h} : handler'[g] = handler[g]
        /\ handler'[h].pc = "preparing"
        /\ handler'[h].t = run.t /\ handler'[h].k = run.k /\ handler'[h].live = run.live
    BY <1>0, <2>3, <2>4, CheckOutMoves
  <2>6. UNCHANGED <<accepted, cancels, stored, queue, dead, results, link, leaving, signals,
                    flags, cancelAcks, faults>> /\ handler[h].pc = "launching"
    BY <1>1 DEF Launch, At
  <2> QED
    BY <1>0, <2>2, <2>5, <2>6 DEF GoesOn
<1>2. CASE LaunchFails(h)
  BY <1>0, <1>2, ThrowGoesOn DEF LaunchFails, At
<1>3. CASE Prepare(h)
  <2>1. CASE Throw(h)
    BY <1>0, <1>3, <2>1, ThrowGoesOn DEF Prepare, At
  <2>2. CASE Goto(h, "sessions")
    BY <1>0, <1>3, <2>2, GotoGoesOn DEF Prepare, At, Steps, HeldSteps
  <2> QED
    BY <1>3, <2>1, <2>2 DEF Prepare
<1>4. CASE Sample(h)
  BY <1>0, <1>4, GotoGoesOn DEF Sample, At, Steps, HeldSteps
<1>5. ASSUME NEW ok \in BOOLEAN, End(h, ok), handler[h].pc \in {"sessions", "sampled"}
      PROVE  GoesOn(h)
  <2>1. CASE Resolve(h, ok)
    BY <1>5, <2>1, ResolveGoesOn DEF End
  <2>2. CASE UNCHANGED flags /\ \E b : b = handler[h].b /\ Moves(h, "releasing", b)
    BY <1>0, <1>5, <2>2 DEF End, GoesOn, Moves, Test
  <2> QED
    BY <1>0, <1>5, <2>1, <2>2, EndMoves
<1>6. CASE RunFails(h) \/ RunSucceeds(h)
  BY <1>5, <1>6 DEF RunFails, RunSucceeds, At
<1>7. CASE Release(h)
  <2>1. PICK ok \in BOOLEAN : ok = handler[h].ok
    BY HandlerInUse
  <2>2. /\ (Goto(h, "surplus") /\ UNCHANGED flags) \/ Resolve(h, ok)
        /\ handler[h].pc = "releasing"
        /\ UNCHANGED <<outerVars, queue, dead, results, linkVars, cancelAcks, faults>>
    BY <1>7, <2>1 DEF Release, At
  <2> QED
    BY <1>0, <2>2, GotoGoesOn, ResolveGoesOn DEF Steps, HeldSteps
<1>8. CASE SurplusClosed(h)
  <2>1. PICK ok \in BOOLEAN : ok = handler[h].ok
    BY HandlerInUse
  <2> QED
    BY <1>8, <2>1, ResolveGoesOn DEF SurplusClosed, At
<1>9. CASE Confirm(h) \/ ConfirmFails(h)
  <2>1. handler[h].pc = "confirming" /\ Test(h) \in Tests
    BY <1>9, HandlerInUse DEF Confirm, ConfirmFails, At, Test
  <2>2. PICK t \in Tests : t = Test(h)
    BY <2>1
  <2>3. /\ results' \in {results, [results EXCEPT ![t] = @ + 1]}
        /\ Confirm(h) => results' = [results EXCEPT ![t] = @ + 1]
    BY <1>9, <2>2 DEF Confirm, ConfirmFails
  <2>4. /\ \A u \in Tests : results'[u] >= results[u]
        /\ Confirm(h) => results'[Test(h)] > 0
    <3>1. \A u \in Tests : results[u] \in Nat
      BY DEF TypeOK
    <3>2. /\ \A u \in Tests : results'[u] = results[u] \/ results'[u] = results[u] + 1
          /\ Confirm(h) => results'[t] = results[t] + 1
      BY <2>3 DEF TypeOK
    <3>3. Confirm(h) => results'[t] > 0
      BY <3>1, <3>2
    <3> QED
      BY <2>2, <3>1, <3>2, <3>3
  <2>5. CASE Confirm(h)
    BY <2>1, <2>4, <2>5, GotoGoesOn DEF Confirm, Steps, SentSteps
  <2>6. CASE ConfirmFails(h)
    BY <2>1, <2>4, <2>6, ThrowGoesOn DEF ConfirmFails
  <2> QED
    BY <1>9, <2>5, <2>6
<1> QED
  BY <1>1, <1>2, <1>3, <1>4, <1>6, <1>7, <1>8, <1>9 DEF HandlerStep

\* One invocation more or less in a count.
LEMMA CountOne ==
    ASSUME NEW h \in Handlers, NEW S \in SUBSET {h}
    PROVE  Cardinality(S) = IF h \in S THEN 1 ELSE 0
<1>1. CASE h \in S
  <2>1. S = {h}
    BY <1>1
  <2>2. Cardinality({h}) = 1
    BY FS_Singleton
  <2> QED
    BY <1>1, <2>1, <2>2
<1>2. CASE h \notin S
  <2>1. S = {}
    BY <1>2
  <2> QED
    BY <1>2, <2>1, FS_EmptySet
<1> QED
  BY <1>1, <1>2

\* The frames of an invocation that is over: nothing is published for one that
\* is acknowledged, and one that is retried is queued again or buried.
LEMMA FramesReadSends ==
    ASSUME TypeOK, NEW h \in Handlers, FramesRead(h)
    PROVE  /\ \A g \in Handlers \ {h} : handler'[g] = handler[g]
           /\ handler'[h].pc = "idle" /\ Test(h) \in Tests
           /\ UNCHANGED <<outerVars, results, linkVars, flags, cancelAcks, faults>>
           /\ \/ /\ handler[h].pc = "acking"
                 /\ \A m \in Messages : queue'[m] = queue[m]
                 /\ \A t \in Tests : dead'[t] = dead[t]
              \/ /\ handler[h].pc = "retrying"
                 /\ \A m \in Messages :
                       queue'[m] = IF m = <<Test(h), handler[h].k + 1>>
                                   THEN queue[m] + 1 ELSE queue[m]
                 /\ \A t \in Tests : dead'[t] >= dead[t]
                 /\ handler[h].k = MaxRetries => dead'[Test(h)] > 0
<1>0. /\ \A m \in Messages : queue[m] \in Nat
      /\ \A t \in Tests : dead[t] \in Nat
  BY DEF TypeOK
<1>1. /\ \A g \in Handlers \ {h} : handler'[g] = handler[g]
      /\ handler'[h].pc = "idle" /\ Test(h) \in Tests
      /\ UNCHANGED <<outerVars, results, linkVars, flags, cancelAcks, faults>>
  BY IdleTypes, HandlerInUse DEF FramesRead, TypeOK, SentSteps, Test, memoryVars
<1> DEFINE R == {g \in {h} : At(g, "retrying")}
<1>2. queue' = Requeued(R) /\ dead' = Buried(R)
  BY DEF FramesRead
<1>3. h \in R <=> handler[h].pc = "retrying"
  BY DEF At
<1>4. R \in SUBSET {h}
  OBVIOUS
<1> HIDE DEF R
<1>5. ASSUME NEW m \in Messages
      PROVE  queue'[m] = IF h \in R /\ m = <<Test(h), handler[h].k + 1>>
                         THEN queue[m] + 1 ELSE queue[m]
  <2> DEFINE S == {g \in R : m = <<Test(g), handler[g].k + 1>>}
  <2>1. queue'[m] = queue[m] + Cardinality(S)
    BY <1>2 DEF Requeued
  <2>2. S \in SUBSET {h} /\ (h \in S <=> h \in R /\ m = <<Test(h), handler[h].k + 1>>)
    BY <1>4
  <2> HIDE DEF S
  <2>3. Cardinality(S) = IF h \in S THEN 1 ELSE 0
    BY <2>2, CountOne
  <2> QED
    BY <1>0, <2>1, <2>2, <2>3
<1>6. ASSUME NEW t \in Tests
      PROVE  dead'[t] = IF h \in R /\ Test(h) = t /\ handler[h].k = MaxRetries
                        THEN dead[t] + 1 ELSE dead[t]
  <2> DEFINE S == {g \in R : Test(g) = t /\ handler[g].k = MaxRetries}
  <2>1. dead'[t] = dead[t] + Cardinality(S)
    BY <1>2 DEF Buried
  <2>2. S \in SUBSET {h} /\ (h \in S <=> h \in R /\ Test(h) = t /\ handler[h].k = MaxRetries)
    BY <1>4
  <2> HIDE DEF S
  <2>3. Cardinality(S) = IF h \in S THEN 1 ELSE 0
    BY <2>2, CountOne
  <2> QED
    BY <1>0, <2>1, <2>2, <2>3
<1>7. CASE handler[h].pc = "acking"
  BY <1>1, <1>3, <1>5, <1>6, <1>7
<1>8. CASE handler[h].pc = "retrying"
  <2>1. \A m \in Messages :
           queue'[m] = IF m = <<Test(h), handler[h].k + 1>> THEN queue[m] + 1 ELSE queue[m]
    BY <1>3, <1>5, <1>8
  <2>2. \A t \in Tests : dead'[t] >= dead[t]
    BY <1>0, <1>6
  <2>3. handler[h].k = MaxRetries => dead'[Test(h)] > 0
    BY <1>0, <1>1, <1>3, <1>6, <1>8
  <2> QED
    BY <1>1, <1>8, <2>1, <2>2, <2>3
<1> QED
  BY <1>7, <1>8 DEF FramesRead, SentSteps

LEMMA CountAtLeast ==
    ASSUME NEW S \in SUBSET Handlers, NEW n \in Nat
    PROVE  /\ n + Cardinality(S) >= n
           /\ S # {} => n + Cardinality(S) > 0
<1>1. IsFiniteSet(S) /\ Cardinality(S) \in Nat
  BY HandlerCount
<1>2. Cardinality(S) = 0 <=> S = {}
  BY <1>1, FS_EmptySet
<1> QED
  BY <1>1, <1>2

\* When a channel ends no count falls, and what its replica held is queued.
LEMMA ChannelGivesBack ==
    ASSUME TypeOK, NEW r \in Replicas, NEW sent \in SUBSET Handlers,
           NEW kept \in SUBSET Handlers, ChannelEnds(r, sent, kept)
    PROVE  /\ \A m \in Messages : queue'[m] >= queue[m] /\ queue[m] \in Nat /\ queue'[m] \in Nat
           /\ \A t \in Tests : dead'[t] >= dead[t] /\ dead[t] \in Nat /\ dead'[t] \in Nat
           /\ \A t \in Tests : results'[t] >= results[t] /\ results[t] \in Nat
                               /\ results'[t] \in Nat
           /\ \A h \in Of(r) : Holds(h) => queue'[<<Test(h), handler[h].k>>] > 0
           /\ signals' = [signals EXCEPT ![r] = {}]
<1>0. /\ queue' \in [Messages -> Nat] /\ dead' \in [Tests -> Nat] /\ results' \in [Tests -> Nat]
      /\ queue \in [Messages -> Nat] /\ dead \in [Tests -> Nat] /\ results \in [Tests -> Nat]
  BY ChannelTypes DEF TypeOK
<1>1. ASSUME NEW m \in Messages
      PROVE  /\ queue'[m] >= queue[m]
             /\ \A h \in Of(r) : Holds(h) /\ m = <<Test(h), handler[h].k>> => queue'[m] > 0
  <2> DEFINE P == {h \in sent : m = <<Test(h), handler[h].k + 1>>}
             H == {h \in Of(r) : Holds(h) /\ m = <<Test(h), handler[h].k>>}
  <2>1. queue'[m] = queue[m] + Cardinality(P) + Cardinality(H)
    BY DEF ChannelEnds, Requeued
  <2>2. P \in SUBSET Handlers /\ H \in SUBSET Handlers
    BY DEF Of
  <2>3. \A h \in Of(r) : Holds(h) /\ m = <<Test(h), handler[h].k>> => H # {}
    OBVIOUS
  <2> HIDE DEF P, H
  <2>4. PICK n \in Nat : n = queue[m] + Cardinality(P) /\ n >= queue[m]
    BY <1>0, <2>2, HandlerCount, CountAtLeast
  <2>5. n + Cardinality(H) >= n /\ (H # {} => n + Cardinality(H) > 0)
    BY <2>2, CountAtLeast
  <2>6. queue'[m] = n + Cardinality(H) /\ queue[m] \in Nat /\ queue'[m] \in Nat
    BY <1>0, <2>1, <2>4
  <2> QED
    BY <2>3, <2>4, <2>5, <2>6
<1>2. ASSUME NEW t \in Tests
      PROVE  dead'[t] >= dead[t]
  <2> DEFINE P == {h \in sent : Test(h) = t /\ handler[h].k = MaxRetries}
  <2>1. dead'[t] = dead[t] + Cardinality(P)
    BY DEF ChannelEnds, Buried
  <2>2. P \in SUBSET Handlers
    OBVIOUS
  <2> HIDE DEF P
  <2> QED
    BY <1>0, <2>1, <2>2, CountAtLeast
<1>3. ASSUME NEW t \in Tests
      PROVE  results'[t] >= results[t]
  <2> DEFINE P == {h \in kept : Test(h) = t}
  <2>1. results'[t] = results[t] + Cardinality(P)
    BY DEF ChannelEnds
  <2>2. P \in SUBSET Handlers
    OBVIOUS
  <2> HIDE DEF P
  <2> QED
    BY <1>0, <2>1, <2>2, CountAtLeast
<1>4. \A h \in Of(r) : Holds(h) => <<Test(h), handler[h].k>> \in Messages
  BY HandlerInUse DEF Holds, Of, Messages, Test
<1> QED
  BY <1>0, <1>1, <1>2, <1>3, <1>4 DEF ChannelEnds

-----------------------------------------------------------------------------
(* No accepted test is lost *)

\* A cancel is told and remembered only of tests that a client cancelled.
CancelsKnown ==
    /\ cancels \subseteq accepted
    /\ \A r \in Replicas : signals[r] \subseteq cancels /\ flags[r] \subseteq cancels

\* Only a delivery whose test is cancelled, or has a result that the broker or
\* the store has, is acknowledged without being queued again.
AckedIsSettled ==
    \A h \in Handlers :
        handler[h].pc = "acking" =>
            \/ handler[h].t \in cancels \cup stored
            \/ results[handler[h].t] > 0

DeliveryInv == CancelsKnown /\ AckedIsSettled /\ NothingLost

Settled(t) == t \in cancels \/ results[t] > 0 \/ t \in stored \/ dead[t] > 0

LEMMA SettledOrCopied ==
    NothingLost <=> \A t \in accepted : Settled(t) \/ HasCopies(t)
BY DEF NothingLost, Settled

LEMMA TestsCounted ==
    TypeOK => /\ \A t \in Tests : results[t] \in Nat /\ dead[t] \in Nat
              /\ \A m \in Messages : queue[m] \in Nat
BY DEF TypeOK

LEMMA DeliveryOuter ==
    ASSUME TypeOK, TypeOK', DeliveryInv, NEW t \in Tests, Submit(t) \/ Cancel(t) \/ StoreResult(t)
    PROVE  DeliveryInv'
<1> USE DEF outerVars, brokerVars, linkVars, memoryVars, browserVars
<1>0. /\ \A u \in Tests : results[u] \in Nat /\ dead[u] \in Nat
      /\ \A m \in Messages : queue[m] \in Nat
      /\ \A h \in Handlers : handler[h].pc = "acking" => handler[h].t \in Tests
      /\ <<t, 0>> \in Messages /\ 0 \in 0..MaxRetries
  BY TestsCounted, HandlerInUse, ConstantsAssumption DEF Messages
<1>1. CASE Submit(t)
  <2>1. CancelsKnown' /\ AckedIsSettled'
    BY <1>1 DEF Submit, DeliveryInv, CancelsKnown, AckedIsSettled
  <2>2. ASSUME NEW u \in accepted'
        PROVE  Settled(u)' \/ HasCopies(u)'
    <3>1. /\ \A m \in Messages : queue'[m] = IF m = <<t, 0>> THEN queue[m] + 1 ELSE queue[m]
          /\ handler' = handler
      BY <1>1 DEF Submit, TypeOK
    <3>2. CASE u = t
      <4>1. queue'[<<t, 0>>] > 0
        BY <1>0, <3>1
      <4> QED
        BY <1>0, <3>2, <4>1 DEF HasCopies
    <3>3. CASE u # t
      <4>1. u \in accepted /\ \A k \in 0..MaxRetries : queue'[<<u, k>>] = queue[<<u, k>>]
        BY <1>1, <3>1, <3>3 DEF Submit, Messages, TypeOK
      <4>2. Settled(u)' <=> Settled(u)
        BY <1>1 DEF Submit, Settled
      <4> QED
        BY <3>1, <4>1, <4>2, SettledOrCopied DEF DeliveryInv, HasCopies, Test, Holds
    <3> QED
      BY <3>2, <3>3
  <2>3. NothingLost'
    BY <2>2 DEF NothingLost, Settled
  <2> QED
    BY <2>1, <2>3 DEF DeliveryInv
<1>2. CASE Cancel(t)
  <2>1. /\ cancels' = cancels \cup {t} /\ t \in accepted
        /\ UNCHANGED <<accepted, stored, queue, dead, results, handler, flags>>
        /\ \A r \in Replicas : signals'[r] \subseteq signals[r] \cup {t}
    BY <1>2 DEF Cancel
  <2>2. CancelsKnown' /\ AckedIsSettled'
    BY <2>1 DEF DeliveryInv, CancelsKnown, AckedIsSettled
  <2>3. NothingLost'
    BY <2>1 DEF DeliveryInv, NothingLost, HasCopies, Test, Holds
  <2> QED
    BY <2>2, <2>3 DEF DeliveryInv
<1>3. CASE StoreResult(t)
  <2>1. /\ stored' = stored \cup {t} /\ \A u \in Tests : u # t => results'[u] = results[u]
        /\ UNCHANGED <<accepted, cancels, queue, dead, handler, flags, signals>>
    BY <1>3 DEF StoreResult, TypeOK
  <2>2. CancelsKnown' /\ AckedIsSettled'
    BY <1>0, <2>1 DEF DeliveryInv, CancelsKnown, AckedIsSettled
  <2>3. ASSUME NEW u \in accepted
        PROVE  Settled(u)' \/ HasCopies(u)'
    <3>1. HasCopies(u)' <=> HasCopies(u)
      BY <2>1 DEF HasCopies, Test, Holds
    <3>2. u \in Tests
      BY DEF TypeOK
    <3> QED
      BY <2>1, <3>1, <3>2, SettledOrCopied DEF DeliveryInv, Settled
  <2>4. NothingLost'
    BY <2>1, <2>3 DEF NothingLost, Settled
  <2> QED
    BY <2>2, <2>4 DEF DeliveryInv
<1> QED
  BY <1>1, <1>2, <1>3

LEMMA DeliveryDeliver ==
    ASSUME TypeOK, TypeOK', DeliveryInv,
           NEW r \in Replicas, NEW t \in Tests, NEW k \in 0..MaxRetries, Deliver(r, t, k)
    PROVE  DeliveryInv'
<1>1. PICK h \in Handlers :
         /\ Starts(r, t, k, h)
         /\ FindsNone(r, h) \/ \E i \in 1..Len(idle[r]) : Finds(r, t, h, i)
  BY DeliverMoves
<1>2. /\ UNCHANGED <<accepted, cancels, stored, dead, results, signals, flags>>
      /\ <<t, k>> \in Messages
      /\ \A m \in Messages : m # <<t, k>> => queue'[m] = queue[m]
  BY DEF Deliver, outerVars, linkVars, Messages, TypeOK
<1>3. /\ \A g \in Handlers \ {h} : handler'[g] = handler[g]
      /\ handler'[h].pc \notin {"idle", "acking"} /\ handler'[h].live /\ handler'[h].t = t
      /\ handler[h].pc = "idle"
  BY <1>1 DEF Starts, FindsNone, Finds, At
<1>4. CancelsKnown' /\ AckedIsSettled'
  BY <1>2, <1>3 DEF DeliveryInv, CancelsKnown, AckedIsSettled
<1>5. ASSUME NEW u \in accepted
      PROVE  Settled(u)' \/ HasCopies(u)'
  <2>1. u \in Tests /\ (Settled(u)' <=> Settled(u))
    BY <1>2 DEF Settled, TypeOK
  <2>2. CASE u = t
    BY <1>3, <2>2 DEF HasCopies, Test, Holds
  <2>3. CASE u # t
    <3>1. \A j \in 0..MaxRetries : queue'[<<u, j>>] = queue[<<u, j>>]
      BY <1>2, <2>1, <2>3 DEF Messages
    <3>2. \A g \in Handlers : Test(g) = u /\ Holds(g) => g # h
      BY <1>3 DEF Holds
    <3>3. HasCopies(u) => HasCopies(u)'
      BY <1>3, <3>1, <3>2 DEF HasCopies, Test, Holds
    <3> QED
      BY <2>1, <3>3, SettledOrCopied DEF DeliveryInv
  <2> QED
    BY <2>2, <2>3
<1>6. NothingLost'
  BY <1>2, <1>5 DEF NothingLost, Settled
<1> QED
  BY <1>4, <1>6 DEF DeliveryInv

LEMMA DeliveryHandler ==
    ASSUME TypeOK, TypeOK', DeliveryInv, NEW h \in Handlers, HandlerStep(h)
    PROVE  DeliveryInv'
<1>0. /\ \A t \in Tests : results[t] \in Nat /\ dead[t] \in Nat
      /\ \A m \in Messages : queue[m] \in Nat
      /\ \A t \in Tests : results'[t] \in Nat /\ dead'[t] \in Nat
      /\ \A g \in Handlers : handler[g].pc # "idle" => handler[g].t \in Tests
      /\ h[1] \in Replicas
  BY TestsCounted, HandlerInUse DEF TypeOK
<1>1. CASE FramesRead(h)
  <2>1. /\ UNCHANGED <<accepted, cancels, stored, results, signals, flags>>
        /\ \A g \in Handlers \ {h} : handler'[g] = handler[g]
        /\ handler'[h].pc = "idle" /\ Test(h) \in Tests
        /\ \A t \in Tests : dead'[t] >= dead[t]
        /\ \A m \in Messages : queue'[m] >= queue[m]
    BY <1>0, <1>1, FramesReadSends DEF outerVars, linkVars
  <2>2. CancelsKnown' /\ AckedIsSettled'
    BY <2>1 DEF DeliveryInv, CancelsKnown, AckedIsSettled
  <2>3. ASSUME NEW u \in accepted
        PROVE  Settled(u)' \/ HasCopies(u)'
    <3>1. u \in Tests
      BY DEF TypeOK
    <3>2. Settled(u) => Settled(u)'
      BY <1>0, <2>1, <3>1 DEF Settled
    <3>3. CASE \E j \in 0..MaxRetries : queue[<<u, j>>] > 0
      <4>1. PICK j \in 0..MaxRetries : queue[<<u, j>>] > 0
        BY <3>3
      <4>2. <<u, j>> \in Messages
        BY <3>1 DEF Messages
      <4>3. queue'[<<u, j>>] \in Nat
        BY <4>2 DEF TypeOK
      <4>4. queue'[<<u, j>>] > 0
        BY <1>0, <2>1, <4>1, <4>2, <4>3
      <4> QED
        BY <4>4 DEF HasCopies
    <3>4. ASSUME NEW g \in Handlers, g # h, Test(g) = u, Holds(g)
          PROVE  HasCopies(u)'
      BY <2>1, <3>4 DEF HasCopies, Test, Holds
    <3>5. CASE Test(h) = u /\ handler[h].pc = "acking"
      BY <2>1, <3>2, <3>5 DEF DeliveryInv, AckedIsSettled, Settled, Test
    <3>6. CASE Test(h) = u /\ handler[h].pc = "retrying"
      <4>1. /\ \A m \in Messages :
                  queue'[m] = IF m = <<Test(h), handler[h].k + 1>>
                              THEN queue[m] + 1 ELSE queue[m]
            /\ handler[h].k = MaxRetries => dead'[Test(h)] > 0
        BY <1>1, <3>6, FramesReadSends
      <4>2. handler[h].k \in 0..MaxRetries
        BY HandlerInUse
      <4>3. CASE handler[h].k = MaxRetries
        BY <3>6, <4>1, <4>3 DEF Settled
      <4>4. CASE handler[h].k # MaxRetries
        <5>1. PICK j \in 0..MaxRetries : j = handler[h].k + 1
          BY <4>2, <4>4, ConstantsAssumption
        <5>2. <<u, j>> \in Messages
          BY <3>1 DEF Messages
        <5>3. queue'[<<u, j>>] = queue[<<u, j>>] + 1
          BY <3>6, <4>1, <5>1, <5>2
        <5>4. queue'[<<u, j>>] > 0
          BY <1>0, <5>2, <5>3
        <5> QED
          BY <5>4 DEF HasCopies
      <4> QED
        BY <4>3, <4>4
    <3>7. handler[h].pc \in {"acking", "retrying"}
      BY <1>1 DEF FramesRead, SentSteps
    <3> QED
      BY <3>2, <3>3, <3>4, <3>5, <3>6, <3>7, SettledOrCopied DEF DeliveryInv, HasCopies
  <2>4. NothingLost'
    BY <2>1, <2>3 DEF NothingLost, Settled
  <2> QED
    BY <2>2, <2>4 DEF DeliveryInv
<1>2. CASE ~FramesRead(h)
  <2>1. GoesOn(h)
    BY <1>2, HandlerGoesOn
  <2>2. /\ UNCHANGED <<accepted, cancels, stored, queue, dead, signals>>
        /\ \A g \in Handlers \ {h} : handler'[g] = handler[g]
        /\ handler[h].pc # "idle" /\ handler'[h].pc # "idle"
        /\ handler'[h].t = handler[h].t /\ handler'[h].live = handler[h].live
        /\ \A t \in Tests : results'[t] >= results[t]
        /\ \A r \in Replicas : flags'[r] \subseteq flags[r]
        /\ handler'[h].pc = "acking" => results'[Test(h)] > 0 \/ Test(h) \in flags[h[1]]
    <3>1. UNCHANGED <<accepted, cancels, stored, queue, dead, signals>>
      BY <2>1 DEF GoesOn, outerVars, linkVars
    <3>2. /\ \A g \in Handlers \ {h} : handler'[g] = handler[g]
          /\ handler[h].pc # "idle" /\ handler'[h].pc # "idle"
      BY <1>0, <2>1 DEF GoesOn
    <3>3. handler'[h].t = handler[h].t /\ handler'[h].live = handler[h].live
      BY <2>1 DEF GoesOn
    <3>4. \A t \in Tests : results'[t] >= results[t]
      BY <2>1 DEF GoesOn
    <3>5. flags \in [Replicas -> SUBSET Tests]
      BY DEF TypeOK
    <3>6. \A r \in Replicas : flags'[r] \subseteq flags[r]
      BY <2>1, <3>5 DEF GoesOn
    <3>7. handler'[h].pc = "acking" => results'[Test(h)] > 0 \/ Test(h) \in flags[h[1]]
      BY <2>1 DEF GoesOn
    <3> QED BY <3>1, <3>2, <3>3, <3>4, <3>6, <3>7
  <2>3. CancelsKnown'
    BY <2>2 DEF DeliveryInv, CancelsKnown
  <2>4. AckedIsSettled'
    <3> SUFFICES ASSUME NEW g \in Handlers, handler'[g].pc = "acking"
                 PROVE  \/ handler'[g].t \in cancels \cup stored
                        \/ results'[handler'[g].t] > 0
      BY <2>2 DEF AckedIsSettled
    <3>1. CASE g = h
      BY <1>0, <2>2, <3>1 DEF DeliveryInv, CancelsKnown, Test
    <3>2. CASE g # h
      <4>1. handler'[g] = handler[g] /\ handler[g].t \in Tests
        BY <1>0, <2>2, <3>2
      <4>2. PICK t \in Tests : t = handler[g].t
        BY <4>1
      <4>3. t \in cancels \cup stored \/ results[t] > 0
        BY <4>1, <4>2 DEF DeliveryInv, AckedIsSettled
      <4>4. results[t] > 0 => results'[t] > 0
        BY <1>0, <2>2
      <4> QED
        BY <4>1, <4>2, <4>3, <4>4
    <3> QED
      BY <3>1, <3>2
  <2>5. ASSUME NEW u \in accepted
        PROVE  Settled(u)' \/ HasCopies(u)'
    <3>1. u \in Tests
      BY DEF TypeOK
    <3>2. Settled(u) => Settled(u)'
      BY <1>0, <2>2, <3>1 DEF Settled
    <3>3. HasCopies(u) => HasCopies(u)'
      BY <2>2 DEF HasCopies, Test, Holds
    <3> QED
      BY <3>2, <3>3, SettledOrCopied DEF DeliveryInv
  <2>6. NothingLost'
    BY <2>2, <2>5 DEF NothingLost, Settled
  <2> QED
    BY <2>3, <2>4, <2>6 DEF DeliveryInv
<1> QED
  BY <1>1, <1>2

\* What a channel's end leaves of the handlers of its replica: none is near its
\* end, and none holds a delivery.
LEMMA DeliveryChannel ==
    ASSUME TypeOK, TypeOK', DeliveryInv, NEW r \in Replicas, NEW sent \in SUBSET Handlers,
           NEW kept \in SUBSET Handlers, ChannelEnds(r, sent, kept),
           \A h \in Handlers : IF h \in Of(r) THEN handler'[h].pc # "acking"
                               ELSE handler'[h] = handler[h],
           \A q \in Replicas : flags'[q] \subseteq flags[q], UNCHANGED outerVars
    PROVE  DeliveryInv'
<1>0. UNCHANGED <<accepted, cancels, stored>>
  BY DEF outerVars
<1>1. /\ \A m \in Messages : queue'[m] >= queue[m] /\ queue[m] \in Nat /\ queue'[m] \in Nat
      /\ \A t \in Tests : dead'[t] >= dead[t] /\ dead[t] \in Nat /\ dead'[t] \in Nat
      /\ \A t \in Tests : results'[t] >= results[t] /\ results[t] \in Nat /\ results'[t] \in Nat
      /\ \A h \in Of(r) : Holds(h) => queue'[<<Test(h), handler[h].k>>] > 0
      /\ signals' = [signals EXCEPT ![r] = {}]
  BY ChannelGivesBack
<1>2. CancelsKnown'
  <2>1. \A q \in Replicas : signals'[q] \subseteq signals[q]
    BY <1>1 DEF TypeOK
  <2> QED
    BY <1>0, <2>1 DEF DeliveryInv, CancelsKnown
<1>3. AckedIsSettled'
  <2> SUFFICES ASSUME NEW g \in Handlers, handler'[g].pc = "acking"
               PROVE  \/ handler'[g].t \in cancels \cup stored
                      \/ results'[handler'[g].t] > 0
    BY <1>0 DEF AckedIsSettled
  <2>1. handler'[g] = handler[g] /\ handler[g].pc = "acking"
    OBVIOUS
  <2>2. PICK t \in Tests : t = handler[g].t
    BY <2>1, HandlerInUse
  <2>3. t \in cancels \cup stored \/ results[t] > 0
    BY <2>1, <2>2 DEF DeliveryInv, AckedIsSettled
  <2>4. results[t] > 0 => results'[t] > 0
    BY <1>1
  <2> QED
    BY <2>1, <2>2, <2>3, <2>4
<1>4. ASSUME NEW u \in accepted
      PROVE  Settled(u)' \/ HasCopies(u)'
  <2>1. u \in Tests
    BY DEF TypeOK
  <2>2. Settled(u) => Settled(u)'
    BY <1>0, <1>1, <2>1 DEF Settled
  <2>3. ASSUME NEW j \in 0..MaxRetries, queue[<<u, j>>] > 0
        PROVE  HasCopies(u)'
    <3>1. <<u, j>> \in Messages
      BY <2>1 DEF Messages
    <3>2. queue'[<<u, j>>] > 0
      BY <1>1, <2>3, <3>1
    <3> QED
      BY <3>2 DEF HasCopies
  <2>4. ASSUME NEW g \in Handlers, Test(g) = u, Holds(g)
        PROVE  HasCopies(u)'
    <3>1. CASE g \in Of(r)
      <4>1. PICK j \in 0..MaxRetries : j = handler[g].k
        BY HandlerInUse
      <4>2. queue'[<<u, j>>] > 0
        BY <1>1, <2>4, <3>1, <4>1
      <4> QED
        BY <4>2 DEF HasCopies
    <3>2. CASE g \notin Of(r)
      BY <2>4, <3>2 DEF HasCopies, Test, Holds
    <3> QED
      BY <3>1, <3>2
  <2> QED
    BY <2>2, <2>3, <2>4, SettledOrCopied DEF DeliveryInv, HasCopies
<1>5. NothingLost'
  BY <1>0, <1>4 DEF NothingLost, Settled
<1> QED
  BY <1>2, <1>3, <1>5 DEF DeliveryInv

LEMMA StopDelivers ==
    ASSUME TypeOK, TypeOK', DeliveryInv, NEW r \in Replicas, StopProcess(r)
    PROVE  DeliveryInv'
<1>1. PICK sent \in SUBSET Handlers, kept \in SUBSET Handlers : ChannelEnds(r, sent, kept)
  BY DEF StopProcess, Retrying, Confirming, Of
<1>2. /\ \A h \in Handlers : IF h \in Of(r) THEN handler'[h].pc # "acking"
                             ELSE handler'[h] = handler[h]
      /\ \A q \in Replicas : flags'[q] \subseteq flags[q]
      /\ UNCHANGED outerVars
  BY IdleTypes DEF StopProcess, Of, TypeOK
<1> QED
  BY <1>1, <1>2, DeliveryChannel

LEMMA SeveredDelivers ==
    ASSUME TypeOK, TypeOK', DeliveryInv, NEW r \in Replicas, NEW sent \in SUBSET Handlers,
           ChannelEnds(r, sent, {}), handler' = Severed(r), UNCHANGED <<outerVars, flags>>
    PROVE  DeliveryInv'
<1>1. /\ \A h \in Handlers : IF h \in Of(r) THEN handler'[h].pc # "acking"
                             ELSE handler'[h] = handler[h]
      /\ \A q \in Replicas : flags'[q] \subseteq flags[q]
      /\ {} \in SUBSET Handlers
  BY SeveredTypes, IdleTypes DEF SentSteps
<1> QED
  BY <1>1, DeliveryChannel

LEMMA DeliveryReplica ==
    ASSUME TypeOK, TypeOK', DeliveryInv, NEW r \in Replicas,
           \/ \E t \in Tests : ReceiveCancel(r, t)
           \/ \E b \in Browsers : TimerFires(r, b) \/ BrowserGone(r, b) \/ CancelClosed(r, b)
           \/ Disconnect(r) \/ Reconnect(r) \/ Crash(r) \/ Die(r)
           \/ Shutdown(r) \/ Drained(r) \/ Exit(r)
    PROVE  DeliveryInv'
<1> USE DEF outerVars, brokerVars, linkVars, memoryVars, browserVars
<1>a. ASSUME UNCHANGED <<outerVars, brokerVars, handler>>,
             \A q \in Replicas : signals'[q] \cup flags'[q] \subseteq signals[q] \cup flags[q]
      PROVE  DeliveryInv'
  BY <1>a DEF DeliveryInv, CancelsKnown, AckedIsSettled, NothingLost, HasCopies, Test, Holds
<1>1. ASSUME NEW t \in Tests, ReceiveCancel(r, t)
      PROVE  DeliveryInv'
  BY <1>1, <1>a DEF ReceiveCancel, TypeOK
<1>2. ASSUME NEW b \in Browsers, TimerFires(r, b) \/ BrowserGone(r, b)
      PROVE  DeliveryInv'
  BY <1>2, <1>a DEF TimerFires, BrowserGone
<1>3. ASSUME NEW b \in Browsers, CancelClosed(r, b)
      PROVE  DeliveryInv'
  <2>1. CASE StopProcess(r)
    BY <2>1, StopDelivers
  <2>2. CASE ~StopProcess(r)
    BY <1>3, <1>a, <2>2 DEF CancelClosed
  <2> QED
    BY <2>1, <2>2
<1>4. CASE Disconnect(r)
  <2>1. PICK sent \in SUBSET Handlers : ChannelEnds(r, sent, {})
    BY <1>4 DEF Disconnect, Retrying, Of
  <2> QED
    BY <1>4, <2>1, SeveredDelivers DEF Disconnect
<1>5. CASE Reconnect(r) \/ Shutdown(r)
  BY <1>5, <1>a DEF Reconnect, Shutdown
<1>6. CASE Crash(r) \/ Die(r) \/ Exit(r)
  BY <1>6, StopDelivers DEF Crash, Die, Exit
<1>7. CASE Drained(r)
  <2>1. CASE Listening(r)
    BY <1>7, <2>1, SeveredDelivers DEF Drained
  <2>2. CASE ~Listening(r)
    BY <1>7, <1>a, <2>2 DEF Drained
  <2> QED
    BY <2>1, <2>2
<1> QED
  BY <1>1, <1>2, <1>3, <1>4, <1>5, <1>6, <1>7

LEMMA DeliveryStep == TypeOK /\ TypeOK' /\ DeliveryInv /\ [Next]_vars => DeliveryInv'
<1> SUFFICES ASSUME TypeOK, TypeOK', DeliveryInv, [Next]_vars PROVE DeliveryInv'
  OBVIOUS
<1>1. CASE UNCHANGED vars
  BY <1>1 DEF vars, outerVars, brokerVars, linkVars, memoryVars, DeliveryInv, CancelsKnown,
              AckedIsSettled, NothingLost, HasCopies, Test, Holds
<1>2. CASE Next
  BY <1>2, DeliveryOuter, DeliveryHandler, DeliveryDeliver, DeliveryReplica
     DEF Next, Deliveries
<1> QED
  BY <1>1, <1>2

LEMMA DeliveryInit == Init => DeliveryInv
BY IdleTypes DEF Init, DeliveryInv, CancelsKnown, AckedIsSettled, NothingLost

LEMMA DeliveryCorrect == Spec => []DeliveryInv
<1>1. TypeOK /\ DeliveryInv /\ [Next]_vars => DeliveryInv'
  BY TypeStep, DeliveryStep
<1> QED
  BY <1>1, DeliveryInit, TypeCorrect, PTL DEF Spec

\* An accepted browser test that nobody cancelled is queued, in hand, has a
\* result that is stored or on its way, or is a dead letter, whichever process,
\* connection or channel went down (index.ts 204-222, 275-294).
THEOREM ClientNothingLost == Spec => []NothingLost
<1>1. DeliveryInv => NothingLost
  BY DEF DeliveryInv
<1> QED
  BY <1>1, DeliveryCorrect, PTL

-----------------------------------------------------------------------------
(* Without faults *)

\* No channel has closed, and no process is on its way out.
Quiet ==
    /\ \A r \in Replicas : link[r] = "consuming" /\ leaving[r] = "no"
    /\ \A a \in cancelAcks : a[3] = TRUE
    /\ \A h \in Handlers :
          handler[h].pc # "idle" => handler[h].live /\ handler[h].pc # "rejected"

QuietInv == faults = 0 => Quiet

\* The steps without a fault.
CalmStep ==
    \/ UNCHANGED vars
    \/ \E t \in Tests : Submit(t) \/ Cancel(t) \/ StoreResult(t)
    \/ \E h \in Handlers : HandlerStep(h)
    \/ \E r \in Replicas, t \in Tests, k \in 0..MaxRetries : Deliver(r, t, k)
    \/ \E r \in Replicas, t \in Tests : ReceiveCancel(r, t)
    \/ /\ UNCHANGED <<outerVars, brokerVars, linkVars, flags, handler, faults>>
       /\ cancelAcks' \subseteq cancelAcks

LEMMA OnlyCalm ==
    ASSUME TypeOK, TypeOK', QuietInv, [Next]_vars, faults' = 0
    PROVE  faults = 0 /\ CalmStep
<1> USE DEF outerVars, brokerVars, linkVars, memoryVars, browserVars
<1>0. faults \in Nat /\ \A kind : ~Inject(kind)
  BY DEF TypeOK, Inject
<1>1. ASSUME NEW r \in Replicas, NEW b \in Browsers,
             TimerFires(r, b) \/ BrowserGone(r, b) \/ CancelClosed(r, b)
      PROVE  faults = 0 /\ CalmStep
  <2>1. faults' = faults
    BY <1>0, <1>1 DEF TimerFires, BrowserGone, CancelClosed
  <2>2. CASE TimerFires(r, b) \/ BrowserGone(r, b)
    BY <2>1, <2>2 DEF TimerFires, BrowserGone, CalmStep
  <2>3. CASE CancelClosed(r, b)
    <3>1. <<r, b, FALSE>>[3] = FALSE
      OBVIOUS
    <3>2. <<r, b, FALSE>> \notin cancelAcks
      BY <2>1, <3>1 DEF QuietInv, Quiet
    <3> QED
      BY <2>1, <2>3, <3>2 DEF CancelClosed, CalmStep
  <2> QED
    BY <1>1, <2>2, <2>3
<1>2. ASSUME NEW r \in Replicas,
             \/ Disconnect(r) \/ Reconnect(r) \/ Crash(r) \/ Die(r)
             \/ Shutdown(r) \/ Drained(r) \/ Exit(r)
      PROVE  FALSE
  <2>1. faults = 0 => Quiet
    BY DEF QuietInv
  <2>2. \/ Reconnect(r) /\ faults = 0
        \/ Die(r) /\ faults = 0
        \/ Drained(r) /\ faults = 0
        \/ Exit(r) /\ faults = 0
    BY <1>0, <1>2 DEF Disconnect, Reconnect, Crash, Die, Shutdown, Drained, Exit
  <2> QED
    BY <2>1, <2>2 DEF Quiet, Reconnect, Die, Drained, Exit, At, Of
<1>3. CASE UNCHANGED vars
  BY <1>3 DEF vars, CalmStep
<1>4. ASSUME NEW t \in Tests, Submit(t) \/ Cancel(t) \/ StoreResult(t)
      PROVE  faults = 0 /\ CalmStep
  BY <1>4 DEF Submit, Cancel, StoreResult, CalmStep
<1>5. ASSUME NEW h \in Handlers, HandlerStep(h)
      PROVE  faults = 0 /\ CalmStep
  <2>1. faults' = faults
    BY <1>5, HandlerGoesOn, FramesReadSends DEF GoesOn
  <2> QED
    BY <1>5, <2>1 DEF CalmStep
<1>6. ASSUME NEW r \in Replicas, NEW t \in Tests, NEW k \in 0..MaxRetries, Deliver(r, t, k)
      PROVE  faults = 0 /\ CalmStep
  BY <1>6 DEF Deliver, CalmStep
<1>7. ASSUME NEW r \in Replicas, NEW t \in Tests, ReceiveCancel(r, t)
      PROVE  faults = 0 /\ CalmStep
  BY <1>7 DEF ReceiveCancel, CalmStep
<1> QED
  BY <1>1, <1>2, <1>3, <1>4, <1>5, <1>6, <1>7 DEF Next, Deliveries

LEMMA DeliverStarts ==
    ASSUME TypeOK, NEW r \in Replicas, NEW t \in Tests, NEW k \in 0..MaxRetries,
           Deliver(r, t, k)
    PROVE  /\ \E h \in Handlers :
                 /\ \A g \in Handlers \ {h} : handler'[g] = handler[g]
                 /\ handler[h].pc = "idle"
                 /\ handler'[h].pc \in {"launching", "preparing"}
                 /\ handler'[h].live /\ handler'[h].t = t
           /\ UNCHANGED <<outerVars, linkVars, flags, cancelAcks>>
           /\ queue[<<t, k>>] > 0
           /\ \A m \in Messages :
                 queue'[m] = IF m = <<t, k>> THEN queue[m] - 1 ELSE queue[m]
<1>1. PICK h \in Handlers :
         /\ Starts(r, t, k, h)
         /\ FindsNone(r, h) \/ \E i \in 1..Len(idle[r]) : Finds(r, t, h, i)
  BY DeliverMoves
<1>2. /\ \A g \in Handlers \ {h} : handler'[g] = handler[g]
      /\ handler'[h].pc \in {"launching", "preparing"} /\ handler'[h].live /\ handler'[h].t = t
      /\ handler[h].pc = "idle"
  BY <1>1 DEF Starts, FindsNone, Finds, At
<1>3. /\ UNCHANGED <<outerVars, linkVars, flags, cancelAcks>>
      /\ queue[<<t, k>>] > 0
      /\ \A m \in Messages : queue'[m] = IF m = <<t, k>> THEN queue[m] - 1 ELSE queue[m]
  BY DEF Deliver, Messages, TypeOK
<1> QED
  BY <1>2, <1>3

LEMMA QuietStep == TypeOK /\ TypeOK' /\ QuietInv /\ [Next]_vars => QuietInv'
<1> SUFFICES ASSUME TypeOK, TypeOK', QuietInv, [Next]_vars, faults' = 0
             PROVE  Quiet'
  BY DEF QuietInv
<1> USE DEF outerVars, brokerVars, linkVars, memoryVars, browserVars
<1>0. faults = 0 /\ CalmStep /\ Quiet
  BY OnlyCalm DEF QuietInv
<1>1. ASSUME UNCHANGED <<link, leaving, handler>>, cancelAcks' \subseteq cancelAcks
      PROVE  Quiet'
  BY <1>0, <1>1 DEF Quiet
<1>2. CASE UNCHANGED vars
  BY <1>1, <1>2 DEF vars
<1>3. ASSUME NEW t \in Tests, Submit(t) \/ Cancel(t) \/ StoreResult(t)
      PROVE  Quiet'
  BY <1>1, <1>3 DEF Submit, Cancel, StoreResult
<1>4. ASSUME NEW h \in Handlers, HandlerStep(h)
      PROVE  Quiet'
  <2>1. CASE FramesRead(h)
    BY <1>0, <2>1, FramesReadSends DEF Quiet
  <2>2. CASE ~FramesRead(h)
    <3>1. GoesOn(h)
      BY <1>4, <2>2, HandlerGoesOn
    <3> QED
      BY <1>0, <3>1 DEF GoesOn, Quiet
  <2> QED
    BY <2>1, <2>2
<1>5. ASSUME NEW r \in Replicas, NEW t \in Tests, NEW k \in 0..MaxRetries, Deliver(r, t, k)
      PROVE  Quiet'
  <2>1. PICK h \in Handlers :
           /\ \A g \in Handlers \ {h} : handler'[g] = handler[g]
           /\ handler'[h].pc \in {"launching", "preparing"} /\ handler'[h].live
    BY <1>5, DeliverStarts
  <2>2. UNCHANGED <<link, leaving, cancelAcks>>
    BY <1>5, DeliverStarts
  <2> QED
    BY <1>0, <2>1, <2>2 DEF Quiet
<1>6. ASSUME NEW r \in Replicas, NEW t \in Tests, ReceiveCancel(r, t)
      PROVE  Quiet'
  <2>1. \E b : cancelAcks' \subseteq cancelAcks \cup {<<r, b, TRUE>>}
    BY <1>6 DEF ReceiveCancel
  <2>2. UNCHANGED <<link, leaving, handler>>
    BY <1>6 DEF ReceiveCancel
  <2>3. \A b : <<r, b, TRUE>>[3] = TRUE
    OBVIOUS
  <2> QED
    BY <1>0, <2>1, <2>2, <2>3 DEF Quiet
<1> QED
  BY <1>0, <1>1, <1>2, <1>3, <1>4, <1>5, <1>6 DEF CalmStep

\* Without faults a test has one delivery: in one place of the queue, once, or
\* in the hands of one invocation.
OneDelivery(t) ==
    /\ \A k \in 0..MaxRetries : queue[<<t, k>>] <= 1
    /\ \A j, k \in 0..MaxRetries : queue[<<t, j>>] > 0 /\ queue[<<t, k>>] > 0 => j = k
    /\ \A g, h \in Handlers :
          Test(g) = t /\ handler[g].pc # "idle" /\ Test(h) = t /\ handler[h].pc # "idle" => g = h
    /\ \A h \in Handlers : Test(h) = t /\ handler[h].pc # "idle" =>
          \A k \in 0..MaxRetries : queue[<<t, k>>] = 0
    /\ t \notin accepted =>
          /\ \A k \in 0..MaxRetries : queue[<<t, k>>] = 0
          /\ \A h \in Handlers : Test(h) = t => handler[h].pc = "idle"

\* A replica that no longer knows of the cancel of t: t is over.
OverWhereForgotten(t) ==
    \A r \in Replicas :
        t \in cancels /\ t \notin signals[r] \cup flags[r] =>
            /\ \A k \in 0..MaxRetries : queue[<<t, k>>] = 0
            /\ \A h \in Handlers : Test(h) = t => handler[h].pc \in {"idle", "acking"}

OnceInv == faults = 0 => \A t \in Tests : OneDelivery(t) /\ OverWhereForgotten(t)

\* The variables that OneDelivery and OverWhereForgotten speak of.
LEMMA OnceFrame ==
    ASSUME NEW t, OneDelivery(t), OverWhereForgotten(t), UNCHANGED <<handler, accepted, cancels>>,
           \A k \in 0..MaxRetries : queue'[<<t, k>>] = queue[<<t, k>>],
           \A r \in Replicas : t \in signals[r] \cup flags[r] => t \in signals'[r] \cup flags'[r]
    PROVE  OneDelivery(t)' /\ OverWhereForgotten(t)'
BY DEF OneDelivery, OverWhereForgotten, Test

LEMMA OnceOuter ==
    ASSUME TypeOK, TypeOK', CancelsKnown, Quiet, \A u \in Tests : OneDelivery(u) /\ OverWhereForgotten(u),
           NEW s \in Tests, Submit(s) \/ Cancel(s) \/ StoreResult(s), NEW t \in Tests
    PROVE  OneDelivery(t)' /\ OverWhereForgotten(t)'
<1> USE DEF outerVars, brokerVars, linkVars, memoryVars, browserVars
<1>0. /\ \A m \in Messages : queue[m] \in Nat
      /\ 0 \in 0..MaxRetries /\ \A k \in 0..MaxRetries : <<t, k>> \in Messages
      /\ OneDelivery(t) /\ OverWhereForgotten(t)
  BY ConstantsAssumption DEF TypeOK, Messages
<1>1. CASE Submit(s)
  <2>1. /\ s \notin accepted /\ accepted' = accepted \cup {s}
        /\ \A m \in Messages : queue'[m] = IF m = <<s, 0>> THEN queue[m] + 1 ELSE queue[m]
        /\ UNCHANGED <<handler, cancels, signals, flags>>
    BY <1>1 DEF Submit, TypeOK
  <2>2. CASE t = s
    <3>1. /\ \A k \in 0..MaxRetries : queue'[<<t, k>>] = IF k = 0 THEN 1 ELSE 0
          /\ \A h \in Handlers : Test(h) = t => handler[h].pc = "idle"
      BY <1>0, <2>1, <2>2 DEF OneDelivery
    <3>2. t \notin cancels /\ t \in accepted'
      BY <2>1, <2>2 DEF CancelsKnown
    <3>3. OneDelivery(t)'
      BY <2>1, <3>1, <3>2 DEF OneDelivery, Test
    <3>4. OverWhereForgotten(t)'
      BY <2>1, <3>2 DEF OverWhereForgotten
    <3> QED
      BY <3>3, <3>4
  <2>3. CASE t # s
    <3>1. /\ \A k \in 0..MaxRetries : queue'[<<t, k>>] = queue[<<t, k>>]
          /\ t \in accepted' <=> t \in accepted
      BY <1>0, <2>1, <2>3
    <3> QED
      BY <1>0, <2>1, <3>1 DEF OneDelivery, OverWhereForgotten, Test
  <2> QED
    BY <2>2, <2>3
<1>2. CASE Cancel(s)
  <2>1. /\ s \in accepted /\ cancels' = cancels \cup {s}
        /\ UNCHANGED <<accepted, queue, handler, flags>>
        /\ \A r \in Replicas : signals'[r] = signals[r] \cup {s}
    BY <1>2 DEF Cancel, Quiet, Listening
  <2>2. OneDelivery(t)'
    BY <1>0, <2>1 DEF OneDelivery, Test
  <2>3. OverWhereForgotten(t)'
    BY <1>0, <2>1 DEF OverWhereForgotten, Test
  <2> QED
    BY <2>2, <2>3
<1>3. CASE StoreResult(s)
  BY <1>0, <1>3, OnceFrame DEF StoreResult
<1> QED
  BY <1>1, <1>2, <1>3

LEMMA OnceDeliver ==
    ASSUME TypeOK, TypeOK', \A u \in Tests : OneDelivery(u) /\ OverWhereForgotten(u),
           NEW r \in Replicas, NEW s \in Tests, NEW j \in 0..MaxRetries, Deliver(r, s, j),
           NEW t \in Tests
    PROVE  OneDelivery(t)' /\ OverWhereForgotten(t)'
<1>0. /\ \A m \in Messages : queue[m] \in Nat
      /\ \A k \in 0..MaxRetries : <<t, k>> \in Messages
      /\ OneDelivery(t) /\ OverWhereForgotten(t)
  BY DEF TypeOK, Messages
<1>1. PICK h \in Handlers :
         /\ \A g \in Handlers \ {h} : handler'[g] = handler[g]
         /\ handler[h].pc = "idle" /\ handler'[h].pc \in {"launching", "preparing"}
         /\ handler'[h].t = s
  BY DeliverStarts
<1>2. /\ UNCHANGED <<accepted, cancels, signals, flags>>
      /\ queue[<<s, j>>] > 0
      /\ \A m \in Messages : queue'[m] = IF m = <<s, j>> THEN queue[m] - 1 ELSE queue[m]
  BY DeliverStarts DEF outerVars, linkVars
<1>3. CASE t = s
  <2>1. \A k \in 0..MaxRetries : queue'[<<t, k>>] = 0
    <3> SUFFICES ASSUME NEW k \in 0..MaxRetries PROVE queue'[<<t, k>>] = 0
      OBVIOUS
    <3>1. CASE k = j
      <4>1. queue[<<t, k>>] <= 1 /\ queue[<<t, k>>] > 0 /\ queue[<<t, k>>] \in Nat
        BY <1>0, <1>2, <1>3, <3>1 DEF OneDelivery
      <4> QED
        BY <1>0, <1>2, <1>3, <3>1, <4>1
    <3>2. CASE k # j
      <4>1. ~(queue[<<t, k>>] > 0) /\ queue[<<t, k>>] \in Nat
        BY <1>0, <1>2, <1>3, <3>2 DEF OneDelivery
      <4> QED
        BY <1>0, <1>2, <1>3, <3>2, <4>1
    <3> QED
      BY <3>1, <3>2
  <2>2. \A g \in Handlers : Test(g) = t => handler[g].pc = "idle"
    BY <1>0, <1>2, <1>3 DEF OneDelivery
  <2>3. t \in accepted /\ \A q \in Replicas : t \in cancels => t \in signals[q] \cup flags[q]
    BY <1>0, <1>2, <1>3 DEF OneDelivery, OverWhereForgotten
  <2>4. OneDelivery(t)'
    BY <1>1, <1>2, <2>1, <2>2, <2>3 DEF OneDelivery, Test
  <2>5. OverWhereForgotten(t)'
    BY <1>2, <2>3 DEF OverWhereForgotten
  <2> QED
    BY <2>4, <2>5
<1>4. CASE t # s
  <2>1. \A k \in 0..MaxRetries : queue'[<<t, k>>] = queue[<<t, k>>]
    BY <1>0, <1>2, <1>4
  <2>2. \A g \in Handlers : handler'[g].t = t /\ handler'[g].pc # "idle" =>
           g # h /\ handler'[g] = handler[g]
    BY <1>1, <1>4
  <2>3. OneDelivery(t)'
    BY <1>0, <1>2, <2>1, <2>2 DEF OneDelivery, Test
  <2>4. OverWhereForgotten(t)'
    BY <1>0, <1>2, <2>1, <2>2 DEF OverWhereForgotten, Test
  <2> QED
    BY <2>3, <2>4
<1> QED
  BY <1>3, <1>4

LEMMA OnceHandler ==
    ASSUME TypeOK, TypeOK', Quiet, \A u \in Tests : OneDelivery(u) /\ OverWhereForgotten(u),
           NEW h \in Handlers, HandlerStep(h), NEW t \in Tests
    PROVE  OneDelivery(t)' /\ OverWhereForgotten(t)'
<1>0. /\ \A m \in Messages : queue[m] \in Nat
      /\ \A k \in 0..MaxRetries : <<t, k>> \in Messages
      /\ OneDelivery(t) /\ OverWhereForgotten(t)
      /\ handler[h].k \in 0..MaxRetries /\ h[1] \in Replicas
  BY HandlerInUse DEF TypeOK, Messages
<1>1. CASE FramesRead(h)
  <2>1. /\ \A g \in Handlers \ {h} : handler'[g] = handler[g]
        /\ handler'[h].pc = "idle"
        /\ UNCHANGED <<accepted, cancels, signals, flags>>
    BY <1>1, FramesReadSends DEF outerVars, linkVars
  <2>2. \A g \in Handlers : handler'[g].pc # "idle" => g # h /\ handler'[g] = handler[g]
    BY <2>1
  <2>3. CASE \A k \in 0..MaxRetries : queue'[<<t, k>>] = queue[<<t, k>>]
    <3>1. OneDelivery(t)'
      BY <1>0, <2>1, <2>2, <2>3 DEF OneDelivery, Test
    <3>2. OverWhereForgotten(t)'
      BY <1>0, <2>1, <2>2, <2>3 DEF OverWhereForgotten, Test
    <3> QED
      BY <3>1, <3>2
  <2>4. CASE ~ \A k \in 0..MaxRetries : queue'[<<t, k>>] = queue[<<t, k>>]
    <3>1. handler[h].pc = "retrying" /\ Test(h) = t
          /\ \A k \in 0..MaxRetries :
                queue'[<<t, k>>] = IF k = handler[h].k + 1 THEN queue[<<t, k>>] + 1
                                   ELSE queue[<<t, k>>]
      BY <1>0, <1>1, <2>4, FramesReadSends
    <3>2. \A k \in 0..MaxRetries : queue[<<t, k>>] = 0
      BY <1>0, <3>1 DEF OneDelivery
    <3>3. \A k \in 0..MaxRetries :
             queue'[<<t, k>>] = IF k = handler[h].k + 1 THEN 1 ELSE 0
      BY <3>1, <3>2
    <3>4. \A g \in Handlers : Test(g) = t /\ handler[g].pc # "idle" => g = h
      BY <1>0, <3>1 DEF OneDelivery
    <3>5. t \in accepted /\ \A r \in Replicas : t \in cancels => t \in signals[r] \cup flags[r]
      BY <1>0, <3>1 DEF OneDelivery, OverWhereForgotten
    <3>6. \A g \in Handlers : handler'[g].t = t => handler'[g].pc = "idle"
      BY <2>1, <2>2, <3>4 DEF Test
    <3>7. OneDelivery(t)'
      BY <2>1, <3>3, <3>5, <3>6 DEF OneDelivery, Test
    <3>8. OverWhereForgotten(t)'
      BY <2>1, <3>5 DEF OverWhereForgotten
    <3> QED
      BY <3>7, <3>8
  <2> QED
    BY <2>3, <2>4
<1>2. CASE ~FramesRead(h)
  <2>1. GoesOn(h)
    BY <1>2, HandlerGoesOn
  <2>2. /\ UNCHANGED <<accepted, cancels, signals, queue>>
        /\ \A g \in Handlers \ {h} : handler'[g] = handler[g]
        /\ handler[h].pc \notin {"idle", "acking"} /\ handler'[h].pc # "idle"
        /\ handler'[h].t = handler[h].t
    BY <2>1 DEF GoesOn, outerVars, linkVars
  <2>3. \A g \in Handlers : /\ handler'[g].t = handler[g].t
                            /\ handler'[g].pc = "idle" <=> handler[g].pc = "idle"
    BY <2>2
  <2>4. OneDelivery(t)'
    BY <1>0, <2>2, <2>3 DEF OneDelivery, Test
  <2>5. OverWhereForgotten(t)'
    <3> SUFFICES ASSUME NEW r \in Replicas, t \in cancels, t \notin signals[r] \cup flags'[r]
                 PROVE  /\ \A k \in 0..MaxRetries : queue[<<t, k>>] = 0
                        /\ \A g \in Handlers :
                              handler'[g].t = t => handler'[g].pc \in {"idle", "acking"}
      BY <2>2 DEF OverWhereForgotten, Test
    <3>1. CASE t \notin flags[r]
      <4>1. /\ \A k \in 0..MaxRetries : queue[<<t, k>>] = 0
            /\ \A g \in Handlers : Test(g) = t => handler[g].pc \in {"idle", "acking"}
        BY <1>0, <3>1 DEF OverWhereForgotten
      <4>2. Test(h) # t
        BY <2>2, <4>1
      <4> QED
        BY <2>2, <2>3, <4>1, <4>2 DEF Test
    <3>2. CASE t \in flags[r]
      <4>1. /\ Test(h) \in flags[h[1]] /\ flags' = [flags EXCEPT ![h[1]] = @ \ {Test(h)}]
            /\ handler'[h].pc = "acking" \/ ~handler[h].live
        BY <2>1, <3>2 DEF GoesOn
      <4>2. Test(h) = t /\ handler'[h].pc = "acking"
        BY <1>0, <2>2, <3>2, <4>1 DEF Quiet, TypeOK
      <4>3. /\ \A k \in 0..MaxRetries : queue[<<t, k>>] = 0
            /\ \A g \in Handlers : Test(g) = t /\ handler[g].pc # "idle" => g = h
        BY <1>0, <2>2, <4>2 DEF OneDelivery
      <4> QED
        BY <2>2, <2>3, <4>2, <4>3 DEF Test
    <3> QED
      BY <3>1, <3>2
  <2> QED
    BY <2>4, <2>5
<1> QED
  BY <1>1, <1>2

LEMMA OnceStep ==
    TypeOK /\ TypeOK' /\ CancelsKnown /\ QuietInv /\ OnceInv /\ [Next]_vars => OnceInv'
<1> SUFFICES ASSUME TypeOK, TypeOK', CancelsKnown, QuietInv, OnceInv, [Next]_vars, faults' = 0,
                    NEW t \in Tests
             PROVE  OneDelivery(t)' /\ OverWhereForgotten(t)'
  BY DEF OnceInv
<1> USE DEF outerVars, brokerVars, linkVars, memoryVars, browserVars
<1>0. /\ CalmStep /\ Quiet
      /\ \A u \in Tests : OneDelivery(u) /\ OverWhereForgotten(u)
  BY OnlyCalm DEF QuietInv, OnceInv
<1>1. ASSUME UNCHANGED <<handler, accepted, cancels, queue>>,
             \A r \in Replicas : signals[r] \cup flags[r] \subseteq signals'[r] \cup flags'[r]
      PROVE  OneDelivery(t)' /\ OverWhereForgotten(t)'
  BY <1>0, <1>1, OnceFrame
<1>2. ASSUME NEW r \in Replicas, NEW s \in Tests, ReceiveCancel(r, s)
      PROVE  OneDelivery(t)' /\ OverWhereForgotten(t)'
  BY <1>1, <1>2 DEF ReceiveCancel, TypeOK
<1>3. CASE UNCHANGED vars
  BY <1>1, <1>3 DEF vars
<1> QED
  BY <1>0, <1>1, <1>2, <1>3, OnceOuter, OnceDeliver, OnceHandler DEF CalmStep

LEMMA OnceInit == Init => QuietInv /\ OnceInv
<1> SUFFICES ASSUME Init PROVE Quiet /\ \A t \in Tests : OneDelivery(t) /\ OverWhereForgotten(t)
  BY DEF QuietInv, OnceInv
<1>1. /\ \A h \in Handlers : handler[h].pc = "idle"
      /\ \A m \in Messages : queue[m] = 0
      /\ cancels = {} /\ cancelAcks = {}
      /\ \A r \in Replicas : link[r] = "consuming" /\ leaving[r] = "no"
  BY IdleTypes DEF Init
<1>2. \A t \in Tests, k \in 0..MaxRetries : <<t, k>> \in Messages
  BY DEF Messages
<1> QED
  BY <1>1, <1>2 DEF Quiet, OneDelivery, OverWhereForgotten

\* While nothing fails, a replica that was told of a cancel forgets it only when
\* the test is over: no retry is left that would run it again and publish its
\* result (index.ts 143-146 and 188-193).
THEOREM FlagCorrect == Spec => []FlagOutlivesTest
<1>1. /\ TypeOK /\ QuietInv /\ [Next]_vars => QuietInv'
      /\ TypeOK /\ DeliveryInv /\ QuietInv /\ OnceInv /\ [Next]_vars => OnceInv'
  BY TypeStep, QuietStep, OnceStep DEF DeliveryInv
<1>2. OnceInv => FlagOutlivesTest
  <2>1. ASSUME NEW r \in Replicas, NEW t \in Tests, OverWhereForgotten(t),
               t \in cancels, t \notin signals[r] \cup flags[r], NEW h \in Handlers,
               Test(h) = t, Holds(h), handler[h].pc # "acking"
        PROVE  FALSE
    BY <2>1 DEF OverWhereForgotten, Holds
  <2> QED
    BY <2>1 DEF OnceInv, FlagOutlivesTest
<1> QED
  BY <1>1, <1>2, OnceInit, TypeCorrect, DeliveryCorrect, PTL DEF Spec

=============================================================================
