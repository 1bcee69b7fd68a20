---------------------------- MODULE Verdicts_proofs ----------------------------
(***************************************************************************)
(* Proofs about Verdicts and Capture, for all values of their constants,   *)
(* as parts of MCServices.  A behaviour is one of one component: 'part'    *)
(* says which.                                                             *)
(***************************************************************************)
EXTENDS MCServices, SequenceTheorems, FiniteSetTheorems, TLAPS

\* A step of MCServices is one of the component of the behaviour, or leaves that
\* component alone; the component never changes.
LEMMA Frame ==
    ASSUME [Next]_allvars
    PROVE  /\ part' = part
           /\ part = "verdicts" => Judging \/ UNCHANGED vdvars
           /\ part = "capture" => Capture \/ UNCHANGED cpvars
<1>1. CASE Recorder  BY <1>1 DEF Recorder, Rec
<1>2. CASE Scripts   BY <1>2 DEF Scripts, Scr
<1>3. CASE Edits     BY <1>3 DEF Edits, Edi
<1>4. CASE Schema    BY <1>4 DEF Schema, Sch
<1>5. CASE Capture   BY <1>5 DEF Capture, Cap
<1>6. CASE Calls     BY <1>6 DEF Calls, Cal
<1>7. CASE Chat      BY <1>7 DEF Chat, Cha
<1>8. CASE Plan      BY <1>8 DEF Plan, Pla
<1>9. CASE Live      BY <1>9 DEF Live, Liv
<1>10. CASE ExecutionLog BY <1>10 DEF ExecutionLog, Log
<1>11. CASE View     BY <1>11 DEF View, Vie
<1>12. CASE Asking   BY <1>12 DEF Asking, Rou
<1>13. CASE Judging  BY <1>13 DEF Judging, Ver
<1>14. CASE UNCHANGED allvars BY <1>14 DEF allvars
<1> QED BY <1>1, <1>2, <1>3, <1>4, <1>5, <1>6, <1>7, <1>8, <1>9, <1>10, <1>11, <1>12, <1>13, <1>14 DEF Next

-----------------------------------------------------------------------------
(* Verdicts. *)

\* What the variables of the verdicts can be.
VerdictKinds == {"failed", "degraded", "passed"}
Metrics == {<<>>} \cup BackendMeasures \cup ClientMeasures
Results == [type : VD!Types, status : {"pending", "completed"}, metrics : Metrics, is_baseline : BOOLEAN,
            perf_status : VerdictKinds \cup {"none"}]
RunOrNone == VD!Runs \cup {VD!NoTest}
Past == [test : RunOrNone, metrics : Metrics]
Analysing == [test : VD!Runs, step : {"analysing"}, type : VD!Types, metrics : Metrics, slo : SLOs,
              previous : Past, chosen : RunOrNone, asked : RunOrNone]
Judged == [test : VD!Runs, step : {"saving", "saved"}, type : VD!Types, metrics : Metrics,
           against : RunOrNone, chosen : RunOrNone, asked : RunOrNone, perf_status : VerdictKinds]
Choosings == [test : VD!Runs, type : VD!Types, step : {"clearing", "marking"}]
VerdictsTyped ==
    /\ kindOf \in [VD!Runs -> VD!Kinds \cup {"none"}]
    /\ due \in [VD!Runs -> {"none", "due", "handled", "dead"}]
    /\ outcome \in [VD!Runs -> Results \cup {VD!NoRow}]
    /\ order \in Seq(VD!Runs)
    /\ handling \in Analysing \cup Judged \cup {VD!NoJob}
    /\ choosing \in [Setters -> Choosings \cup {VD!NoSet}]
    /\ chosen \in [VD!Types -> RunOrNone]

Listed(s, v) == \E i \in DOMAIN s : s[i] = v

\* A test without a result has no row, the rows are in order, and a baseline has
\* its result.
RunSound(t) ==
    /\ kindOf[t] = "none" <=> due[t] = "none"
    /\ due[t] = "none" => outcome[t] = VD!NoRow
    /\ outcome[t] # VD!NoRow =>
          /\ Listed(order, t)
          /\ outcome[t].is_baseline => outcome[t].status = "completed"
    /\ VD!Completed(t) /\ outcome[t].perf_status # "passed" /\ due[t] = "handled" => t \in announced

\* The message being handled is unacknowledged.  Unless requests for the baseline
\* overlapped, the run found to compare with is the baseline, and a saved verdict
\* stays with its row.
HandlingSound ==
    handling # VD!NoJob =>
        /\ due[handling.test] = "due"
        /\ handling.step = "saved" =>
              VD!Completed(handling.test) /\ outcome[handling.test].perf_status = handling.perf_status
        /\ handling.chosen \notin {VD!NoTest, handling.test} /\ handling.type \notin contested =>
              /\ handling.step = "analysing" => handling.previous.test = handling.chosen
              /\ handling.step = "saving" => handling.against = handling.chosen

\* A run that is about to be the baseline keeps its result and its type, until
\* retention deletes it for good.
ChoiceSound(u) ==
    choosing[u] # VD!NoSet =>
        \/ outcome[choosing[u].test] = VD!NoRow /\ due[choosing[u].test] = "handled"
        \/ VD!Completed(choosing[u].test) /\ outcome[choosing[u].test].type = choosing[u].type

\* Unless requests overlapped, one at a time changes the baseline of a type: from
\* its clearing to its marking the type has none.
Chooses(u, y) == choosing[u] # VD!NoSet /\ choosing[u].type = y
IsBaseline(t, y) == outcome[t].type = y /\ outcome[t].is_baseline
TypeSound(y) ==
    y \notin contested =>
        /\ \A u, v \in Setters : Chooses(u, y) /\ Chooses(v, y) => u = v
        /\ \A u \in Setters : Chooses(u, y) =>
              /\ chosen[y] = VD!NoTest
              /\ choosing[u].step = "marking" => \A t \in VD!Runs : ~IsBaseline(t, y)
        /\ chosen[y] # VD!NoTest => \A t \in VD!Runs : IsBaseline(t, y) <=> t = chosen[y]

VerdictsInv ==
    /\ VerdictsTyped /\ HandlingSound
    /\ \A t \in VD!Runs : RunSound(t)
    /\ \A u \in Setters : ChoiceSound(u)
    /\ \A y \in VD!Types : TypeSound(y)

\* The values that stand for nothing are none of the others.
LEMMA VerdictConstants ==
    ASSUME VD!VerdictsAssumption
    PROVE  /\ MaxTests \in Nat /\ VD!Runs = 1..MaxTests /\ VD!NoTest = 0 /\ VD!NoTest \notin VD!Runs
           /\ VD!NoRow = [type |-> "none"] /\ VD!NoRow.type = "none" /\ VD!NoRow \notin Results
           /\ VD!NoJob = [test |-> 0] /\ VD!NoJob.test = 0 /\ VD!NoJob \notin Analysing \cup Judged
           /\ VD!NoSet = [test |-> 0] /\ VD!NoSet.test = 0 /\ VD!NoSet \notin Choosings
           /\ "none" \notin VD!Types /\ VD!NoPast \in Past
           /\ \A k \in VD!Kinds : VD!MetricsType(k) \in VD!Types /\ k \in VD!Types /\ k # "none"
           /\ \A k \in VD!Kinds : VD!Measures(k) \subseteq Metrics
<1>1. /\ MaxTests \in Nat /\ VD!Runs = 1..MaxTests /\ VD!NoTest = 0 /\ VD!NoTest \notin VD!Runs
      /\ "none" \notin VD!Types
  BY DEF VD!VerdictsAssumption, VD!Runs, VD!NoTest, VD!Types, VD!Kinds
<1>2. VD!NoRow = [type |-> "none"] /\ VD!NoRow.type = "none" /\ VD!NoRow \notin Results
  BY <1>1 DEF VD!NoRow, Results
<1>3. VD!NoJob = [test |-> 0] /\ VD!NoJob.test = 0 /\ VD!NoJob \notin Analysing \cup Judged
  BY <1>1 DEF VD!NoJob, Analysing, Judged
<1>4. VD!NoSet = [test |-> 0] /\ VD!NoSet.test = 0 /\ VD!NoSet \notin Choosings
  BY <1>1 DEF VD!NoSet, Choosings
<1>5. VD!NoPast \in Past  BY DEF VD!NoPast, Past, RunOrNone, Metrics
<1>6. \A k \in VD!Kinds : VD!MetricsType(k) \in VD!Types /\ k \in VD!Types /\ k # "none" /\ VD!Measures(k) \subseteq Metrics
  BY DEF VD!Kinds, VD!MetricsType, VD!Types, VD!Measures, Metrics
<1> QED BY <1>1, <1>2, <1>3, <1>4, <1>5, <1>6

\* A row that is there has a type, and one that has a type is there.
LEMMA RowThere ==
    ASSUME VD!VerdictsAssumption, VerdictsTyped, NEW t \in VD!Runs
    PROVE  /\ outcome[t] # VD!NoRow => outcome[t] \in Results /\ outcome[t].type \in VD!Types
           /\ outcome[t].type \in VD!Types => outcome[t] # VD!NoRow
<1>1. outcome[t] \in Results \cup {VD!NoRow}  BY DEF VerdictsTyped
<1> QED BY <1>1, VerdictConstants DEF Results

\* What appending a run to the order and taking one out of it leave.
LEMMA Appended ==
    ASSUME NEW S, NEW s \in Seq(S), NEW t \in S, NEW r, r = Append(s, t)
    PROVE  /\ r \in Seq(S)
           /\ \A v : v = t \/ Listed(s, v) => Listed(r, v)
<1>1. /\ Append(s, t) \in Seq(S) /\ Len(Append(s, t)) = Len(s) + 1 /\ Len(s) \in Nat
      /\ \A i \in 1..Len(s) : Append(s, t)[i] = s[i]
      /\ Append(s, t)[Len(s) + 1] = t
  BY AppendProperties
<1>2. DOMAIN s = 1..Len(s) /\ DOMAIN Append(s, t) = 1..(Len(s) + 1)  BY <1>1
<1> QED BY <1>1, <1>2 DEF Listed

LEMMA TakenOut ==
    ASSUME NEW S, NEW s \in Seq(S), NEW n \in DOMAIN s, NEW r, r = VD!RemoveAt(s, n)
    PROVE  /\ r \in Seq(S)
           /\ \A v : v # s[n] /\ Listed(s, v) => Listed(r, v)
<1> DEFINE a == SubSeq(s, 1, n-1)
           b == SubSeq(s, n+1, Len(s))
<1>1. DOMAIN s = 1..Len(s) /\ Len(s) \in Nat /\ n \in 1..Len(s) /\ \A i \in 1..Len(s) : s[i] \in S
  OBVIOUS
<1>2. a \in Seq(S) /\ Len(a) = n - 1 /\ \A i \in 1..n-1 : a[i] = s[i]
  <2>1. 1 \in Int /\ n - 1 \in Int /\ \A i \in 1..n-1 : s[i] \in S  BY <1>1
  <2>2. /\ a \in Seq(S) /\ Len(a) = IF 1 <= n-1 THEN n-1-1+1 ELSE 0
        /\ \A i \in 1..n-1-1+1 : a[i] = s[1+i-1]
    BY <2>1, SubSeqProperties
  <2> HIDE DEF a
  <2> QED BY <1>1, <2>2
<1>3. b \in Seq(S) /\ Len(b) = Len(s) - n /\ \A i \in 1..Len(s)-n : b[i] = s[n+i]
  <2>1. n + 1 \in Int /\ Len(s) \in Int /\ \A i \in n+1..Len(s) : s[i] \in S  BY <1>1
  <2>2. /\ b \in Seq(S) /\ Len(b) = IF n+1 <= Len(s) THEN Len(s)-(n+1)+1 ELSE 0
        /\ \A i \in 1..Len(s)-(n+1)+1 : b[i] = s[n+1+i-1]
    BY <2>1, SubSeqProperties
  <2> HIDE DEF b
  <2>3. Len(b) = Len(s) - n /\ Len(s)-(n+1)+1 = Len(s) - n  BY <1>1, <2>2
  <2>4. ASSUME NEW i \in 1..Len(s)-n PROVE b[i] = s[n+i]
    <3>1. i \in Int /\ n+1+i-1 = n+i  BY <1>1
    <3> QED BY <2>2, <2>3, <3>1
  <2> QED BY <2>2, <2>3, <2>4
<1> DEFINE c == a \o b
<1>4. r = c  BY DEF VD!RemoveAt
<1> HIDE DEF a, b
<1>5. /\ c \in Seq(S) /\ Len(c) = Len(a) + Len(b)
      /\ \A i \in 1..Len(a)+Len(b) : c[i] = IF i <= Len(a) THEN a[i] ELSE b[i - Len(a)]
  BY <1>2, <1>3, ConcatProperties
<1> HIDE DEF c
<1>6. Len(a) + Len(b) = Len(s)-1 /\ Len(a) \in Nat /\ Len(b) \in Nat  BY <1>1, <1>2, <1>3
<1>7. DOMAIN c = 1..Len(s)-1  BY <1>5, <1>6
<1>8. ASSUME NEW i \in 1..n-1
      PROVE  i \in DOMAIN c /\ c[i] = s[i]
  <2>1. i \in 1..Len(s)-1 /\ i <= Len(a)  BY <1>1, <1>2
  <2> QED BY <2>1, <1>2, <1>5, <1>6, <1>7
<1>9. ASSUME NEW i \in n+1..Len(s)
      PROVE  i - 1 \in DOMAIN c /\ c[i-1] = s[i]
  <2>1. i - 1 \in 1..Len(s)-1 /\ ~(i - 1 <= Len(a)) /\ i - 1 - Len(a) \in 1..Len(s)-n /\ n + (i - 1 - Len(a)) = i
    BY <1>1, <1>2
  <2>2. c[i-1] = b[i - 1 - Len(a)]  BY <2>1, <1>5, <1>6
  <2> QED BY <2>1, <2>2, <1>3, <1>7
<1>10. ASSUME NEW i \in DOMAIN s, s[i] # s[n]
      PROVE  \E j \in DOMAIN c : c[j] = s[i]
  <2>1. i \in 1..n-1 \/ i \in n+1..Len(s)  BY <1>1, <1>10
  <2> QED BY <2>1, <1>8, <1>9
<1> QED BY <1>4, <1>5, <1>10 DEF Listed

\* A finite set of numbers that is not empty has a greatest: of the sets of those
\* that are greater than one of them, one is minimal.
LEMMA Greatest ==
    ASSUME NEW C \in SUBSET Nat, C # {}, IsFiniteSet(C)
    PROVE  \E n \in C : \A o \in C : o <= n
<1> DEFINE Above(n) == {o \in C : o > n}
           T == {Above(n) : n \in C}
<1>1. IsWellFoundedOn(StrictSubsetOrdering(C), FiniteSubsetsOf(C))
  BY FS_StrictSubsetOrderingWellFounded
<1>2. T # {} /\ T \subseteq FiniteSubsetsOf(C)
  <2>1. ASSUME NEW n \in C
        PROVE  Above(n) \in SUBSET C /\ IsFiniteSet(Above(n))
    <3>1. Above(n) \in SUBSET C  OBVIOUS
    <3> HIDE DEF Above
    <3> QED BY <3>1, FS_Subset
  <2> QED BY <2>1 DEF FiniteSubsetsOf
<1>3. PICK x \in T : \A y \in T : <<y, x>> \notin StrictSubsetOrdering(C)
  <2> HIDE DEF T
  <2> QED BY <1>1, <1>2, WFMin
<1>4. PICK n \in C : x = Above(n)  BY <1>3
<1>5. \A o \in C : o <= n
  <2> SUFFICES ASSUME NEW o \in C, o > n PROVE FALSE  OBVIOUS
  <2>0. o \in Nat /\ n \in Nat /\ \A p \in C : p \in Nat  OBVIOUS
  <2>1. /\ o \in Above(n)
        /\ o \notin Above(o)
        /\ \A p \in C : p > o => p > n
    BY <2>0
  <2>4. Above(o) \subseteq Above(n)  BY <2>1
  <2>2. <<Above(o), Above(n)>> \in StrictSubsetOrdering(C)  BY <2>1, <2>4 DEF StrictSubsetOrdering
  <2>3. Above(o) \in T  OBVIOUS
  <2> HIDE DEF T, Above
  <2> QED BY <1>3, <1>4, <2>2, <2>3
<1> QED BY <1>5

\* Of some indices of a sequence one is the latest.
LEMMA LatestIsOne ==
    ASSUME NEW k \in Nat, NEW C \in SUBSET (1..k), C # {}
    PROVE  VD!Latest(C) \in C
<1>0. 1 \in Int /\ k \in Int  OBVIOUS
<1>1. C \in SUBSET Nat  OBVIOUS
<1>2. IsFiniteSet(1..k)  BY <1>0, FS_Interval
<1>3. IsFiniteSet(C)  BY <1>2, FS_Subset
<1>4. \E n \in C : \A o \in C : o <= n  BY <1>1, <1>3, Greatest
<1> QED BY <1>4 DEF VD!Latest

\* A test is asked for: its row is created now, or not.
LEMMA SubmitKeeps ==
    ASSUME VD!VerdictsAssumption, VerdictsInv, NEW t \in VD!Runs, NEW k \in AskedKinds,
           VD!PendingArrives(t, k) \/ VD!PendingLost(t, k)
    PROVE  VerdictsInv'
<1>1. /\ kindOf[t] = "none" /\ due[t] = "none" /\ outcome[t] = VD!NoRow /\ k \in VD!Kinds /\ k # "none" /\ k \in VD!Types
      /\ kindOf' = [kindOf EXCEPT ![t] = k] /\ due' = [due EXCEPT ![t] = "due"]
      /\ UNCHANGED <<handling, choosing, chosen, contested, announced>>
  <2>1. k \in VD!Kinds  BY DEF VD!VerdictsAssumption, VD!Kinds
  <2> QED BY <2>1, VerdictConstants DEF VD!PendingArrives, VD!PendingLost, VD!Submit, VD!Asks, VerdictsInv, RunSound
<1> DEFINE new == [type |-> k, status |-> "pending", metrics |-> <<>>, is_baseline |-> FALSE, perf_status |-> "none"]
<1>2. /\ new \in Results /\ new.status = "pending" /\ new.is_baseline = FALSE
      /\ \/ outcome' = [outcome EXCEPT ![t] = new] /\ order' = Append(order, t)
         \/ UNCHANGED <<outcome, order>>
  <2>1. <<>> \in Metrics  BY DEF Metrics
  <2>2. new \in Results /\ new.status = "pending" /\ new.is_baseline = FALSE  BY <1>1, <2>1 DEF Results
  <2> QED BY <2>2 DEF VD!PendingArrives, VD!PendingLost, VD!Create
<1> HIDE DEF new
<1>3. PICK x \in Results \cup {VD!NoRow} :
        /\ outcome' = [outcome EXCEPT ![t] = x]
        /\ x # VD!NoRow => x.status = "pending" /\ x.is_baseline = FALSE /\ Listed(order', t)
  <2>1. CASE UNCHANGED <<outcome, order>>
    BY <1>1, <2>1 DEF VerdictsInv, VerdictsTyped
  <2>2. CASE outcome' = [outcome EXCEPT ![t] = new] /\ order' = Append(order, t)
    <3>0. order \in Seq(VD!Runs) /\ order' = Append(order, t)  BY <2>2 DEF VerdictsInv, VerdictsTyped
    <3>1. Listed(order', t)  BY <3>0, Appended
    <3> QED BY <1>2, <2>2, <3>1
  <2> QED BY <1>2, <2>1, <2>2
<1>4. order' \in Seq(VD!Runs) /\ \A v : Listed(order, v) => Listed(order', v)
  <2>1. order \in Seq(VD!Runs)  BY DEF VerdictsInv, VerdictsTyped
  <2>2. CASE UNCHANGED <<outcome, order>>  BY <2>1, <2>2
  <2>3. CASE order' = Append(order, t)  BY <2>1, <2>3, Appended
  <2> QED BY <1>2, <2>2, <2>3
<1>5. VerdictsTyped'
  BY <1>1, <1>3, <1>4 DEF VerdictsInv, VerdictsTyped
<1>6. HandlingSound'
  BY <1>1, <1>3, VerdictConstants DEF VerdictsInv, VerdictsTyped, HandlingSound, VD!Completed, Analysing, Judged
<1>7. ASSUME NEW v \in VD!Runs PROVE RunSound(v)'
  <2>1. RunSound(v) /\ outcome[v] \in Results \cup {VD!NoRow}  BY DEF VerdictsInv, VerdictsTyped
  <2>2. CASE v = t
    BY <1>1, <1>3, <1>5, <2>2 DEF VerdictsInv, VerdictsTyped, RunSound, VD!Completed
  <2>3. CASE v # t
    BY <1>1, <1>3, <1>4, <2>1, <2>3 DEF VerdictsInv, VerdictsTyped, RunSound, VD!Completed
  <2> QED BY <2>2, <2>3
<1>8. ASSUME NEW u \in Setters PROVE ChoiceSound(u)'
  <2>1. ChoiceSound(u) /\ choosing[u] \in Choosings \cup {VD!NoSet}  BY DEF VerdictsInv, VerdictsTyped
  <2>2. choosing[u] # VD!NoSet => choosing[u].test \in VD!Runs /\ choosing[u].test # t
    BY <1>1, <2>1 DEF ChoiceSound, Choosings, VD!Completed
  <2> QED BY <1>1, <1>3, <2>1, <2>2 DEF VerdictsInv, VerdictsTyped, ChoiceSound, VD!Completed
<1>9. ASSUME NEW y \in VD!Types PROVE TypeSound(y)'
  <2>1. TypeSound(y)  BY DEF VerdictsInv
  <2>2. \A v \in VD!Runs : IsBaseline(v, y)' <=> IsBaseline(v, y)
    BY <1>1, <1>3, VerdictConstants DEF IsBaseline, VerdictsInv, VerdictsTyped
  <2> QED BY <1>1, <2>1, <2>2 DEF TypeSound, Chooses
<1> QED BY <1>5, <1>6, <1>7, <1>8, <1>9 DEF VerdictsInv

\* Retention deletes a row.
LEMMA DeleteKeeps ==
    ASSUME VD!VerdictsAssumption, VerdictsInv, NEW t \in VD!Runs, VD!Delete(t)
    PROVE  VerdictsInv'
<1>1. /\ outcome[t] # VD!NoRow /\ due[t] = "handled"
      /\ outcome' = [outcome EXCEPT ![t] = VD!NoRow]
      /\ chosen' = [y \in VD!Types |-> IF chosen[y] = t THEN VD!NoTest ELSE chosen[y]]
      /\ announced' = announced \ {t}
      /\ UNCHANGED <<kindOf, due, handling, choosing, contested>>
  BY DEF VD!Delete
<1>2. PICK n \in DOMAIN order : order[n] = t /\ order' = VD!RemoveAt(order, n)
  BY DEF VD!Delete
<1>3. order' \in Seq(VD!Runs) /\ \A v : v # t /\ Listed(order, v) => Listed(order', v)
  <2>1. order \in Seq(VD!Runs)  BY DEF VerdictsInv, VerdictsTyped
  <2>2. /\ order' \in Seq(VD!Runs)
        /\ \A v : v # order[n] /\ Listed(order, v) => Listed(order', v)
    BY <1>2, <2>1, TakenOut
  <2> QED BY <1>2, <2>2
<1>4. VerdictsTyped'
  BY <1>1, <1>3 DEF VerdictsInv, VerdictsTyped, RunOrNone
<1>5. HandlingSound'
  <2>1. handling # VD!NoJob => handling.test # t  BY <1>1 DEF VerdictsInv, HandlingSound
  <2> QED BY <1>1, <2>1 DEF VerdictsInv, VerdictsTyped, HandlingSound, VD!Completed, Analysing, Judged
<1>6. ASSUME NEW v \in VD!Runs PROVE RunSound(v)'
  <2>1. RunSound(v)  BY DEF VerdictsInv
  <2> QED BY <1>1, <1>3, <2>1 DEF VerdictsInv, VerdictsTyped, RunSound, VD!Completed
<1>7. ASSUME NEW u \in Setters PROVE ChoiceSound(u)'
  <2>1. ChoiceSound(u) /\ choosing[u] \in Choosings \cup {VD!NoSet}  BY DEF VerdictsInv, VerdictsTyped
  <2> QED BY <1>1, <2>1 DEF VerdictsInv, VerdictsTyped, ChoiceSound, VD!Completed, Choosings
<1>8. ASSUME NEW y \in VD!Types PROVE TypeSound(y)'
  <2>1. TypeSound(y)  BY DEF VerdictsInv
  <2>2. \A v \in VD!Runs : IsBaseline(v, y)' <=> IsBaseline(v, y) /\ v # t
    BY <1>1, VerdictConstants DEF IsBaseline, VerdictsInv, VerdictsTyped
  <2>3. chosen[y] \in RunOrNone /\ chosen'[y] = IF chosen[y] = t THEN VD!NoTest ELSE chosen[y]
    BY <1>1 DEF VerdictsInv, VerdictsTyped
  <2> QED BY <1>1, <2>1, <2>2, <2>3 DEF TypeSound, Chooses
<1> QED BY <1>4, <1>5, <1>6, <1>7, <1>8 DEF VerdictsInv

\* The previous run that the lookup finds is the baseline, if there is one to rely on.
LEMMA PreviousIsBaseline ==
    ASSUME VD!VerdictsAssumption, VerdictsInv, NEW t \in VD!Runs, NEW y \in VD!Types
    PROVE  /\ VD!Previous(t, y) \in Past
           /\ chosen[y] \notin {VD!NoTest, t} /\ y \notin contested => VD!Previous(t, y).test = chosen[y]
<1> DEFINE candidates == {n \in DOMAIN order : order[n] # t /\ outcome[order[n]].type = y /\ outcome[order[n]].status = "completed"}
           baselines == {n \in candidates : outcome[order[n]].is_baseline}
           best == VD!Best(candidates)
<1>1. Len(order) \in Nat /\ DOMAIN order = 1..Len(order) /\ \A n \in DOMAIN order : order[n] \in VD!Runs
  BY DEF VerdictsInv, VerdictsTyped
<1>2. /\ candidates # {} => VD!Latest(candidates) \in candidates
      /\ baselines # {} => VD!Latest(baselines) \in baselines
  <2>1. candidates \in SUBSET (1..Len(order)) /\ baselines \in SUBSET (1..Len(order))  BY <1>1
  <2> HIDE DEF candidates, baselines
  <2> QED BY <1>1, <2>1, LatestIsOne
<1>3. best = IF baselines # {} THEN VD!Latest(baselines) ELSE VD!Latest(candidates)
  BY DEF VD!Best
<1>4. baselines \subseteq candidates  OBVIOUS
<1>5. candidates # {} => best \in candidates /\ (baselines # {} => best \in baselines)
  <2> HIDE DEF candidates, baselines, best
  <2> QED BY <1>2, <1>3, <1>4
<1>6. VD!Previous(t, y) = IF candidates = {} THEN VD!NoPast
                          ELSE [test |-> order[best], metrics |-> outcome[order[best]].metrics]
  BY DEF VD!Previous
<1>7. \A n \in candidates : n \in DOMAIN order /\ order[n] \in VD!Runs /\ outcome[order[n]] \in Results
  BY <1>1, RowThere DEF VerdictsInv
<1>8. ASSUME chosen[y] \notin {VD!NoTest, t}, y \notin contested
      PROVE  baselines # {} /\ \A n \in baselines : order[n] = chosen[y]
  <2>1. chosen[y] \in VD!Runs /\ \A v \in VD!Runs : IsBaseline(v, y) <=> v = chosen[y]
    BY <1>8, VerdictConstants DEF VerdictsInv, VerdictsTyped, TypeSound, RunOrNone
  <2>2. IsBaseline(chosen[y], y) /\ RunSound(chosen[y])  BY <2>1 DEF VerdictsInv
  <2>3. outcome[chosen[y]] # VD!NoRow  BY <2>1, <2>2, RowThere DEF VerdictsInv, IsBaseline
  <2>4. PICK n \in DOMAIN order : order[n] = chosen[y]  BY <2>2, <2>3 DEF RunSound, Listed
  <2>5. n \in baselines  BY <1>8, <2>2, <2>3, <2>4 DEF RunSound, IsBaseline
  <2>6. \A i \in baselines : order[i] = chosen[y]  BY <1>7, <2>1 DEF IsBaseline
  <2> HIDE DEF baselines
  <2> QED BY <2>5, <2>6
<1> HIDE DEF candidates, baselines, best
<1>9. VD!Previous(t, y) \in Past
  <2>1. CASE candidates = {}  BY <1>6, <2>1, VerdictConstants
  <2>2. CASE candidates # {}
    <3>1. order[best] \in VD!Runs /\ outcome[order[best]].metrics \in Metrics  BY <1>5, <1>7, <2>2 DEF Results
    <3> QED BY <1>6, <2>2, <3>1 DEF Past, RunOrNone
  <2> QED BY <2>1, <2>2
<1>10. ASSUME chosen[y] \notin {VD!NoTest, t}, y \notin contested
       PROVE  VD!Previous(t, y).test = chosen[y]
  <2>1. candidates # {} /\ order[best] = chosen[y]  BY <1>4, <1>5, <1>8, <1>10
  <2> QED BY <1>6, <2>1
<1> QED BY <1>9, <1>10

\* What a handler does changes nothing else.
LEMMA HandlingKeeps ==
    ASSUME VerdictsInv, HandlingSound', handling' \in Analysing \cup Judged \cup {VD!NoJob},
           UNCHANGED <<kindOf, due, outcome, order, choosing, chosen, contested, announced>>
    PROVE  VerdictsInv'
<1>1. VerdictsTyped'  BY DEF VerdictsInv, VerdictsTyped
<1>2. \A t \in VD!Runs : RunSound(t)'  BY DEF VerdictsInv, RunSound, VD!Completed
<1>3. \A u \in Setters : ChoiceSound(u)'  BY DEF VerdictsInv, ChoiceSound, VD!Completed
<1>4. \A y \in VD!Types : TypeSound(y)'  BY DEF VerdictsInv, TypeSound, Chooses, IsBaseline
<1> QED BY <1>1, <1>2, <1>3, <1>4 DEF VerdictsInv

\* The run to compare with is looked up.
LEMMA LookupKeeps ==
    ASSUME VD!VerdictsAssumption, VerdictsInv, NEW t \in VD!Runs, VD!Lookup(t)
    PROVE  VerdictsInv'
<1> DEFINE y == VD!MetricsType(kindOf[t])
<1>1. /\ due[t] = "due"
      /\ UNCHANGED <<kindOf, due, outcome, order, choosing, chosen, contested, announced>>
  BY DEF VD!Lookup, VD!Asks
<1>2. PICK metrics \in VD!Measures(kindOf[t]) : \E slo \in SLOs :
        handling' = [test |-> t, step |-> "analysing", type |-> y, metrics |-> metrics, slo |-> slo,
                     previous |-> VD!Previous(t, y), chosen |-> chosen[y], asked |-> chosen[kindOf[t]]]
  BY DEF VD!Lookup
<1>3. PICK slo \in SLOs :
        handling' = [test |-> t, step |-> "analysing", type |-> y, metrics |-> metrics, slo |-> slo,
                     previous |-> VD!Previous(t, y), chosen |-> chosen[y], asked |-> chosen[kindOf[t]]]
  BY <1>2
<1>4. kindOf[t] \in VD!Kinds  BY <1>1 DEF VerdictsInv, VerdictsTyped, RunSound
<1>5. y \in VD!Types /\ kindOf[t] \in VD!Types /\ metrics \in Metrics  BY <1>4, VerdictConstants
<1>6. chosen[y] \in RunOrNone /\ chosen[kindOf[t]] \in RunOrNone  BY <1>5 DEF VerdictsInv, VerdictsTyped
<1> HIDE DEF y
<1>7. VD!Previous(t, y) \in Past
  BY <1>5, PreviousIsBaseline
<1>8. chosen[y] \notin {VD!NoTest, t} /\ y \notin contested => VD!Previous(t, y).test = chosen[y]
  BY <1>5, PreviousIsBaseline
<1>9. handling' \in Analysing  BY <1>3, <1>5, <1>6, <1>7 DEF Analysing
<1>10. HandlingSound'
  <2>1. /\ handling'.test = t /\ handling'.step = "analysing" /\ handling'.type = y
        /\ handling'.previous = VD!Previous(t, y) /\ handling'.chosen = chosen[y]
    BY <1>3
  <2> QED BY <1>1, <1>8, <2>1 DEF HandlingSound
<1> QED BY <1>1, <1>9, <1>10, HandlingKeeps

\* The result is analysed.
LEMMA AnalyseKeeps ==
    ASSUME VD!VerdictsAssumption, VerdictsInv, VD!Analyse
    PROVE  VerdictsInv'
<1> DEFINE verdict == VD!callAnalyserService(handling)
<1>1. /\ handling # VD!NoJob /\ handling.step = "analysing"
      /\ handling' = [test |-> handling.test, step |-> "saving", type |-> handling.type, metrics |-> handling.metrics,
                      against |-> handling.previous.test, chosen |-> handling.chosen, asked |-> handling.asked,
                      perf_status |-> verdict]
      /\ UNCHANGED <<kindOf, due, outcome, order, choosing, chosen, contested, announced>>
  BY DEF VD!Analyse, VD!Asks
<1>2. verdict \in VerdictKinds
  BY DEF VD!callAnalyserService, VD!analyzeResult, VD!analyzeBackend, VD!analyzeClient, VerdictKinds
<1> HIDE DEF verdict
<1>3. handling \in Analysing  BY <1>1 DEF VerdictsInv, VerdictsTyped, Judged
<1>4. handling' \in Judged  BY <1>1, <1>2, <1>3 DEF Analysing, Judged, Past
<1>5. HandlingSound'
  <2>1. /\ handling'.test = handling.test /\ handling'.step = "saving" /\ handling'.type = handling.type
        /\ handling'.against = handling.previous.test /\ handling'.chosen = handling.chosen
    BY <1>1
  <2> QED BY <1>1, <2>1 DEF VerdictsInv, HandlingSound
<1> QED BY <1>1, <1>4, <1>5, HandlingKeeps

\* The result is saved: a row that is there keeps its type and its flag.
LEMMA SaveKeeps ==
    ASSUME VD!VerdictsAssumption, VerdictsInv, VD!Save
    PROVE  VerdictsInv'
<1> DEFINE t == handling.test
           saved2 == VD!Upserted(outcome[t], handling)
<1>1. /\ handling # VD!NoJob /\ handling.step = "saving" /\ handling' = [handling EXCEPT !.step = "saved"]
      /\ outcome' = [outcome EXCEPT ![t] = saved2]
      /\ order' = IF outcome[t] = VD!NoRow THEN Append(order, t) ELSE order
      /\ announced' = announced \ {t}
      /\ UNCHANGED <<kindOf, due, choosing, chosen, contested>>
  BY DEF VD!Save, VD!Asks
<1>2. handling \in Judged /\ t \in VD!Runs /\ due[t] = "due"
  BY <1>1 DEF VerdictsInv, VerdictsTyped, Judged, Analysing, HandlingSound
<1>3. /\ handling' \in Judged /\ handling'.test = t /\ handling'.step = "saved" /\ handling'.perf_status = handling.perf_status
  BY <1>1, <1>2 DEF Judged
<1>4. outcome[t] \in Results \cup {VD!NoRow}  BY <1>2 DEF VerdictsInv, VerdictsTyped
<1>5. /\ saved2 \in Results /\ saved2.status = "completed" /\ saved2.perf_status = handling.perf_status
      /\ outcome[t] # VD!NoRow => saved2.type = outcome[t].type /\ saved2.is_baseline = outcome[t].is_baseline
      /\ outcome[t] = VD!NoRow => ~saved2.is_baseline
  <2>1. handling.type \in VD!Types /\ handling.metrics \in Metrics /\ handling.perf_status \in VerdictKinds
    BY <1>2 DEF Judged
  <2>2. CASE outcome[t] = VD!NoRow
    <3>1. saved2 = [type |-> handling.type, is_baseline |-> FALSE, status |-> "completed", metrics |-> handling.metrics,
                    perf_status |-> handling.perf_status]
      BY <2>2 DEF VD!Upserted
    <3> QED BY <2>1, <2>2, <3>1 DEF Results
  <2>3. CASE outcome[t] # VD!NoRow
    <3>1. outcome[t] \in Results /\ outcome[t].type \in VD!Types /\ outcome[t].is_baseline \in BOOLEAN
      BY <1>4, <2>3 DEF Results
    <3>2. saved2 = [type |-> outcome[t].type, is_baseline |-> outcome[t].is_baseline, status |-> "completed",
                    metrics |-> handling.metrics, perf_status |-> handling.perf_status]
      BY <2>3 DEF VD!Upserted
    <3> QED BY <2>1, <2>3, <3>1, <3>2 DEF Results
  <2> QED BY <2>2, <2>3
<1> HIDE DEF saved2
<1>6. order' \in Seq(VD!Runs) /\ Listed(order', t) /\ \A v : Listed(order, v) => Listed(order', v)
  <2>1. order \in Seq(VD!Runs) /\ t \in VD!Runs  BY <1>2 DEF VerdictsInv, VerdictsTyped
  <2>2. CASE outcome[t] = VD!NoRow
    <3>1. order' = Append(order, t)  BY <1>1, <2>2
    <3> HIDE DEF t
    <3> QED BY <2>1, <3>1, Appended
  <2>3. CASE outcome[t] # VD!NoRow  BY <1>1, <1>2, <2>1, <2>3 DEF VerdictsInv, RunSound
  <2> QED BY <2>2, <2>3
<1> HIDE DEF t
<1>7. outcome'[t] = saved2 /\ saved2 # VD!NoRow /\ \A v \in VD!Runs \ {t} : outcome'[v] = outcome[v]
  BY <1>1, <1>2, <1>5, VerdictConstants DEF VerdictsInv, VerdictsTyped
<1>8. VerdictsTyped'
  BY <1>1, <1>3, <1>5, <1>6 DEF VerdictsInv, VerdictsTyped
<1>9. HandlingSound'
  BY <1>1, <1>2, <1>3, <1>5, <1>7 DEF HandlingSound, VD!Completed
<1>10. ASSUME NEW v \in VD!Runs PROVE RunSound(v)'
  <2>1. RunSound(v)  BY DEF VerdictsInv
  <2>2. CASE v = t  BY <1>1, <1>2, <1>5, <1>6, <1>7, <2>1, <2>2 DEF RunSound, VD!Completed
  <2>3. CASE v # t  BY <1>1, <1>6, <1>7, <2>1, <2>3 DEF RunSound, VD!Completed
  <2> QED BY <2>2, <2>3
<1>11. ASSUME NEW u \in Setters PROVE ChoiceSound(u)'
  <2>1. ChoiceSound(u) /\ choosing[u] \in Choosings \cup {VD!NoSet}  BY DEF VerdictsInv, VerdictsTyped
  <2>2. CASE choosing[u].test = t  BY <1>1, <1>2, <1>5, <1>7, <2>1, <2>2 DEF ChoiceSound, VD!Completed
  <2>3. CASE choosing[u].test # t  BY <1>1, <1>7, <2>1, <2>3 DEF ChoiceSound, VD!Completed, Choosings
  <2> QED BY <2>2, <2>3
<1>12. ASSUME NEW y \in VD!Types PROVE TypeSound(y)'
  <2>1. TypeSound(y)  BY DEF VerdictsInv
  <2>2. ASSUME NEW v \in VD!Runs PROVE IsBaseline(v, y)' <=> IsBaseline(v, y)
    <3>1. CASE v = t /\ outcome[t] = VD!NoRow
      BY <1>5, <1>7, <3>1, VerdictConstants DEF IsBaseline
    <3>2. CASE v = t /\ outcome[t] # VD!NoRow
      BY <1>5, <1>7, <3>2 DEF IsBaseline
    <3>3. CASE v # t
      BY <1>7, <3>3 DEF IsBaseline
    <3> QED BY <3>1, <3>2, <3>3
  <2> QED BY <1>1, <2>1, <2>2 DEF TypeSound, Chooses
<1> QED BY <1>8, <1>9, <1>10, <1>11, <1>12 DEF VerdictsInv

\* The message is acknowledged after the webhooks heard of a bad verdict.
LEMMA AnnounceKeeps ==
    ASSUME VD!VerdictsAssumption, VerdictsInv, VD!Announce
    PROVE  VerdictsInv'
<1> DEFINE t == handling.test
<1>1. /\ handling # VD!NoJob /\ handling.step = "saved" /\ handling' = VD!NoJob
      /\ due' = [due EXCEPT ![t] = "handled"]
      /\ IF handling.perf_status \in {"failed", "degraded"} THEN announced' = announced \cup {t} ELSE UNCHANGED announced
      /\ UNCHANGED <<kindOf, outcome, order, choosing, chosen, contested>>
  BY DEF VD!Announce, VD!Asks, VD!fireWebhooks
<1>2. /\ handling \in Judged /\ t \in VD!Runs /\ due[t] = "due" /\ handling.perf_status \in VerdictKinds
      /\ outcome[t].perf_status = handling.perf_status /\ outcome[t] # VD!NoRow
  BY <1>1 DEF VerdictsInv, VerdictsTyped, Judged, Analysing, HandlingSound, VD!Completed
<1> HIDE DEF t
<1>3. due' \in [VD!Runs -> {"none", "due", "handled", "dead"}] /\ due'[t] = "handled"
      /\ \A v \in VD!Runs \ {t} : due'[v] = due[v]
  BY <1>1, <1>2 DEF VerdictsInv, VerdictsTyped
<1>4. VerdictsTyped'  BY <1>1, <1>3 DEF VerdictsInv, VerdictsTyped
<1>5. HandlingSound'  BY <1>1 DEF HandlingSound
<1>6. ASSUME NEW v \in VD!Runs PROVE RunSound(v)'
  <2>1. RunSound(v)  BY DEF VerdictsInv
  <2>2. CASE v = t
    <3>1. outcome[t].perf_status # "passed" => t \in announced'  BY <1>1, <1>2 DEF VerdictKinds
    <3> QED BY <1>1, <1>2, <1>3, <2>1, <2>2, <3>1 DEF RunSound, VD!Completed
  <2>3. CASE v # t  BY <1>1, <1>3, <2>1, <2>3 DEF RunSound, VD!Completed
  <2> QED BY <2>2, <2>3
<1>7. ASSUME NEW u \in Setters PROVE ChoiceSound(u)'
  <2>1. ChoiceSound(u) /\ choosing[u] \in Choosings \cup {VD!NoSet}  BY DEF VerdictsInv, VerdictsTyped
  <2> QED BY <1>1, <1>3, <2>1 DEF ChoiceSound, VD!Completed, Choosings
<1>8. \A y \in VD!Types : TypeSound(y)'  BY <1>1 DEF VerdictsInv, TypeSound, Chooses, IsBaseline
<1> QED BY <1>4, <1>5, <1>6, <1>7, <1>8 DEF VerdictsInv

\* Handling fails, or the process ends.
LEMMA FailedKeeps ==
    ASSUME VD!VerdictsAssumption, VerdictsInv, VD!Throw \/ VD!Crash
    PROVE  VerdictsInv'
<1> DEFINE t == handling.test
<1>1. /\ handling # VD!NoJob /\ handling' = VD!NoJob
      /\ due' = due \/ due' = [due EXCEPT ![t] = "dead"]
      /\ UNCHANGED <<kindOf, outcome, order, choosing, chosen, contested, announced>>
  BY DEF VD!Throw, VD!Crash, VD!Asks
<1>2. t \in VD!Runs /\ due[t] = "due"
  BY <1>1 DEF VerdictsInv, VerdictsTyped, Judged, Analysing, HandlingSound
<1> HIDE DEF t
<1>3. /\ due' \in [VD!Runs -> {"none", "due", "handled", "dead"}] /\ due'[t] \in {"due", "dead"}
      /\ \A v \in VD!Runs \ {t} : due'[v] = due[v]
  BY <1>1, <1>2 DEF VerdictsInv, VerdictsTyped
<1>4. VerdictsTyped'  BY <1>1, <1>3 DEF VerdictsInv, VerdictsTyped
<1>5. HandlingSound'  BY <1>1 DEF HandlingSound
<1>6. ASSUME NEW v \in VD!Runs PROVE RunSound(v)'
  <2>1. RunSound(v)  BY DEF VerdictsInv
  <2> QED BY <1>1, <1>2, <1>3, <2>1 DEF RunSound, VD!Completed
<1>7. ASSUME NEW u \in Setters PROVE ChoiceSound(u)'
  <2>1. ChoiceSound(u) /\ choosing[u] \in Choosings \cup {VD!NoSet}  BY DEF VerdictsInv, VerdictsTyped
  <2> QED BY <1>1, <1>2, <1>3, <2>1 DEF ChoiceSound, VD!Completed, Choosings
<1>8. \A y \in VD!Types : TypeSound(y)'  BY <1>1 DEF VerdictsInv, TypeSound, Chooses, IsBaseline
<1> QED BY <1>4, <1>5, <1>6, <1>7, <1>8 DEF VerdictsInv

\* A user asks for a new baseline: two at a time contest the type.
LEMMA FindKeeps ==
    ASSUME VD!VerdictsAssumption, VerdictsInv, NEW u \in Setters, NEW t \in VD!Runs, VD!FindRun(u, t)
    PROVE  VerdictsInv'
<1> DEFINE y == outcome[t].type
           new == [test |-> t, type |-> y, step |-> "clearing"]
<1>1. /\ choosing[u] = VD!NoSet /\ VD!Completed(t)
      /\ choosing' = [choosing EXCEPT ![u] = new]
      /\ contested' = IF VD!Busy(y) = {} THEN contested ELSE contested \cup {y}
      /\ chosen' = [chosen EXCEPT ![y] = VD!NoTest]
      /\ UNCHANGED <<kindOf, due, outcome, order, handling, announced>>
  BY DEF VD!FindRun, VD!Free, VD!Rows
<1>2. y \in VD!Types  BY <1>1, RowThere DEF VerdictsInv, VD!Completed
<1>3. new \in Choosings /\ new # VD!NoSet /\ new.test = t /\ new.type = y /\ new.step = "clearing"
  <2>1. new \in Choosings  BY <1>2 DEF Choosings
  <2> QED BY <2>1, VerdictConstants
<1> HIDE DEF new
<1>4. /\ choosing'[u] = new /\ \A v \in Setters \ {u} : choosing'[v] = choosing[v]
      /\ choosing' \in [Setters -> Choosings \cup {VD!NoSet}]
  BY <1>1, <1>3 DEF VerdictsInv, VerdictsTyped
<1>5. /\ contested \subseteq contested'
      /\ y \notin contested' => \A v \in Setters : ~Chooses(v, y)
  BY <1>1 DEF VD!Busy, VD!Free, Chooses
<1>6. chosen' \in [VD!Types -> RunOrNone] /\ chosen'[y] = VD!NoTest /\ \A z \in VD!Types \ {y} : chosen'[z] = chosen[z]
  BY <1>1, <1>2 DEF VerdictsInv, VerdictsTyped, RunOrNone
<1>7. VerdictsTyped'  BY <1>1, <1>4, <1>6 DEF VerdictsInv, VerdictsTyped
<1>8. HandlingSound'  BY <1>1, <1>5 DEF VerdictsInv, HandlingSound, VD!Completed
<1>9. \A v \in VD!Runs : RunSound(v)'  BY <1>1 DEF VerdictsInv, RunSound, VD!Completed
<1>10. ASSUME NEW v \in Setters PROVE ChoiceSound(v)'
  <2>1. CASE v = u  BY <1>1, <1>3, <1>4, <2>1 DEF ChoiceSound, VD!Completed
  <2>2. CASE v # u  BY <1>1, <1>4, <2>2 DEF VerdictsInv, ChoiceSound, VD!Completed
  <2> QED BY <2>1, <2>2
<1>11. ASSUME NEW z \in VD!Types PROVE TypeSound(z)'
  <2>1. TypeSound(z) /\ \A v \in VD!Runs : IsBaseline(v, z)' <=> IsBaseline(v, z)
    BY <1>1 DEF VerdictsInv, IsBaseline
  <2>2. CASE z = y
    <3>1. \A v \in Setters : z \notin contested' /\ Chooses(v, z)' => v = u  BY <1>4, <1>5, <2>2 DEF Chooses
    <3> QED BY <1>3, <1>4, <1>6, <2>2, <3>1 DEF TypeSound
  <2>3. CASE z # y
    <3>1. \A v \in Setters : Chooses(v, z)' => Chooses(v, z) /\ choosing'[v] = choosing[v]
      BY <1>3, <1>4, <2>3 DEF Chooses
    <3>2. chosen'[z] = chosen[z]  BY <1>6, <2>3
    <3> QED BY <1>5, <2>1, <3>1, <3>2 DEF TypeSound
  <2> QED BY <2>2, <2>3
<1> QED BY <1>7, <1>8, <1>9, <1>10, <1>11 DEF VerdictsInv

\* What changing flags of rows keeps.
LEMMA FlagsKeep ==
    ASSUME VD!VerdictsAssumption, VerdictsInv, outcome' \in [VD!Runs -> Results \cup {VD!NoRow}],
           \A v \in VD!Runs : /\ outcome[v] = VD!NoRow <=> outcome'[v] = VD!NoRow
                              /\ outcome[v] # VD!NoRow =>
                                    /\ outcome'[v].type = outcome[v].type /\ outcome'[v].status = outcome[v].status
                                    /\ outcome'[v].perf_status = outcome[v].perf_status
                                    /\ outcome'[v].is_baseline => outcome[v].is_baseline \/ outcome[v].status = "completed",
           UNCHANGED <<kindOf, due, order, handling, contested, announced>>
    PROVE  HandlingSound' /\ \A v \in VD!Runs : RunSound(v)'
<1>1. HandlingSound'
  <2>1. handling # VD!NoJob => handling.test \in VD!Runs  BY DEF VerdictsInv, VerdictsTyped, Analysing, Judged
  <2> QED BY <2>1 DEF VerdictsInv, HandlingSound, VD!Completed
<1>2. ASSUME NEW v \in VD!Runs PROVE RunSound(v)'
  <2>1. RunSound(v)  BY DEF VerdictsInv
  <2> QED BY <2>1 DEF RunSound, VD!Completed
<1> QED BY <1>1, <1>2

\* The flags of the type are cleared.
LEMMA ClearsKeeps ==
    ASSUME VD!VerdictsAssumption, VerdictsInv, NEW u \in Setters, VD!ClearBaselines(u)
    PROVE  VerdictsInv'
<1> DEFINE y == choosing[u].type
           new == [choosing[u] EXCEPT !.step = "marking"]
<1>1. /\ choosing[u] # VD!NoSet /\ choosing[u].step = "clearing"
      /\ choosing' = [choosing EXCEPT ![u] = new]
      /\ outcome' = [v \in VD!Runs |-> IF outcome[v].type # y THEN outcome[v] ELSE [outcome[v] EXCEPT !.is_baseline = FALSE]]
      /\ UNCHANGED <<kindOf, due, order, handling, announced, chosen, contested>>
  BY DEF VD!ClearBaselines, VD!Free
<1>2. choosing[u] \in Choosings /\ y \in VD!Types  BY <1>1 DEF VerdictsInv, VerdictsTyped, Choosings
<1>3. new \in Choosings /\ new # VD!NoSet /\ new.test = choosing[u].test /\ new.type = y
  <2>1. new \in Choosings /\ new.test = choosing[u].test /\ new.type = y  BY <1>2 DEF Choosings
  <2> QED BY <2>1, VerdictConstants
<1> HIDE DEF new
<1>4. /\ choosing'[u] = new /\ \A v \in Setters \ {u} : choosing'[v] = choosing[v]
      /\ choosing' \in [Setters -> Choosings \cup {VD!NoSet}]
  BY <1>1, <1>3 DEF VerdictsInv, VerdictsTyped
<1>5. ASSUME NEW v \in VD!Runs
      PROVE  /\ outcome'[v] \in Results \cup {VD!NoRow} /\ (outcome[v] = VD!NoRow <=> outcome'[v] = VD!NoRow)
             /\ outcome'[v].type = outcome[v].type
             /\ outcome[v] # VD!NoRow =>
                   /\ outcome'[v].status = outcome[v].status /\ outcome'[v].perf_status = outcome[v].perf_status
                   /\ outcome'[v].is_baseline => outcome[v].is_baseline
                   /\ outcome'[v].is_baseline <=> outcome[v].is_baseline /\ outcome[v].type # y
  <2>1. outcome[v] \in Results \cup {VD!NoRow}  BY DEF VerdictsInv, VerdictsTyped
  <2>2. CASE outcome[v].type # y
    BY <1>1, <2>1, <2>2
  <2>3. CASE outcome[v].type = y
    <3>1. outcome[v] \in Results /\ outcome[v] # VD!NoRow  BY <1>2, <2>1, <2>3, VerdictConstants
    <3>2. outcome'[v] = [outcome[v] EXCEPT !.is_baseline = FALSE]  BY <1>1, <2>3
    <3>3. /\ outcome'[v] \in Results /\ outcome'[v].type = y /\ outcome'[v].status = outcome[v].status
          /\ outcome'[v].perf_status = outcome[v].perf_status /\ ~outcome'[v].is_baseline
      BY <2>3, <3>1, <3>2 DEF Results
    <3> QED BY <2>3, <3>1, <3>3, VerdictConstants
  <2> QED BY <2>2, <2>3
<1>6. outcome' \in [VD!Runs -> Results \cup {VD!NoRow}]
  <2>1. \A v \in VD!Runs : outcome'[v] \in Results \cup {VD!NoRow}  BY <1>5
  <2> QED BY <1>1, <2>1
<1>7. VerdictsTyped'  BY <1>1, <1>4, <1>6 DEF VerdictsInv, VerdictsTyped
<1>8. HandlingSound' /\ \A v \in VD!Runs : RunSound(v)'
  BY <1>1, <1>5, <1>6, FlagsKeep
<1>9. ASSUME NEW v \in Setters PROVE ChoiceSound(v)'
  <2>1. ChoiceSound(v) /\ choosing[v] \in Choosings \cup {VD!NoSet}  BY DEF VerdictsInv, VerdictsTyped
  <2>2. choosing[v] # VD!NoSet => choosing[v].test \in VD!Runs  BY <2>1 DEF Choosings
  <2>3. choosing'[v] # VD!NoSet => choosing[v] # VD!NoSet /\ choosing'[v].test = choosing[v].test /\ choosing'[v].type = choosing[v].type
    BY <1>1, <1>3, <1>4
  <2> QED BY <1>1, <1>5, <2>1, <2>2, <2>3 DEF ChoiceSound, VD!Completed
<1>10. ASSUME NEW z \in VD!Types PROVE TypeSound(z)'
  <2>1. TypeSound(z)  BY DEF VerdictsInv
  <2>2. \A v \in VD!Runs : IsBaseline(v, z)' <=> IsBaseline(v, z) /\ z # y
    <3> SUFFICES ASSUME NEW v \in VD!Runs PROVE IsBaseline(v, z)' <=> IsBaseline(v, z) /\ z # y  OBVIOUS
    <3>1. CASE outcome[v] = VD!NoRow  BY <1>5, <3>1, VerdictConstants DEF IsBaseline
    <3>2. CASE outcome[v] # VD!NoRow  BY <1>5, <3>2 DEF IsBaseline
    <3> QED BY <3>1, <3>2
  <2>3. \A v \in Setters : Chooses(v, z)' <=> Chooses(v, z)
    BY <1>1, <1>3, <1>4 DEF Chooses
  <2>4. CASE z = y
    <3>1. \A v \in VD!Runs : ~IsBaseline(v, z)'  BY <2>2, <2>4
    <3>2. Chooses(u, z)  BY <1>1, <2>4 DEF Chooses
    <3> QED BY <1>1, <2>1, <2>3, <3>1, <3>2 DEF TypeSound
  <2>5. CASE z # y
    <3>1. \A v \in Setters : Chooses(v, z) => choosing'[v] = choosing[v]  BY <1>4, <2>5 DEF Chooses
    <3> QED BY <1>1, <2>1, <2>2, <2>3, <2>5, <3>1 DEF TypeSound
  <2> QED BY <2>4, <2>5
<1> QED BY <1>7, <1>8, <1>9, <1>10 DEF VerdictsInv

\* The run is marked, if it is still there.
LEMMA MarkKeeps ==
    ASSUME VD!VerdictsAssumption, VerdictsInv, NEW u \in Setters, VD!MarkBaseline(u)
    PROVE  VerdictsInv'
<1> DEFINE t == choosing[u].test
           y == choosing[u].type
<1>1. /\ choosing[u] # VD!NoSet /\ choosing[u].step = "marking"
      /\ outcome' = IF outcome[t] = VD!NoRow THEN outcome ELSE [outcome EXCEPT ![t].is_baseline = TRUE]
      /\ chosen' = IF outcome[t] = VD!NoRow THEN chosen ELSE [chosen EXCEPT ![y] = t]
      /\ choosing' = [choosing EXCEPT ![u] = VD!NoSet]
      /\ UNCHANGED <<kindOf, due, order, handling, announced, contested>>
  BY DEF VD!MarkBaseline, VD!Free
<1>2. t \in VD!Runs /\ y \in VD!Types  BY <1>1 DEF VerdictsInv, VerdictsTyped, Choosings
<1>3. outcome[t] # VD!NoRow => outcome[t] \in Results /\ outcome[t].status = "completed" /\ outcome[t].type = y
  BY <1>1, <1>2 DEF VerdictsInv, VerdictsTyped, ChoiceSound, VD!Completed
<1>4. /\ choosing'[u] = VD!NoSet /\ \A v \in Setters \ {u} : choosing'[v] = choosing[v]
      /\ choosing' \in [Setters -> Choosings \cup {VD!NoSet}]
  BY <1>1 DEF VerdictsInv, VerdictsTyped
<1>5. Chooses(u, y)  BY <1>1 DEF Chooses
<1> HIDE DEF t, y
<1>6. ASSUME NEW v \in VD!Runs
      PROVE  /\ outcome'[v] \in Results \cup {VD!NoRow} /\ (outcome[v] = VD!NoRow <=> outcome'[v] = VD!NoRow)
             /\ v # t => outcome'[v] = outcome[v]
             /\ outcome[v] # VD!NoRow =>
                   /\ outcome'[v].type = outcome[v].type /\ outcome'[v].status = outcome[v].status
                   /\ outcome'[v].perf_status = outcome[v].perf_status
                   /\ outcome'[v].is_baseline => outcome[v].is_baseline \/ outcome[v].status = "completed"
             /\ v = t /\ outcome[v] # VD!NoRow => outcome'[v].is_baseline
  <2>1. outcome[v] \in Results \cup {VD!NoRow}  BY DEF VerdictsInv, VerdictsTyped
  <2>2. CASE outcome[t] = VD!NoRow  BY <1>1, <2>1, <2>2
  <2>3. CASE outcome[t] # VD!NoRow /\ v # t  BY <1>1, <1>2, <2>1, <2>3 DEF VerdictsInv, VerdictsTyped
  <2>4. CASE outcome[t] # VD!NoRow /\ v = t
    <3>1. outcome'[v] = [outcome[v] EXCEPT !.is_baseline = TRUE]
      BY <1>1, <1>2, <2>4 DEF VerdictsInv, VerdictsTyped
    <3>2. /\ outcome'[v] \in Results /\ outcome'[v].type = outcome[v].type /\ outcome'[v].status = outcome[v].status
          /\ outcome'[v].perf_status = outcome[v].perf_status /\ outcome'[v].is_baseline
      BY <1>3, <2>4, <3>1 DEF Results
    <3> QED BY <1>3, <2>4, <3>2, VerdictConstants
  <2> QED BY <2>2, <2>3, <2>4
<1>7. outcome' \in [VD!Runs -> Results \cup {VD!NoRow}]
  <2>1. \A v \in VD!Runs : outcome'[v] \in Results \cup {VD!NoRow}  BY <1>6
  <2>2. outcome \in [VD!Runs -> Results \cup {VD!NoRow}]  BY DEF VerdictsInv, VerdictsTyped
  <2>3. CASE outcome[t] = VD!NoRow  BY <1>1, <2>2, <2>3
  <2>4. CASE outcome[t] # VD!NoRow  BY <1>1, <2>1, <2>2, <2>4
  <2> QED BY <2>3, <2>4
<1>8. /\ chosen' \in [VD!Types -> RunOrNone]
      /\ \A z \in VD!Types : chosen'[z] = IF z = y /\ outcome[t] # VD!NoRow THEN t ELSE chosen[z]
  BY <1>1, <1>2 DEF VerdictsInv, VerdictsTyped, RunOrNone
<1>9. VerdictsTyped'  BY <1>1, <1>4, <1>7, <1>8 DEF VerdictsInv, VerdictsTyped
<1>10. HandlingSound' /\ \A v \in VD!Runs : RunSound(v)'
  BY <1>1, <1>6, <1>7, FlagsKeep
<1>11. ASSUME NEW v \in Setters PROVE ChoiceSound(v)'
  <2>1. ChoiceSound(v) /\ choosing[v] \in Choosings \cup {VD!NoSet}  BY DEF VerdictsInv, VerdictsTyped
  <2>2. choosing[v] # VD!NoSet => choosing[v].test \in VD!Runs  BY <2>1 DEF Choosings
  <2>3. choosing'[v] # VD!NoSet => choosing'[v] = choosing[v]  BY <1>4
  <2> QED BY <1>1, <1>6, <2>1, <2>2, <2>3 DEF ChoiceSound, VD!Completed
<1>12. ASSUME NEW z \in VD!Types PROVE TypeSound(z)'
  <2>1. TypeSound(z)  BY DEF VerdictsInv
  <2>2. \A v \in VD!Runs : IsBaseline(v, z)' <=> IsBaseline(v, z) \/ (v = t /\ z = y /\ outcome[t] # VD!NoRow)
    <3> SUFFICES ASSUME NEW v \in VD!Runs
                 PROVE  IsBaseline(v, z)' <=> IsBaseline(v, z) \/ (v = t /\ z = y /\ outcome[t] # VD!NoRow)
      OBVIOUS
    <3>1. CASE v # t  BY <1>6, <3>1 DEF IsBaseline
    <3>2. CASE v = t /\ outcome[t] = VD!NoRow  BY <1>1, <3>2 DEF IsBaseline
    <3>3. CASE v = t /\ outcome[t] # VD!NoRow  BY <1>2, <1>3, <1>6, <3>3 DEF IsBaseline
    <3> QED BY <3>1, <3>2, <3>3
  <2>3. \A v \in Setters : Chooses(v, z)' => Chooses(v, z) /\ v # u /\ choosing'[v] = choosing[v]
    BY <1>4 DEF Chooses
  <2>4. CASE z = y
    <3>1. z \notin contested => \A v \in Setters : ~Chooses(v, z)'  BY <1>5, <2>1, <2>3, <2>4 DEF TypeSound
    <3>2. z \notin contested => chosen[z] = VD!NoTest /\ \A v \in VD!Runs : ~IsBaseline(v, z)
      BY <1>1, <1>5, <2>1, <2>4 DEF TypeSound
    <3>3. z \notin contested /\ chosen'[z] # VD!NoTest => \A v \in VD!Runs : IsBaseline(v, z)' <=> v = chosen'[z]
      BY <1>8, <2>2, <2>4, <3>2
    <3> QED BY <1>1, <3>1, <3>3 DEF TypeSound
  <2>5. CASE z # y
    <3>1. chosen'[z] = chosen[z] /\ \A v \in VD!Runs : IsBaseline(v, z)' <=> IsBaseline(v, z)  BY <1>8, <2>2, <2>5
    <3> QED BY <1>1, <2>1, <2>3, <3>1 DEF TypeSound
  <2> QED BY <2>4, <2>5
<1> QED BY <1>9, <1>10, <1>11, <1>12 DEF VerdictsInv

\* A request for a baseline fails.
LEMMA SetFailsKeeps ==
    ASSUME VD!VerdictsAssumption, VerdictsInv, NEW u \in Setters, VD!SetFails(u)
    PROVE  VerdictsInv'
<1>1. /\ choosing' = [choosing EXCEPT ![u] = VD!NoSet]
      /\ UNCHANGED <<kindOf, due, outcome, order, handling, announced, chosen, contested>>
  BY DEF VD!SetFails, VD!Rows
<1>2. \A v \in Setters : choosing'[v] = VD!NoSet \/ choosing'[v] = choosing[v]
  BY <1>1 DEF VerdictsInv, VerdictsTyped
<1>3. VerdictsTyped'  BY <1>1 DEF VerdictsInv, VerdictsTyped
<1>4. HandlingSound' /\ \A v \in VD!Runs : RunSound(v)'
  BY <1>1 DEF VerdictsInv, HandlingSound, RunSound, VD!Completed
<1>5. \A v \in Setters : ChoiceSound(v)'  BY <1>1, <1>2 DEF VerdictsInv, ChoiceSound, VD!Completed
<1>6. ASSUME NEW y \in VD!Types PROVE TypeSound(y)'
  <2>1. TypeSound(y) /\ (\A t \in VD!Runs : IsBaseline(t, y)' <=> IsBaseline(t, y))
    BY <1>1 DEF VerdictsInv, IsBaseline
  <2>2. \A v \in Setters : Chooses(v, y)' => Chooses(v, y) /\ choosing'[v] = choosing[v]  BY <1>2 DEF Chooses
  <2> QED BY <1>1, <2>1, <2>2 DEF TypeSound
<1> QED BY <1>3, <1>4, <1>5, <1>6 DEF VerdictsInv

\* A baseline is cleared.
LEMMA ClearOneKeeps ==
    ASSUME VD!VerdictsAssumption, VerdictsInv, NEW t \in VD!Runs, VD!ClearBaseline(t)
    PROVE  VerdictsInv'
<1> DEFINE y == outcome[t].type
<1>1. /\ outcome[t] # VD!NoRow /\ outcome[t].is_baseline
      /\ outcome' = [outcome EXCEPT ![t].is_baseline = FALSE]
      /\ chosen' = [chosen EXCEPT ![y] = IF @ = t THEN VD!NoTest ELSE @]
      /\ UNCHANGED <<kindOf, due, order, handling, announced, choosing, contested>>
  BY DEF VD!ClearBaseline
<1>2. outcome[t] \in Results /\ y \in VD!Types  BY <1>1, RowThere DEF VerdictsInv
<1>3. ASSUME NEW v \in VD!Runs
      PROVE  /\ outcome'[v] \in Results \cup {VD!NoRow} /\ (outcome[v] = VD!NoRow <=> outcome'[v] = VD!NoRow)
             /\ v # t => outcome'[v] = outcome[v]
             /\ outcome[v] # VD!NoRow =>
                   /\ outcome'[v].type = outcome[v].type /\ outcome'[v].status = outcome[v].status
                   /\ outcome'[v].perf_status = outcome[v].perf_status
                   /\ outcome'[v].is_baseline => outcome[v].is_baseline /\ v # t
  <2>1. outcome[v] \in Results \cup {VD!NoRow}  BY DEF VerdictsInv, VerdictsTyped
  <2>2. CASE v # t  BY <1>1, <2>1, <2>2 DEF VerdictsInv, VerdictsTyped
  <2>3. CASE v = t
    <3>1. outcome'[v] = [outcome[v] EXCEPT !.is_baseline = FALSE]
      BY <1>1, <2>3 DEF VerdictsInv, VerdictsTyped
    <3>2. /\ outcome'[v] \in Results /\ outcome'[v].type = outcome[v].type /\ outcome'[v].status = outcome[v].status
          /\ outcome'[v].perf_status = outcome[v].perf_status /\ ~outcome'[v].is_baseline
      BY <1>2, <2>3, <3>1 DEF Results
    <3> QED BY <1>1, <2>3, <3>2, VerdictConstants
  <2> QED BY <2>2, <2>3
<1>4. outcome' \in [VD!Runs -> Results \cup {VD!NoRow}]
  <2>1. \A v \in VD!Runs : outcome'[v] \in Results \cup {VD!NoRow}  BY <1>3
  <2> QED BY <1>1, <2>1 DEF VerdictsInv, VerdictsTyped
<1>5. /\ chosen' \in [VD!Types -> RunOrNone]
      /\ \A z \in VD!Types : chosen'[z] = IF z = y /\ chosen[z] = t THEN VD!NoTest ELSE chosen[z]
  BY <1>1, <1>2 DEF VerdictsInv, VerdictsTyped, RunOrNone
<1>6. VerdictsTyped'  BY <1>1, <1>4, <1>5 DEF VerdictsInv, VerdictsTyped
<1>7. HandlingSound' /\ \A v \in VD!Runs : RunSound(v)'
  <2>1. \A v \in VD!Runs : outcome[v] # VD!NoRow =>
           (outcome'[v].is_baseline => outcome[v].is_baseline \/ outcome[v].status = "completed")
    BY <1>3
  <2> QED BY <1>1, <1>3, <1>4, <2>1, FlagsKeep
<1>8. ASSUME NEW v \in Setters PROVE ChoiceSound(v)'
  <2>1. ChoiceSound(v) /\ choosing[v] \in Choosings \cup {VD!NoSet}  BY DEF VerdictsInv, VerdictsTyped
  <2>2. choosing[v] # VD!NoSet => choosing[v].test \in VD!Runs  BY <2>1 DEF Choosings
  <2> QED BY <1>1, <1>3, <2>1, <2>2 DEF ChoiceSound, VD!Completed
<1>9. ASSUME NEW z \in VD!Types PROVE TypeSound(z)'
  <2>1. TypeSound(z)  BY DEF VerdictsInv
  <2>2. \A v \in VD!Runs : IsBaseline(v, z)' <=> IsBaseline(v, z) /\ v # t
    <3> SUFFICES ASSUME NEW v \in VD!Runs PROVE IsBaseline(v, z)' <=> IsBaseline(v, z) /\ v # t  OBVIOUS
    <3>1. CASE v # t  BY <1>3, <3>1 DEF IsBaseline
    <3>2. CASE v = t  BY <1>1, <1>3, <3>2 DEF IsBaseline
    <3> QED BY <3>1, <3>2
  <2>3. IsBaseline(t, y)  BY <1>1 DEF IsBaseline
  <2>4. IsBaseline(t, z) => z = y  BY DEF IsBaseline
  <2>5. z \notin contested /\ chosen'[z] # VD!NoTest => \A v \in VD!Runs : IsBaseline(v, z)' <=> v = chosen'[z]
    BY <1>5, <2>1, <2>2, <2>3, <2>4 DEF TypeSound
  <2>6. \A v \in Setters : Chooses(v, z)' <=> Chooses(v, z)  BY <1>1 DEF Chooses
  <2>7. \A v \in Setters : z \notin contested /\ Chooses(v, z) => chosen'[z] = VD!NoTest  BY <1>5, <2>1 DEF TypeSound
  <2> QED BY <1>1, <2>1, <2>2, <2>5, <2>6, <2>7 DEF TypeSound
<1> QED BY <1>6, <1>7, <1>8, <1>9 DEF VerdictsInv

\* Every step of Verdicts keeps its invariant ...
LEMMA JudgingKeeps ==
    ASSUME VD!VerdictsAssumption, VerdictsInv, Judging
    PROVE  VerdictsInv'
<1>1. ASSUME NEW t \in VD!Runs, NEW k \in AskedKinds, VD!PendingArrives(t, k) \/ VD!PendingLost(t, k)
      PROVE  VerdictsInv'
  BY <1>1, SubmitKeeps
<1>2. ASSUME NEW t \in VD!Runs, VD!Delete(t) \/ VD!Lookup(t) \/ VD!ClearBaseline(t)
      PROVE  VerdictsInv'
  BY <1>2, DeleteKeeps, LookupKeeps, ClearOneKeeps
<1>3. ASSUME NEW t \in VD!Runs, NEW u \in Setters, VD!FindRun(u, t)
      PROVE  VerdictsInv'
  BY <1>3, FindKeeps
<1>4. ASSUME VD!Analyse \/ VD!Save \/ VD!Announce \/ VD!Throw \/ VD!Crash
      PROVE  VerdictsInv'
  BY <1>4, AnalyseKeeps, SaveKeeps, AnnounceKeeps, FailedKeeps
<1>5. ASSUME NEW u \in Setters, VD!ClearBaselines(u) \/ VD!MarkBaseline(u) \/ VD!SetFails(u)
      PROVE  VerdictsInv'
  BY <1>5, ClearsKeeps, MarkKeeps, SetFailsKeeps
<1> QED BY <1>1, <1>2, <1>3, <1>4, <1>5 DEF Judging, Ver

\* ... which holds at first.
LEMMA VerdictsStart ==
    ASSUME VD!VerdictsAssumption, Init
    PROVE  VerdictsInv
<1>1. /\ kindOf = [t \in VD!Runs |-> "none"] /\ due = [t \in VD!Runs |-> "none"]
      /\ outcome = [t \in VD!Runs |-> VD!NoRow] /\ order = <<>> /\ handling = VD!NoJob
      /\ choosing = [u \in Setters |-> VD!NoSet] /\ chosen = [y \in VD!Types |-> VD!NoTest]
  BY DEF Init, VD!VerdictsInit
<1>2. <<>> \in Seq(VD!Runs)  OBVIOUS
<1>3. VerdictsTyped  BY <1>1, <1>2 DEF VerdictsTyped, RunOrNone
<1>4. HandlingSound  BY <1>1 DEF HandlingSound
<1>5. \A t \in VD!Runs : RunSound(t)  BY <1>1 DEF RunSound, VD!Completed
<1>6. \A u \in Setters : ChoiceSound(u)  BY <1>1 DEF ChoiceSound
<1>7. \A y \in VD!Types : TypeSound(y)  BY <1>1 DEF TypeSound, Chooses
<1> QED BY <1>3, <1>4, <1>5, <1>6, <1>7 DEF VerdictsInv

\* Unless requests for it overlapped, the baseline of a type is the one that was asked
\* for last and no other, a result is compared with it, and no bad verdict stays
\* unannounced (Verdicts).
THEOREM BaselineCorrect == Spec => []BaselineCounts
<1>1. VD!VerdictsAssumption  BY Assumptions
<1>2. Init => (part = "verdicts" => VerdictsInv)  BY <1>1, VerdictsStart
<1>3. (part = "verdicts" => VerdictsInv) /\ [Next]_allvars => (part = "verdicts" => VerdictsInv)'
  <2> SUFFICES ASSUME part = "verdicts", VerdictsInv, [Next]_allvars PROVE VerdictsInv'  BY Frame
  <2>1. CASE Judging  BY <1>1, <2>1, JudgingKeeps
  <2>2. CASE UNCHANGED vdvars
    BY <2>2 DEF vdvars, VerdictsInv, VerdictsTyped, HandlingSound, RunSound, ChoiceSound, TypeSound, VD!Completed,
                Chooses, IsBaseline
  <2> QED BY <2>1, <2>2, Frame
<1>4. VerdictsInv => VD!OneBaseline
  <2> SUFFICES ASSUME VerdictsInv, NEW y \in VD!Types \ contested, chosen[y] # VD!NoTest
               PROVE  {t \in VD!Runs : outcome[t].type = y /\ outcome[t].is_baseline} = {chosen[y]}
    BY DEF VD!OneBaseline
  <2>1. chosen[y] \in VD!Runs  BY DEF VerdictsInv, VerdictsTyped, RunOrNone
  <2>2. \A t \in VD!Runs : IsBaseline(t, y) <=> t = chosen[y]  BY DEF VerdictsInv, TypeSound
  <2> QED BY <2>1, <2>2 DEF IsBaseline
<1>5. VerdictsInv => VD!ComparedWithBaseline
  BY DEF VerdictsInv, HandlingSound, VD!ComparedWithBaseline
<1>6. VerdictsInv => VD!BadNewsTravels
  BY DEF VerdictsInv, RunSound, VD!BadNewsTravels
<1>7. (part = "verdicts" => VerdictsInv) => BaselineCounts
  BY <1>4, <1>5, <1>6 DEF BaselineCounts, VD!BaselineCounts
<1> QED BY <1>2, <1>3, <1>7, PTL DEF Spec

-----------------------------------------------------------------------------
(* Capture. *)

FlowLen == CP!Capped(Cardinality(CP!KeptAt))
FlowStep(m) == [id : {CP!FlowSteps[m].id}, extract : SUBSET Nat, holes : SUBSET [var : Nat, value : Nat]]

\* Step m has the variable of h where its request carried the token, which an
\* earlier exchange gave: the step of that one extracts it.
Wired(m, h) ==
    /\ steps[m].id \in DOMAIN net /\ net[steps[m].id].token = h.value
    /\ \E f \in 1..FlowLen : steps[f].id = h.value /\ h.var \in steps[f].extract

\* The flow has the steps that were kept, whatever correlations added to them.
FlowSound ==
    /\ steps = [m \in 1..FlowLen |-> steps[m]]
    /\ \A m \in 1..FlowLen : steps[m] \in FlowStep(m)
    /\ \A m \in 1..FlowLen : \A h \in steps[m].holes : Wired(m, h)

\* A request carries a token of an earlier one; once there is a flow the exchanges
\* change no more.
CaptureInv ==
    /\ net \in Seq(CP!Exchanges) /\ captured \in Seq(Nat) /\ entries \in Nat
    /\ \A k \in DOMAIN captured : captured[k] \in DOMAIN net
    /\ \A id \in DOMAIN net : net[id].token < id
    /\ recPhase \in {"recording", "detached", "flow"}
    /\ recPhase # "flow" => steps = <<>>
    /\ recPhase = "flow" => FlowSound /\ \A id \in DOMAIN net : net[id].pc # "reading"

\* The cardinality that Capture instantiates is that of the library's theorems.
LEMMA Counts ==
    ASSUME NEW S
    PROVE  CP!Cardinality(S) = Cardinality(S)
BY DEF CP!Cardinality, Cardinality

\* What numbering the kept exchanges does: later ones have greater numbers, and if
\* all are kept each has its own.
LEMMA NthGrows ==
    ASSUME CaptureInv, NEW a \in CP!KeptAt, NEW b \in CP!KeptAt, a < b
    PROVE  CP!Nth(a) < CP!Nth(b)
<1> DEFINE A == {j \in CP!KeptAt : j <= a}
           B == {j \in CP!KeptAt : j <= b}
<1>1. DOMAIN captured = 1..Len(captured) /\ Len(captured) \in Nat  BY DEF CaptureInv
<1>2. IsFiniteSet(1..Len(captured))  BY <1>1, FS_Interval
<1>3. CP!KeptAt \subseteq 1..Len(captured)  BY <1>1 DEF CP!KeptAt
<1>4. A \subseteq 1..Len(captured) /\ B \subseteq 1..Len(captured)  BY <1>3
<1>5. IsFiniteSet(A) /\ IsFiniteSet(B)  BY <1>2, <1>4, FS_Subset
<1>6. A \subseteq B /\ b \in B /\ b \notin A
  <2>1. a \in Nat /\ b \in Nat /\ a < b  BY <1>1, <1>3
  <2>2. \A j \in CP!KeptAt : j \in Nat  BY <1>1, <1>3
  <2>3. \A j \in CP!KeptAt : j <= a => j <= b  BY <2>1, <2>2
  <2>4. b <= b /\ ~(b <= a)  BY <2>1
  <2>5. b \in CP!KeptAt  OBVIOUS
  <2>6. A \subseteq B  BY <2>3
  <2>7. b \in B  BY <2>4, <2>5
  <2>8. b \notin A  BY <2>4
  <2> QED BY <2>6, <2>7, <2>8
<1>7. Cardinality(A) \in Nat /\ Cardinality(B) \in Nat  BY <1>5, FS_CardinalityType
<1>8. CP!Nth(a) = Cardinality(A) /\ CP!Nth(b) = Cardinality(B)  BY Counts DEF CP!Nth
<1> HIDE DEF A, B
<1>9. Cardinality(A) <= Cardinality(B) /\ (Cardinality(B) = Cardinality(A) => B = A)
  BY <1>5, <1>6, FS_Subset
<1> QED BY <1>6, <1>7, <1>8, <1>9

LEMMA AllKept ==
    ASSUME CaptureInv
    PROVE  /\ IsFiniteSet(CP!KeptAt) /\ Cardinality(CP!KeptAt) \in Nat /\ Cardinality(CP!KeptAt) <= Len(captured)
           /\ Cardinality(CP!KeptAt) = Len(captured) => CP!KeptAt = DOMAIN captured /\ \A k \in DOMAIN captured : CP!Nth(k) = k
<1>1. DOMAIN captured = 1..Len(captured) /\ Len(captured) \in Nat /\ 1 \in Int /\ Len(captured) \in Int  BY DEF CaptureInv
<1>2. IsFiniteSet(1..Len(captured)) /\ Cardinality(1..Len(captured)) = Len(captured)
  <2>1. Cardinality(1..Len(captured)) = IF 1 > Len(captured) THEN 0 ELSE Len(captured) - 1 + 1  BY <1>1, FS_Interval
  <2>2. IsFiniteSet(1..Len(captured))  BY <1>1, FS_Interval
  <2> QED BY <1>1, <2>1, <2>2
<1>3. CP!KeptAt \subseteq 1..Len(captured)  BY <1>1 DEF CP!KeptAt
<1>4. /\ IsFiniteSet(CP!KeptAt) /\ Cardinality(CP!KeptAt) <= Cardinality(1..Len(captured))
      /\ Cardinality(1..Len(captured)) = Cardinality(CP!KeptAt) => 1..Len(captured) = CP!KeptAt
  BY <1>2, <1>3, FS_Subset
<1>5. Cardinality(CP!KeptAt) \in Nat  BY <1>4, FS_CardinalityType
<1>6. ASSUME CP!KeptAt = 1..Len(captured), NEW k \in 1..Len(captured)
      PROVE  CP!Nth(k) = k
  <2>1. {j \in CP!KeptAt : j <= k} = 1..k  BY <1>1, <1>6
  <2>2. CP!Nth(k) = Cardinality(1..k)  BY <2>1, Counts DEF CP!Nth
  <2>3. 1 \in Int /\ k \in Int /\ 1 <= k  BY <1>1
  <2>4. Cardinality(1..k) = IF 1 > k THEN 0 ELSE k - 1 + 1  BY <2>3, FS_Interval
  <2> QED BY <2>2, <2>3, <2>4
<1> QED BY <1>1, <1>2, <1>4, <1>5, <1>6

\* The step that an index of the AI is taken for is that of its exchange.
LEMMA StepOfExchange ==
    ASSUME CP!CaptureAssumption, CaptureInv, recPhase = "flow", NEW n \in Nat, CP!StepOf(n) \in 1..FlowLen
    PROVE  n \in DOMAIN captured /\ steps[CP!StepOf(n)].id = captured[n]
<1> DEFINE c == Cardinality(CP!KeptAt)
           m == CP!StepOf(n)
<1>1. /\ c \in Nat /\ c <= Len(captured) /\ FlowStepsCap \in Nat /\ Len(captured) \in Nat
      /\ DOMAIN captured = 1..Len(captured)
      /\ c = Len(captured) => CP!KeptAt = DOMAIN captured /\ \A k \in DOMAIN captured : CP!Nth(k) = k
  BY AllKept DEF CaptureInv, CP!CaptureAssumption
<1>2. FlowLen \in Nat /\ FlowLen <= c  BY <1>1 DEF FlowLen, CP!Capped
<1>3. DOMAIN steps = 1..FlowLen /\ \A i \in 1..FlowLen : steps[i] \in FlowStep(i)
  BY DEF CaptureInv, FlowSound
<1>4. Len(steps) = FlowLen
  <2>1. \A i \in 1..FlowLen : steps[i] \in {steps[j] : j \in 1..FlowLen}  OBVIOUS
  <2>2. steps \in [1..FlowLen -> {steps[j] : j \in 1..FlowLen}]  BY <2>1 DEF CaptureInv, FlowSound
  <2>3. steps \in Seq({steps[j] : j \in 1..FlowLen})  BY <1>2, <2>2, SeqDef
  <2>4. Len(steps) \in Nat /\ DOMAIN steps = 1..Len(steps)  BY <2>3, LenProperties
  <2>5. 1..Len(steps) = 1..FlowLen  BY <1>3, <2>4
  <2>6. \A l, k \in Nat : 1..l = 1..k => l = k
    <3> SUFFICES ASSUME NEW l \in Nat, NEW k \in Nat, 1..l = 1..k, l # k PROVE FALSE  OBVIOUS
    <3>1. CASE l < k
      <4>1. k \in 1..k  BY <3>1
      <4>2. k \notin 1..l  BY <3>1
      <4> QED BY <4>1, <4>2
    <3>2. CASE k < l
      <4>1. l \in 1..l  BY <3>2
      <4>2. l \notin 1..k  BY <3>2
      <4> QED BY <4>1, <4>2
    <3> QED BY <3>1, <3>2
  <2> QED BY <1>2, <2>4, <2>5, <2>6
<1>5. CP!FlowSteps[m] = CP!Step(captured[CHOOSE k \in CP!KeptAt : CP!Nth(k) = m])
  <2>1. CP!FlowSteps = [i \in 1..FlowLen |-> CP!Step(captured[CHOOSE k \in CP!KeptAt : CP!Nth(k) = i])]
    BY Counts DEF CP!FlowSteps, FlowLen
  <2> HIDE DEF m
  <2> QED BY <2>1 DEF m
<1>6. steps[m].id = captured[CHOOSE k \in CP!KeptAt : CP!Nth(k) = m]
  <2>1. steps[m].id = CP!FlowSteps[m].id  BY <1>3 DEF FlowStep
  <2> QED BY <1>5, <2>1 DEF CP!Step
<1>7. n \in CP!KeptAt /\ CP!Nth(n) = m
  <2>1. CASE Len(captured) = Len(steps)
    BY <1>1, <1>2, <1>4, <2>1 DEF CP!StepOf
  <2>2. CASE Len(captured) # Len(steps)
    BY <1>2, <2>2 DEF CP!StepOf
  <2> QED BY <2>1, <2>2
<1>8. \A k \in CP!KeptAt : CP!Nth(k) = m => k = n
  <2> SUFFICES ASSUME NEW k \in CP!KeptAt, CP!Nth(k) = m, k # n PROVE FALSE  OBVIOUS
  <2>1. k \in Nat /\ n \in Nat  BY <1>1 DEF CP!KeptAt
  <2>2. k < n \/ n < k  BY <2>1
  <2>3. CP!Nth(k) < CP!Nth(n) \/ CP!Nth(n) < CP!Nth(k)  BY <1>7, <2>2, NthGrows
  <2>4. m \in Nat  BY <1>2
  <2> HIDE DEF m
  <2> QED BY <1>7, <2>3, <2>4
<1>9. (CHOOSE k \in CP!KeptAt : CP!Nth(k) = m) = n
  <2> HIDE DEF m
  <2> QED BY <1>7, <1>8
<1> QED BY <1>6, <1>7, <1>9 DEF CP!KeptAt


\* While there is no flow, an event of the browser only has to keep the exchanges.
LEMMA Recorded ==
    ASSUME CaptureInv, recPhase' # "flow", recPhase' \in {"recording", "detached"}, steps' = <<>>, entries' = entries,
           net' \in Seq(CP!Exchanges), captured' \in Seq(Nat),
           \A k \in DOMAIN captured' : captured'[k] \in DOMAIN net',
           \A id \in DOMAIN net' : net'[id].token < id
    PROVE  CaptureInv'
BY DEF CaptureInv

LEMMA Sent ==
    ASSUME CP!CaptureAssumption, CaptureInv, CP!RequestWillBeSent
    PROVE  CaptureInv'
<1>1. \E x \in CP!Exchanges : net' = Append(net, x) /\ x.token <= Len(net)
  <2>0. Len(net) \in Nat /\ 0 <= Len(net) /\ 0 \in 0..MaxRequests /\ \A k \in 1..Len(net) : k \in 0..MaxRequests
    <3>1. MaxRequests \in Nat  BY DEF CP!CaptureAssumption
    <3>2. Len(net) \in Nat /\ Len(net) < MaxRequests  BY DEF CP!RequestWillBeSent, CaptureInv
    <3> QED BY <3>1, <3>2
  <2>1. ASSUME NEW kind \in {"skipped", "noise", "text", "json"}, NEW ok \in BOOLEAN,
               NEW token \in 0..MaxRequests, NEW place \in {"none", "body", "header"}
        PROVE  CP!Exchange(kind, ok, token, place) \in CP!Exchanges /\ CP!Exchange(kind, ok, token, place).token = token
    BY DEF CP!Exchange, CP!Exchanges
  <2>2. ASSUME NEW x \in CP!Exchanges
        PROVE  [x EXCEPT !.pc = "ignored"] \in CP!Exchanges /\ [x EXCEPT !.pc = "ignored"].token = x.token
    BY DEF CP!Exchanges
  <2>3. CASE net' = Append(net, [CP!Exchange("skipped", TRUE, CP!Nowhere, "none") EXCEPT !.pc = "ignored"])
    <3> DEFINE x == CP!Exchange("skipped", TRUE, CP!Nowhere, "none")
    <3>1. x \in CP!Exchanges /\ x.token = 0  BY <2>0, <2>1 DEF CP!Nowhere
    <3>2. net' = Append(net, [x EXCEPT !.pc = "ignored"])  BY <2>3
    <3> HIDE DEF x
    <3>3. [x EXCEPT !.pc = "ignored"] \in CP!Exchanges /\ [x EXCEPT !.pc = "ignored"].token = 0  BY <2>2, <3>1
    <3> QED BY <2>0, <3>2, <3>3
  <2>4. CASE net' = Append(net, CP!Exchange("noise", TRUE, CP!Nowhere, "none"))
    <3>1. CP!Exchange("noise", TRUE, CP!Nowhere, "none") \in CP!Exchanges
          /\ CP!Exchange("noise", TRUE, CP!Nowhere, "none").token = 0  BY <2>0, <2>1 DEF CP!Nowhere
    <3> QED BY <2>0, <2>4, <3>1
  <2>5. ASSUME NEW kind \in {"text", "json"}, NEW ok \in BOOLEAN, net' = Append(net, CP!Exchange(kind, ok, CP!Nowhere, "none"))
        PROVE  \E x \in CP!Exchanges : net' = Append(net, x) /\ x.token <= Len(net)
    <3>1. CP!Exchange(kind, ok, CP!Nowhere, "none") \in CP!Exchanges /\ CP!Exchange(kind, ok, CP!Nowhere, "none").token = 0
      BY <2>0, <2>1 DEF CP!Nowhere
    <3> QED BY <2>0, <2>5, <3>1
  <2>6. ASSUME NEW kind \in {"text", "json"}, NEW token \in 1..Len(net), NEW place \in {"body", "header"},
               net' = Append(net, CP!Exchange(kind, TRUE, token, place))
        PROVE  \E x \in CP!Exchanges : net' = Append(net, x) /\ x.token <= Len(net)
    <3>1. CP!Exchange(kind, TRUE, token, place) \in CP!Exchanges /\ CP!Exchange(kind, TRUE, token, place).token = token
      BY <2>0, <2>1
    <3>2. token <= Len(net)  BY <2>0
    <3> QED BY <2>6, <3>1, <3>2
  <2> QED BY <2>3, <2>4, <2>5, <2>6 DEF CP!RequestWillBeSent
<1>2. PICK x \in CP!Exchanges : net' = Append(net, x) /\ x.token <= Len(net)  BY <1>1
<1>3. net \in Seq(CP!Exchanges) /\ Len(net) \in Nat /\ DOMAIN net = 1..Len(net)  BY DEF CaptureInv
<1>4. /\ net' \in Seq(CP!Exchanges) /\ DOMAIN net' = 1..(Len(net) + 1)
      /\ \A id \in DOMAIN net : net'[id] = net[id]
      /\ net'[Len(net) + 1] = x
  BY <1>2, <1>3, AppendProperties
<1>5. \A id \in DOMAIN net' : net'[id].token < id
  <2> TAKE id \in DOMAIN net'
  <2>1. CASE id \in DOMAIN net  BY <1>4, <2>1 DEF CaptureInv
  <2>2. CASE id \notin DOMAIN net
    <3>1. id = Len(net) + 1  BY <1>3, <1>4, <2>2
    <3>2. x.token \in 0..MaxRequests  BY DEF CP!Exchanges
    <3> QED BY <1>2, <1>3, <1>4, <3>1, <3>2 DEF CP!RequestWillBeSent
  <2> QED BY <2>1, <2>2
<1>6. DOMAIN net \subseteq DOMAIN net'  BY <1>3, <1>4
<1> QED BY <1>4, <1>5, <1>6, Recorded DEF CP!RequestWillBeSent, CaptureInv

\* What an exchange goes through changes neither its number nor its token.
LEMMA Updated ==
    ASSUME CaptureInv, NEW id \in DOMAIN net, NEW x \in CP!Exchanges, x.token = net[id].token,
           net' = [net EXCEPT ![id] = x]
    PROVE  net' \in Seq(CP!Exchanges) /\ DOMAIN net' = DOMAIN net /\ \A j \in DOMAIN net' : net'[j].token < j
<1>1. net \in [1..Len(net) -> CP!Exchanges] /\ Len(net) \in Nat  BY SeqDef DEF CaptureInv
<1>2. net' \in [1..Len(net) -> CP!Exchanges]  BY <1>1
<1>3. net' \in Seq(CP!Exchanges)  BY <1>1, <1>2, SeqDef
<1>4. \A j \in DOMAIN net' : net'[j].token = net[j].token  BY <1>1
<1> QED BY <1>1, <1>2, <1>3, <1>4 DEF CaptureInv

LEMMA Goes ==
    ASSUME CaptureInv, NEW id \in DOMAIN net, NEW to \in {"sent", "ignored", "answered", "reading", "captured"}, CP!Goes(id, to)
    PROVE  net' \in Seq(CP!Exchanges) /\ DOMAIN net' = DOMAIN net /\ \A j \in DOMAIN net' : net'[j].token < j
<1> DEFINE x == [net[id] EXCEPT !.pc = to]
<1>1. net[id] \in CP!Exchanges  BY DEF CaptureInv
<1>2. x \in CP!Exchanges /\ x.token = net[id].token  BY <1>1 DEF CP!Exchanges
<1>3. net' = [net EXCEPT ![id] = x]  BY DEF CP!Goes
<1> HIDE DEF x
<1> QED BY <1>2, <1>3, Updated

LEMMA Numbered ==
    ASSUME CaptureInv, NEW id \in DOMAIN net, DOMAIN net' = DOMAIN net, captured' = Append(captured, id)
    PROVE  captured' \in Seq(Nat) /\ \A k \in DOMAIN captured' : captured'[k] \in DOMAIN net'
<1>1. id \in Nat  BY DEF CaptureInv
<1>2. captured \in Seq(Nat) /\ Len(captured) \in Nat /\ DOMAIN captured = 1..Len(captured)  BY DEF CaptureInv
<1>3. /\ captured' \in Seq(Nat) /\ DOMAIN captured' = 1..(Len(captured) + 1)
      /\ \A k \in DOMAIN captured : captured'[k] = captured[k]
      /\ captured'[Len(captured) + 1] = id
  BY <1>1, <1>2, AppendProperties
<1>4. \A k \in DOMAIN captured' : k \in DOMAIN captured \/ k = Len(captured) + 1  BY <1>2, <1>3
<1> QED BY <1>3, <1>4 DEF CaptureInv

LEMMA Answered ==
    ASSUME CaptureInv, NEW id \in 1..MaxRequests, CP!ResponseReceived(id)
    PROVE  CaptureInv'
<1>1. id \in DOMAIN net /\ recPhase = "recording"  BY DEF CP!ResponseReceived, CP!Heard
<1>2. PICK to \in {"ignored", "answered"} : CP!Goes(id, to)  BY DEF CP!ResponseReceived
<1>3. net' \in Seq(CP!Exchanges) /\ DOMAIN net' = DOMAIN net /\ \A j \in DOMAIN net' : net'[j].token < j
  BY <1>1, <1>2, Goes
<1> QED BY <1>1, <1>3, Recorded DEF CP!ResponseReceived, CaptureInv

LEMMA Finished ==
    ASSUME CaptureInv, NEW id \in 1..MaxRequests, CP!LoadingFinished(id)
    PROVE  CaptureInv'
<1>1. id \in DOMAIN net /\ recPhase = "recording"  BY DEF CP!LoadingFinished, CP!Heard
<1>2. PICK to \in {"reading", "captured"} : CP!Goes(id, to)  BY DEF CP!LoadingFinished
<1>3. net' \in Seq(CP!Exchanges) /\ DOMAIN net' = DOMAIN net /\ \A j \in DOMAIN net' : net'[j].token < j
  BY <1>1, <1>2, Goes
<1>4. captured' \in Seq(Nat) /\ \A k \in DOMAIN captured' : captured'[k] \in DOMAIN net'
  <2>1. CASE captured' = Append(captured, id)  BY <1>1, <1>3, <2>1, Numbered
  <2>2. CASE captured' = captured  BY <1>3, <2>2 DEF CaptureInv
  <2> QED BY <2>1, <2>2 DEF CP!LoadingFinished
<1> QED BY <1>1, <1>3, <1>4, Recorded DEF CP!LoadingFinished, CaptureInv

LEMMA Read ==
    ASSUME CaptureInv, NEW id \in 1..MaxRequests, CP!BodyRead(id)
    PROVE  CaptureInv'
<1>1. id \in DOMAIN net /\ recPhase # "flow"  BY DEF CP!BodyRead, CaptureInv
<1>2. PICK got \in BOOLEAN : net' = [net EXCEPT ![id] = [@ EXCEPT !.pc = "captured", !.body = got]]
  <2>1. (recPhase = "recording") \in BOOLEAN /\ FALSE \in BOOLEAN  OBVIOUS
  <2> QED BY <2>1 DEF CP!BodyRead
<1> DEFINE x == [net[id] EXCEPT !.pc = "captured", !.body = got]
<1>3. net[id] \in CP!Exchanges  BY <1>1 DEF CaptureInv
<1>4. x \in CP!Exchanges /\ x.token = net[id].token  BY <1>3 DEF CP!Exchanges
<1>5. net' = [net EXCEPT ![id] = x]  BY <1>2
<1>6. net' \in Seq(CP!Exchanges) /\ DOMAIN net' = DOMAIN net /\ \A j \in DOMAIN net' : net'[j].token < j
  <2> HIDE DEF x
  <2> QED BY <1>1, <1>4, <1>5, Updated
<1>7. captured' \in Seq(Nat) /\ \A k \in DOMAIN captured' : captured'[k] \in DOMAIN net'
  BY <1>1, <1>6, Numbered DEF CP!BodyRead
<1> HIDE DEF x
<1> QED BY <1>1, <1>6, <1>7, Recorded DEF CP!BodyRead, CaptureInv

LEMMA Stopped ==
    ASSUME CaptureInv, CP!Detach
    PROVE  CaptureInv'
BY Recorded DEF CP!Detach, CaptureInv

\* The flow starts with the steps of the exchanges that were kept.
LEMMA Flowed ==
    ASSUME CP!CaptureAssumption, CaptureInv, CP!ToFlowSteps
    PROVE  CaptureInv'
<1>1. net' = net /\ captured' = captured /\ entries' = entries /\ recPhase' = "flow" /\ steps' = CP!FlowSteps
      /\ \A id \in DOMAIN net : net[id].pc # "reading"
  BY DEF CP!ToFlowSteps
<1>2. FlowLen' = FlowLen /\ CP!FlowSteps' = CP!FlowSteps
  BY <1>1 DEF FlowLen, CP!FlowSteps, CP!Capped, CP!KeptAt, CP!Kept, CP!Nth, CP!Step
<1>3. CP!FlowSteps = [i \in 1..FlowLen |-> CP!Step(captured[CHOOSE k \in CP!KeptAt : CP!Nth(k) = i])]
  BY Counts DEF CP!FlowSteps, FlowLen
<1>4. ASSUME NEW m \in 1..FlowLen
      PROVE  CP!FlowSteps[m] \in FlowStep(m) /\ CP!FlowSteps[m].holes = {}
  <2>1. PICK id : CP!FlowSteps[m] = CP!Step(id)  BY <1>3
  <2> QED BY <2>1 DEF FlowStep, CP!Step
<1>5. (FlowSound)'
  <2>1. steps' = [m \in 1..FlowLen' |-> steps'[m]]  BY <1>1, <1>2, <1>3
  <2>2. \A m \in 1..FlowLen' : steps'[m] \in FlowStep(m)'  BY <1>1, <1>2, <1>4 DEF FlowStep
  <2>3. \A m \in 1..FlowLen' : steps'[m].holes = {}  BY <1>1, <1>2, <1>4
  <2> QED BY <2>1, <2>2, <2>3 DEF FlowSound
<1> QED BY <1>1, <1>5 DEF CaptureInv

\* A hole that step m has not had is where its request has the value.
Filled(m, new, step, var, value) ==
    /\ new.extract = step.extract
    /\ \A h \in new.holes :
          h \in step.holes
          \/ /\ steps[m].id \in DOMAIN net /\ net[steps[m].id].token = value
             /\ h = [var |-> var, value |-> value]

\* A step that says it uses a value has the variable where its request carried it.
LEMMA Substitution ==
    ASSUME CP!CaptureAssumption, CaptureInv, recPhase = "flow", NEW m \in 1..FlowLen, NEW step \in FlowStep(m),
           NEW n \in Nat, CP!StepOf(n) = m, NEW value \in Nat, NEW var \in Nat,
           NEW new, new = CP!Substituted(step, n, value, var)
    PROVE  new \in FlowStep(m) /\ Filled(m, new, step, var, value)
<1>1. n \in DOMAIN captured /\ steps[m].id = captured[n]  BY StepOfExchange
<1>2. step.id = captured[n] /\ steps[m].id \in DOMAIN net
  <2>1. steps[m] \in FlowStep(m)  BY DEF CaptureInv, FlowSound
  <2> QED BY <1>1, <2>1 DEF FlowStep, CaptureInv
<1> DEFINE hole == [var |-> var, value |-> value]
           with == [step EXCEPT !.holes = @ \cup {hole}]
<1>3. hole \in [var : Nat, value : Nat]  OBVIOUS
<1>4. with \in FlowStep(m) /\ with.extract = step.extract /\ with.holes = step.holes \cup {hole}
  <2> HIDE DEF hole
  <2> QED BY <1>3 DEF FlowStep
<1>5. new = step \/ (new = with /\ net[step.id].token = value)
  <2>1. CASE net[step.id].token = value  BY <2>1 DEF CP!Substituted
  <2>2. CASE net[step.id].token # value  BY <1>2, <2>2 DEF CP!Substituted
  <2> QED BY <2>1, <2>2
<1> HIDE DEF with
<1>6. CASE new = step  BY <1>6 DEF Filled
<1>7. CASE new = with /\ net[step.id].token = value
  <2> HIDE DEF hole
  <2>1. \A h \in new.holes : h \in step.holes \/ h = hole  BY <1>4, <1>7
  <2> QED BY <1>1, <1>2, <1>4, <1>7, <2>1 DEF hole, Filled
<1> QED BY <1>5, <1>6, <1>7

\* One answer of the AI: the step its value is from extracts a new variable, and
\* steps that carry the value have the variable in its place.
LEMMA Correlated ==
    ASSUME CP!CaptureAssumption, CaptureInv, NEW source \in 1..MaxRequests, NEW there \in SUBSET (1..MaxRequests),
           CP!ApplyCorrelation(source, there)
    PROVE  CaptureInv'
<1> DEFINE from  == CP!StepOf(source)
           value == CP!ValueAt(source)
           ruled == [steps EXCEPT ![from].extract = @ \cup {entries}]
           users == [m \in DOMAIN steps |-> {n \in there : CP!StepOf(n) = m /\ m # from}]
           mine(m) == IF users[m] = {} THEN ruled[m]
                      ELSE CP!Substituted(ruled[m], CHOOSE n \in users[m] : TRUE, value, entries)
<1>1. /\ net' = net /\ captured' = captured /\ recPhase = "flow" /\ recPhase' = "flow" /\ entries' = entries + 1
      /\ entries \in Nat /\ MaxRequests \in Nat
  BY DEF CP!ApplyCorrelation, CaptureInv, CP!CaptureAssumption
<1>2. \/ steps' = steps
      \/ /\ source \in DOMAIN captured /\ from \in DOMAIN steps
         /\ \/ steps' = ruled
            \/ value # 0 /\ steps' = [m \in DOMAIN steps |-> mine(m)]
  BY DEF CP!ApplyCorrelation, CP!Nowhere
<1>3. FlowLen' = FlowLen /\ CP!FlowSteps' = CP!FlowSteps
  BY <1>1 DEF FlowLen, CP!FlowSteps, CP!Capped, CP!KeptAt, CP!Kept, CP!Nth, CP!Step
<1>4. FlowSound /\ DOMAIN steps = 1..FlowLen /\ \A m \in 1..FlowLen : steps[m] \in FlowStep(m)
  BY <1>1 DEF CaptureInv, FlowSound
<1>5. ASSUME steps' = [m \in 1..FlowLen |-> steps'[m]],
             \A m \in 1..FlowLen : steps'[m] \in FlowStep(m) /\ steps[m].extract \subseteq steps'[m].extract,
             \A m \in 1..FlowLen : \A h \in steps'[m].holes :
                h \in steps[m].holes
                \/ /\ steps[m].id \in DOMAIN net /\ net[steps[m].id].token = h.value
                   /\ \E f \in 1..FlowLen : steps[f].id = h.value /\ h.var \in steps'[f].extract
      PROVE  CaptureInv'
  <2>1. \A m \in 1..FlowLen : steps'[m].id = steps[m].id  BY <1>4, <1>5 DEF FlowStep
  <2>2. ASSUME NEW m \in 1..FlowLen, NEW h \in steps'[m].holes
        PROVE  Wired(m, h)'
    <3>1. CASE h \in steps[m].holes
      <4>1. Wired(m, h)  BY <1>4, <3>1 DEF FlowSound
      <4>2. PICK f \in 1..FlowLen : steps[f].id = h.value /\ h.var \in steps[f].extract  BY <4>1 DEF Wired
      <4>3. steps'[f].id = h.value /\ h.var \in steps'[f].extract  BY <1>5, <2>1, <4>2
      <4> QED BY <1>1, <1>3, <2>1, <4>1, <4>3 DEF Wired
    <3>2. CASE /\ steps[m].id \in DOMAIN net /\ net[steps[m].id].token = h.value
               /\ \E f \in 1..FlowLen : steps[f].id = h.value /\ h.var \in steps'[f].extract
      BY <1>1, <1>3, <2>1, <3>2 DEF Wired
    <3> QED BY <1>5, <3>1, <3>2
  <2>3. \A m \in 1..FlowLen' : steps'[m] \in FlowStep(m)'  BY <1>3, <1>5 DEF FlowStep
  <2>4. FlowSound'  BY <1>3, <1>5, <2>2, <2>3 DEF FlowSound
  <2> QED BY <1>1, <2>4 DEF CaptureInv
<1>6. CASE steps' = steps
  <2>1. steps = [m \in 1..FlowLen |-> steps[m]]  BY <1>4 DEF FlowSound
  <2> QED BY <1>4, <1>5, <1>6, <2>1
<1>7. ASSUME source \in DOMAIN captured, from \in 1..FlowLen
      PROVE  /\ ruled = [m \in 1..FlowLen |-> ruled[m]]
             /\ \A m \in 1..FlowLen : /\ ruled[m] \in FlowStep(m) /\ ruled[m].holes = steps[m].holes
                                      /\ steps[m].extract \subseteq ruled[m].extract
             /\ entries \in ruled[from].extract
  <2> DEFINE one == [steps[from] EXCEPT !.extract = @ \cup {entries}]
  <2>1. steps[from] \in FlowStep(from)  BY <1>4, <1>7
  <2>2. /\ one \in FlowStep(from) /\ one.holes = steps[from].holes /\ steps[from].extract \subseteq one.extract
        /\ entries \in one.extract
    <3> HIDE DEF from
    <3> QED BY <1>1, <2>1 DEF FlowStep
  <2>3. ruled = [steps EXCEPT ![from] = one]  OBVIOUS
  <2> HIDE DEF one, ruled, from
  <2>4. DOMAIN ruled = 1..FlowLen /\ ruled[from] = one /\ \A m \in 1..FlowLen : m # from => ruled[m] = steps[m]
    BY <1>4, <1>7, <2>3
  <2>5. ruled = [m \in 1..FlowLen |-> ruled[m]]  BY <1>4, <2>3
  <2> QED BY <1>4, <2>2, <2>4, <2>5
<1>8. CASE source \in DOMAIN captured /\ from \in DOMAIN steps /\ steps' = ruled
  <2>1. from \in 1..FlowLen  BY <1>4, <1>8
  <2> HIDE DEF ruled, from
  <2> QED BY <1>5, <1>7, <1>8, <2>1
<1>9. CASE source \in DOMAIN captured /\ from \in DOMAIN steps /\ value # 0 /\ steps' = [m \in DOMAIN steps |-> mine(m)]
  <2>1. from \in 1..FlowLen /\ source \in Nat  BY <1>1, <1>4, <1>9
  <2>2. steps[from].id = captured[source]  BY <1>1, <2>1, StepOfExchange
  <2>3. value = captured[source] /\ value \in Nat
    <3>1. captured[source] \in Nat  BY <1>9 DEF CaptureInv
    <3> QED BY <1>9, <3>1 DEF CP!ValueAt, CP!Nowhere
  <2>4. \A m \in 1..FlowLen : steps'[m] = mine(m)  BY <1>4, <1>9
  <2>5. ASSUME NEW m \in 1..FlowLen
        PROVE  steps'[m] \in FlowStep(m) /\ Filled(m, steps'[m], ruled[m], entries, value)
    <3>1. CASE users[m] = {}
      <4>1. steps'[m] = ruled[m]  BY <2>4, <3>1
      <4> HIDE DEF ruled, from, value, users
      <4> QED BY <1>7, <1>9, <2>1, <4>1 DEF Filled
    <3>2. CASE users[m] # {}
      <4> DEFINE n == CHOOSE i \in users[m] : TRUE
      <4>1. n \in users[m]  BY <3>2
      <4>2. n \in there /\ CP!StepOf(n) = m  BY <1>4, <4>1
      <4>3. n \in Nat
        <5> HIDE DEF n
        <5> QED BY <1>1, <4>2
      <4>4. steps'[m] = CP!Substituted(ruled[m], n, value, entries)  BY <2>4, <3>2
      <4>5. ruled[m] \in FlowStep(m)  BY <1>7, <1>9, <2>1
      <4> HIDE DEF ruled, from, value, users, n
      <4>6. ASSUME NEW step \in FlowStep(m), NEW new, new = CP!Substituted(step, n, value, entries)
            PROVE  new \in FlowStep(m) /\ Filled(m, new, step, entries, value)
        <5>1. recPhase = "flow" /\ entries \in Nat /\ value \in Nat /\ n \in Nat /\ CP!StepOf(n) = m  BY <1>1, <2>3, <4>2, <4>3
        <5> QED BY <4>6, <5>1, Substitution
      <4> QED BY <4>4, <4>5, <4>6
    <3> QED BY <3>1, <3>2
  <2>6. steps' = [m \in 1..FlowLen |-> steps'[m]]  BY <1>4, <1>9
  <2>7. entries \in steps'[from].extract  BY <1>7, <1>9, <2>1, <2>5 DEF Filled
  <2>8. \A m \in 1..FlowLen : steps'[m] \in FlowStep(m) /\ steps[m].extract \subseteq steps'[m].extract
    <3> HIDE DEF ruled, from, value
    <3> QED BY <1>7, <1>9, <2>1, <2>5 DEF Filled
  <2>9. ASSUME NEW m \in 1..FlowLen, NEW h \in steps'[m].holes
        PROVE  h \in steps[m].holes
               \/ /\ steps[m].id \in DOMAIN net /\ net[steps[m].id].token = h.value
                  /\ \E f \in 1..FlowLen : steps[f].id = h.value /\ h.var \in steps'[f].extract
    <3> HIDE DEF ruled, from, value
    <3>1. ruled[m].holes = steps[m].holes  BY <1>7, <1>9, <2>1
    <3>2. CASE h \in ruled[m].holes  BY <3>1, <3>2
    <3>3. CASE /\ steps[m].id \in DOMAIN net /\ net[steps[m].id].token = value
               /\ h = [var |-> entries, value |-> value]
      <4>1. h.value = value /\ h.var = entries  BY <3>3
      <4> QED BY <2>1, <2>2, <2>3, <2>7, <3>3, <4>1
    <3> QED BY <2>5, <3>2, <3>3 DEF Filled
  <2> HIDE DEF ruled, from, value, users
  <2> QED BY <1>5, <2>6, <2>8, <2>9
<1> HIDE DEF ruled, from, value, users
<1> QED BY <1>2, <1>6, <1>8, <1>9

LEMMA CaptureStep ==
    ASSUME CP!CaptureAssumption, CaptureInv, Capture
    PROVE  CaptureInv'
<1>1. CASE CP!RequestWillBeSent  BY <1>1, Sent
<1>2. CASE CP!Detach             BY <1>2, Stopped
<1>3. CASE CP!ToFlowSteps        BY <1>3, Flowed
<1>4. ASSUME NEW id \in 1..MaxRequests, CP!ResponseReceived(id)  PROVE CaptureInv'  BY <1>4, Answered
<1>5. ASSUME NEW id \in 1..MaxRequests, CP!LoadingFinished(id)   PROVE CaptureInv'  BY <1>5, Finished
<1>6. ASSUME NEW id \in 1..MaxRequests, CP!BodyRead(id)          PROVE CaptureInv'  BY <1>6, Read
<1>7. ASSUME NEW source \in 1..MaxRequests, NEW there \in SUBSET (1..MaxRequests), CP!ApplyCorrelation(source, there)
      PROVE  CaptureInv'
  BY <1>7, Correlated
<1> QED BY <1>1, <1>2, <1>3, <1>4, <1>5, <1>6, <1>7 DEF Capture, Cap

LEMMA CaptureStutter ==
    ASSUME CaptureInv, UNCHANGED cpvars
    PROVE  CaptureInv'
<1>1. net' = net /\ captured' = captured /\ recPhase' = recPhase /\ steps' = steps /\ entries' = entries  BY DEF cpvars
<1>2. FlowLen' = FlowLen /\ CP!FlowSteps' = CP!FlowSteps
  BY <1>1 DEF FlowLen, CP!FlowSteps, CP!Capped, CP!KeptAt, CP!Kept, CP!Nth, CP!Step
<1>3. FlowSound' <=> FlowSound  BY <1>1, <1>2 DEF FlowSound, FlowStep, Wired
<1> QED BY <1>1, <1>3 DEF CaptureInv

\* What is known of the capture gives the property: the token a step carries is of
\* an exchange before its own, so the step that extracts the variable is another.
LEMMA WiredFlow ==
    ASSUME CaptureInv
    PROVE  CP!WiredToItsSource
<1>0. CASE recPhase # "flow"
  <2>1. steps = <<>>  BY <1>0 DEF CaptureInv
  <2>2. CP!Range(steps) = {}  BY <2>1 DEF CP!Range
  <2> QED BY <2>2 DEF CP!WiredToItsSource
<1>1. CASE recPhase = "flow"
  <2> SUFFICES ASSUME NEW s \in CP!Range(steps), NEW h \in s.holes
               PROVE  /\ net[s.id].token = h.value
                      /\ \E t \in CP!Range(steps) : t.id = h.value /\ t # s /\ h.var \in t.extract
    BY DEF CP!WiredToItsSource
  <2>1. FlowSound /\ DOMAIN steps = 1..FlowLen  BY <1>1 DEF CaptureInv, FlowSound
  <2>2. PICK m \in 1..FlowLen : s = steps[m]  BY <2>1 DEF CP!Range
  <2>3. Wired(m, h)  BY <2>1, <2>2 DEF FlowSound
  <2>4. PICK f \in 1..FlowLen : steps[f].id = h.value /\ h.var \in steps[f].extract  BY <2>3 DEF Wired
  <2>5. steps[f] \in CP!Range(steps)  BY <2>1 DEF CP!Range
  <2>6. s.id \in DOMAIN net /\ net[s.id].token = h.value /\ net[s.id].token < s.id
    BY <2>2, <2>3 DEF Wired, CaptureInv
  <2>7. steps[f] # s
    <3> SUFFICES ASSUME steps[f] = s PROVE FALSE  OBVIOUS
    <3>1. s.id \in Nat  BY <2>6 DEF CaptureInv
    <3>2. s.id < s.id  BY <2>4, <2>6
    <3> QED BY <3>1, <3>2
  <2> QED BY <2>4, <2>5, <2>6, <2>7
<1> QED BY <1>0, <1>1

\* Whatever was filtered, capped or made up by the AI, each variable of the flow is
\* where the browser sent a token that another step extracts (Capture).
THEOREM WiredCorrect == Spec => []WiredToItsSource
<1> USE Assumptions
<1> DEFINE Inv == part = "capture" => CaptureInv
<1>1. CP!CaptureAssumption  BY DEF Assumptions
<1>2. Init => Inv
  <2> SUFFICES ASSUME Init PROVE CaptureInv  OBVIOUS
  <2>1. net = <<>> /\ captured = <<>> /\ recPhase = "recording" /\ steps = <<>> /\ entries = 0
    BY DEF Init, CP!CaptureInit
  <2> QED BY <2>1 DEF CaptureInv
<1>3. Inv /\ [Next]_allvars => Inv'
  BY <1>1, Frame, CaptureStep, CaptureStutter
<1>4. Inv => WiredToItsSource  BY WiredFlow DEF WiredToItsSource
<1> QED BY <1>2, <1>3, <1>4, PTL DEF Spec
=============================================================================
