---------------------------- MODULE Results_proofs -----------------------------
(***************************************************************************)
(* Proofs about what reaches the viewers of a test and the users of the AI *)
(* routes: LiveMetrics, RunLog, ResultView and AiRoutes, as components of  *)
(* MCServices and for all values of their constants.                       *)
(***************************************************************************)
EXTENDS MCServices, FiniteSetTheorems, TLAPS

\* A step of MCServices is one of the component of the behaviour, or leaves that
\* component alone; the component never changes.
LEMMA Frame ==
    ASSUME [Next]_allvars
    PROVE  /\ part' = part
           /\ part = "live"     => Live \/ UNCHANGED lmvars
           /\ part = "log"      => ExecutionLog \/ UNCHANGED rlvars
           /\ part = "view"     => View \/ UNCHANGED rvvars
           /\ part = "routes"   => Asking \/ UNCHANGED arvars
<1>1. CASE Recorder  BY <1>1 DEF Recorder, Rec
<1>2. CASE Scripts   BY <1>2 DEF Scripts, Scr
<1>3. CASE Edits     BY <1>3 DEF Edits, Edi
<1>4. CASE Schema    BY <1>4 DEF Schema, Sch
<1>5. CASE Capture   BY <1>5 DEF Capture, Cap
<1>6. CASE Calls     BY <1>6 DEF Calls, Cal
<1>7. CASE Chat      BY <1>7 DEF Chat, Cha
<1>8. CASE Plan      BY <1>8 DEF Plan, Pla
<1>9. CASE Live      BY <1>9 DEF Live, Liv
<1>10. CASE ExecutionLog BY <1>10 DEF ExecutionLog, Log
<1>11. CASE View     BY <1>11 DEF View, Vie
<1>12. CASE Asking   BY <1>12 DEF Asking, Rou
<1>13. CASE Judging  BY <1>13 DEF Judging, Ver
<1>14. CASE UNCHANGED allvars BY <1>14 DEF allvars
<1> QED BY <1>1, <1>2, <1>3, <1>4, <1>5, <1>6, <1>7, <1>8, <1>9, <1>10, <1>11, <1>12, <1>13, <1>14 DEF Next

-----------------------------------------------------------------------------
(* LiveMetrics. *)

\* LiveMetrics has the library's cardinality under a name of its own.
LEMMA LiveCardinality ==
    ASSUME NEW A
    PROVE  LM!Cardinality(A) = Cardinality(A)
BY DEF LM!Cardinality, Cardinality

\* What the rest of a line is when half of it lies before the place z.
RestAt(z) == IF z % 2 = 0 THEN <<>> ELSE <<z>>

\* A text that begins with a line, from half 2 * h + 1 on to half z.
TextOf(text, h, z) ==
    /\ text \in Seq(Nat) /\ DOMAIN text = 1..(z - 2 * h) /\ Len(text) = z - 2 * h
    /\ \A i \in 1..(z - 2 * h) : text[i] = 2 * h + i

\* With what was left of the last read, the next one begins with a line.
LEMMA ReadsOn ==
    ASSUME NEW o \in Nat, NEW z \in Nat, o < z
    PROVE  \E h \in Nat : /\ o \in {2 * h, 2 * h + 1}
                          /\ TextOf(RestAt(o) \o [i \in 1..(z - o) |-> o + i], h, z)
<1> DEFINE bytes == [i \in 1..(z - o) |-> o + i]
<1>0. bytes \in Seq(Nat) /\ Len(bytes) = z - o /\ DOMAIN bytes = 1..(z - o) /\ \A i \in 1..(z - o) : bytes[i] = o + i
  <2>1. z - o \in Nat  OBVIOUS
  <2>2. \A i \in 1..(z - o) : o + i \in Nat  OBVIOUS
  <2> QED BY <2>1, <2>2
<1>1. CASE o % 2 = 0
  <2>1. PICK h \in Nat : o = 2 * h
    <3>1. o = 2 * (o \div 2) /\ o \div 2 \in Nat  BY <1>1
    <3> QED BY <3>1
  <2> HIDE DEF bytes
  <2>2. RestAt(o) \o bytes = bytes  BY <1>0, <1>1 DEF RestAt
  <2>3. TextOf(bytes, h, z)  BY <1>0, <2>1 DEF TextOf
  <2> QED BY <2>1, <2>2, <2>3 DEF bytes
<1>2. CASE o % 2 # 0
  <2>1. PICK h \in Nat : o = 2 * h + 1
    <3>1. o = 2 * (o \div 2) + 1 /\ o \div 2 \in Nat  BY <1>2
    <3> QED BY <3>1
  <2> HIDE DEF bytes
  <2> DEFINE text == <<o>> \o bytes
  <2>2. text \in Seq(Nat) /\ Len(text) = z - 2 * h /\ DOMAIN text = 1..(z - 2 * h)
    BY <1>0, <2>1
  <2>3. ASSUME NEW i \in 1..(z - 2 * h) PROVE text[i] = 2 * h + i
    <3>1. CASE i = 1  BY <1>0, <2>1, <3>1
    <3>2. CASE i # 1
      <4>1. i - 1 \in 1..(z - o)  BY <2>1, <3>2
      <4>2. text[i] = bytes[i - 1]  BY <1>0, <2>1, <3>2
      <4>3. bytes[i - 1] = o + (i - 1)  BY <1>0, <4>1
      <4>4. i \in Nat /\ o + (i - 1) = 2 * h + i  BY <2>1
      <4> HIDE DEF text
      <4> QED BY <4>2, <4>3, <4>4
    <3> QED BY <3>1, <3>2
  <2>4. TextOf(text, h, z)  BY <2>2, <2>3 DEF TextOf
  <2> QED BY <1>2, <2>1, <2>4 DEF RestAt, bytes
<1> QED BY <1>1, <1>2

\* Every line of such a text is counted once, and the rest of it is kept.
LEMMA WholeLines ==
    ASSUME NEW h \in Nat, NEW z \in Nat, 2 * h < z, NEW text, TextOf(text, h, z)
    PROVE  /\ \A k \in Nat : LM!Counts(text, k) = IF 2 * h < 2 * k /\ 2 * k <= z THEN 1 ELSE 0
           /\ \A k \in Nat : 2 * h < 2 * k /\ 2 * k <= z /\ k \in measures => LM!IsWindow(text)
           /\ LM!Rest(text) = RestAt(z)
<1> DEFINE n == z - 2 * h
<1>0. n \in Nat /\ n > 0 /\ DOMAIN text = 1..n /\ Len(text) = n /\ text \in Seq(Nat) /\ \A i \in 1..n : text[i] = 2 * h + i
  BY DEF TextOf
<1>1. LM!Cuts(text) = {i \in 1..n : i % 2 = 0}
  <2>1. \A i \in 1..n : (2 * h + i) % 2 = 0 <=> i % 2 = 0  OBVIOUS
  <2> HIDE DEF n
  <2> QED BY <1>0, <2>1 DEF LM!Cuts
<1>2. LM!LinesIn(text) = {i \in 1..n : i % 2 = 0}
  <2> HIDE DEF n
  <2>1. \A i \in LM!Cuts(text) : i \in 1..n /\ i % 2 = 0 /\ i > 1 /\ i - 1 \in 1..n /\ i \in Nat
    BY <1>0, <1>1
  <2>2. \A i \in LM!Cuts(text) : text[i] = 2 * h + i /\ text[i - 1] = 2 * h + (i - 1)
    BY <1>0, <2>1
  <2>3. \A i \in LM!Cuts(text) : text[i - 1] = text[i] - 1
    BY <2>1, <2>2
  <2>4. \A i \in LM!Cuts(text) : i = 2 \/ i - 2 \in LM!Cuts(text)
    <3> TAKE i \in LM!Cuts(text)
    <3>1. i \in 1..n /\ i % 2 = 0 /\ n \in Nat  BY <1>0, <1>1
    <3>2. i = 2 \/ i - 2 \in 1..n  BY <3>1
    <3>3. (i - 2) % 2 = 0  BY <3>1
    <3> QED BY <1>1, <3>2, <3>3
  <2> QED BY <1>1, <2>1, <2>3, <2>4 DEF LM!LinesIn
<1> DEFINE found(k) == {i \in LM!LinesIn(text) : text[i] = 2 * k}
<1>3. ASSUME NEW k \in Nat, 2 * h < 2 * k, 2 * k <= z
      PROVE  found(k) = {2 * k - 2 * h} /\ 2 * k - 2 * h \in LM!LinesIn(text) /\ text[2 * k - 2 * h] = 2 * k
  <2>1. 2 * k - 2 * h \in 1..n /\ (2 * k - 2 * h) % 2 = 0  BY <1>3
  <2> HIDE DEF n
  <2>2. 2 * k - 2 * h \in LM!LinesIn(text) /\ text[2 * k - 2 * h] = 2 * k  BY <1>0, <1>2, <2>1
  <2>3. \A i \in LM!LinesIn(text) : i \in Nat /\ text[i] = 2 * h + i  BY <1>0, <1>2
  <2>4. \A i \in LM!LinesIn(text) : text[i] = 2 * k => i = 2 * k - 2 * h  BY <2>3
  <2> QED BY <2>2, <2>4
<1>4. ASSUME NEW k \in Nat, ~(2 * h < 2 * k /\ 2 * k <= z)
      PROVE  found(k) = {}
  <2>1. \A i \in LM!LinesIn(text) : i \in 1..n /\ text[i] = 2 * h + i
    <3> HIDE DEF n
    <3> QED BY <1>0, <1>2
  <2>2. \A i \in 1..n : 2 * h + i # 2 * k  BY <1>4
  <2> QED BY <2>1, <2>2
<1>5. \A k \in Nat : LM!Counts(text, k) = IF 2 * h < 2 * k /\ 2 * k <= z THEN 1 ELSE 0
  <2>1. \A k \in Nat : LM!Counts(text, k) = Cardinality(found(k))  BY LiveCardinality DEF LM!Counts
  <2> HIDE DEF found
  <2>2. ASSUME NEW k \in Nat, 2 * h < 2 * k, 2 * k <= z PROVE LM!Counts(text, k) = 1
    <3>1. found(k) = {2 * k - 2 * h}  BY <1>3, <2>2
    <3> QED BY <2>1, <3>1, FS_Singleton
  <2>3. ASSUME NEW k \in Nat, ~(2 * h < 2 * k /\ 2 * k <= z) PROVE LM!Counts(text, k) = 0
    <3>1. found(k) = {}  BY <1>4, <2>3
    <3> QED BY <2>1, <3>1, FS_EmptySet
  <2> QED BY <2>2, <2>3
<1>6. ASSUME NEW k \in Nat, 2 * h < 2 * k, 2 * k <= z, k \in measures
      PROVE  LM!IsWindow(text)
  <2>1. (2 * k) \div 2 = k  OBVIOUS
  <2> QED BY <1>3, <1>6, <2>1 DEF LM!IsWindow
<1>7. LM!Rest(text) = RestAt(z)
  <2> DEFINE S == LM!Cuts(text) \cup {0}
             m == IF n % 2 = 0 THEN n ELSE n - 1
  <2>1. m \in S /\ (\A y \in S : m >= y) /\ S \subseteq Nat /\ m \in Nat
    <3>1. n \in Nat /\ n > 0 /\ S = {i \in 1..n : i % 2 = 0} \cup {0}  BY <1>0, <1>1
    <3> HIDE DEF n, S
    <3>2. CASE n % 2 = 0
      <4>1. m = n  BY <3>2
      <4> QED BY <3>1, <3>2, <4>1
    <3>3. CASE n % 2 # 0
      <4>1. m = n - 1 /\ (n - 1) % 2 = 0  BY <3>1, <3>3
      <4>2. \A i \in 1..n : i % 2 = 0 => i <= n - 1  BY <3>1, <3>3
      <4>3. n - 1 \in Nat /\ (n - 1 = 0 \/ n - 1 \in 1..n)  BY <3>1
      <4> HIDE DEF m
      <4> QED BY <3>1, <4>1, <4>2, <4>3
    <3> QED BY <3>2, <3>3
  <2>2. LM!Max(S) = m
    <3> HIDE DEF S, m
    <3> DEFINE x == LM!Max(S)
    <3>1. x \in S /\ \A y \in S : x >= y  BY <2>1 DEF LM!Max
    <3>2. x \in Nat /\ x >= m /\ m >= x  BY <2>1, <3>1
    <3> HIDE DEF x
    <3>3. x = m  BY <2>1, <3>2
    <3> QED BY <3>3 DEF x
  <2>3. LM!Rest(text) = SubSeq(text, m + 1, n)
    BY <1>0, <2>2 DEF LM!Rest
  <2>4. CASE n % 2 = 0
    <3>1. SubSeq(text, n + 1, n) = <<>>  BY <1>0
    <3>2. z % 2 = 0  BY <2>4
    <3> QED BY <2>3, <2>4, <3>1, <3>2 DEF RestAt
  <2>5. CASE n % 2 # 0
    <3>1. z % 2 # 0  BY <2>5
    <3>2. n \in 1..n /\ text[n] = z  BY <1>0
    <3> HIDE DEF n
    <3>3. SubSeq(text, n, n) = <<text[n]>>
      <4>1. /\ SubSeq(text, n, n) \in Seq(Nat) /\ Len(SubSeq(text, n, n)) = 1
            /\ SubSeq(text, n, n)[1] = text[n]
        BY <1>0, <3>2
      <4> DEFINE q == SubSeq(text, n, n)
                 last == text[n]
      <4>2. q \in Seq(Nat) /\ Len(q) = 1 /\ q[1] = last  BY <4>1
      <4> HIDE DEF q, last
      <4>3. q = [i \in 1..1 |-> last]  BY <4>2
      <4>4. <<last>> = [i \in 1..1 |-> last]  OBVIOUS
      <4> QED BY <4>3, <4>4 DEF q, last
    <3>4. m + 1 = n  BY <1>0, <2>5
    <3> HIDE DEF m
    <3> QED BY <2>3, <3>1, <3>2, <3>3, <3>4 DEF RestAt
  <2> QED BY <2>4, <2>5
<1> QED BY <1>5, <1>6, <1>7
-----------------------------------------------------------------------------
(* RunLog. *)

\* The members of a sequence, and one that has no member twice.
Elems(s) == {s[i] : i \in DOMAIN s}
Distinct(s) == \A i, j \in DOMAIN s : s[i] = s[j] => i = j

\* A line is in one place: the batcher, one batch on its way, or the viewers; it is
\* kept for the result wherever it is.
LogInv ==
    /\ printed \in Nat /\ running \in BOOLEAN /\ timer \in BOOLEAN
    /\ kept \in Seq(Nat) /\ pending \in Seq(Nat) /\ viewed \in Seq(Nat) /\ sent \subseteq Seq(Nat)
    /\ Elems(kept) \subseteq 1..printed
    /\ Elems(pending) \subseteq Elems(kept) /\ Elems(viewed) \subseteq Elems(kept)
    /\ \A b \in sent : Elems(b) \subseteq Elems(kept)
    /\ Distinct(pending) /\ Distinct(viewed)
    /\ Elems(pending) \cap Elems(viewed) = {}
    /\ \A b \in sent : Distinct(b) /\ Elems(b) \cap Elems(pending) = {} /\ Elems(b) \cap Elems(viewed) = {}
    /\ \A b, c \in sent : b # c => Elems(b) \cap Elems(c) = {}
    /\ pending # <<>> => running /\ timer

\* What is in one sequence or another is in their concatenation ...
LEMMA ElemsConcat ==
    ASSUME NEW s \in Seq(Nat), NEW t \in Seq(Nat)
    PROVE  /\ s \o t \in Seq(Nat) /\ Elems(s \o t) = Elems(s) \cup Elems(t)
           /\ Distinct(s) /\ Distinct(t) /\ Elems(s) \cap Elems(t) = {} => Distinct(s \o t)
<1> DEFINE u == s \o t
<1>1. /\ u \in Seq(Nat) /\ Len(u) = Len(s) + Len(t) /\ Len(s) \in Nat /\ Len(t) \in Nat
      /\ \A i \in 1..Len(s) + Len(t) : u[i] = IF i <= Len(s) THEN s[i] ELSE t[i - Len(s)]
  OBVIOUS
<1>2. DOMAIN s = 1..Len(s) /\ DOMAIN t = 1..Len(t) /\ DOMAIN u = 1..Len(u)
  BY <1>1
<1> HIDE DEF u
<1>3. \A i \in DOMAIN s : i \in DOMAIN u /\ u[i] = s[i]
  BY <1>1, <1>2
<1>4. \A i \in DOMAIN t : i + Len(s) \in DOMAIN u /\ u[i + Len(s)] = t[i]
  <2> TAKE i \in DOMAIN t
  <2>1. i \in 1..Len(t) /\ Len(s) \in Nat /\ Len(t) \in Nat  BY <1>1, <1>2
  <2>2. i + Len(s) \in 1..Len(s) + Len(t) /\ ~(i + Len(s) <= Len(s)) /\ (i + Len(s)) - Len(s) = i  BY <2>1
  <2> QED BY <1>1, <1>2, <2>2
<1>5. \A i \in DOMAIN u : \/ i \in DOMAIN s /\ u[i] = s[i]
                          \/ i - Len(s) \in DOMAIN t /\ u[i] = t[i - Len(s)]
  BY <1>1, <1>2
<1>6. Elems(u) = Elems(s) \cup Elems(t)
  <2>1. Elems(u) \subseteq Elems(s) \cup Elems(t)  BY <1>5 DEF Elems
  <2>2. Elems(s) \subseteq Elems(u)  BY <1>3 DEF Elems
  <2>3. Elems(t) \subseteq Elems(u)  BY <1>4 DEF Elems
  <2> QED BY <2>1, <2>2, <2>3
<1>7. ASSUME Distinct(s), Distinct(t), Elems(s) \cap Elems(t) = {}
      PROVE  Distinct(u)
  <2> SUFFICES ASSUME NEW i \in DOMAIN u, NEW j \in DOMAIN u, u[i] = u[j] PROVE i = j
    BY DEF Distinct
  <2>0. i \in Nat /\ j \in Nat /\ Len(s) \in Nat  BY <1>1, <1>2
  <2>1. \A k \in DOMAIN s, m \in DOMAIN t : s[k] # t[m]  BY <1>7 DEF Elems
  <2>2. CASE i \in DOMAIN s /\ u[i] = s[i] /\ j \in DOMAIN s /\ u[j] = s[j]
    BY <1>7, <2>2 DEF Distinct
  <2>3. CASE i - Len(s) \in DOMAIN t /\ u[i] = t[i - Len(s)] /\ j - Len(s) \in DOMAIN t /\ u[j] = t[j - Len(s)]
    <3>1. i - Len(s) = j - Len(s)  BY <1>7, <2>3 DEF Distinct
    <3> QED BY <2>0, <3>1
  <2> QED BY <1>5, <2>1, <2>2, <2>3
<1> QED BY <1>1, <1>6, <1>7 DEF u

\* ... and of a single line that is not in the sequence yet.
LEMMA ElemsAppend ==
    ASSUME NEW s \in Seq(Nat), NEW n \in Nat
    PROVE  /\ Append(s, n) \in Seq(Nat) /\ Elems(Append(s, n)) = Elems(s) \cup {n}
           /\ Append(s, n) # <<>>
           /\ Distinct(s) /\ n \notin Elems(s) => Distinct(Append(s, n))
<1> DEFINE u == Append(s, n)
<1>1. /\ u \in Seq(Nat) /\ Len(u) = Len(s) + 1 /\ Len(s) \in Nat
      /\ \A i \in 1..Len(s) : u[i] = s[i]
      /\ u[Len(s) + 1] = n
  OBVIOUS
<1>2. DOMAIN s = 1..Len(s) /\ DOMAIN u = 1..Len(s) + 1
  BY <1>1
<1> HIDE DEF u
<1>3. \A i \in DOMAIN u : \/ i \in DOMAIN s /\ u[i] = s[i]
                          \/ i = Len(s) + 1 /\ u[i] = n
  BY <1>1, <1>2
<1>4. /\ \A i \in DOMAIN s : i \in DOMAIN u /\ u[i] = s[i]
      /\ Len(s) + 1 \in DOMAIN u
  BY <1>1, <1>2
<1>5. Elems(u) = Elems(s) \cup {n}
  <2>1. Elems(u) \subseteq Elems(s) \cup {n}  BY <1>3 DEF Elems
  <2>2. Elems(s) \subseteq Elems(u)  BY <1>4 DEF Elems
  <2>3. n \in Elems(u)  BY <1>1, <1>4 DEF Elems
  <2> QED BY <2>1, <2>2, <2>3
<1>6. ASSUME Distinct(s), n \notin Elems(s) PROVE Distinct(u)
  BY <1>3, <1>6 DEF Distinct, Elems
<1>7. u # <<>>  BY <1>1
<1> QED BY <1>1, <1>5, <1>6, <1>7 DEF u

\* Printing a line that is not kept, or half a line, changes no place of a line.
LEMMA LogStays ==
    ASSUME LogInv, UNCHANGED <<kept, pending, timer, sent, viewed, running>>, printed' \in Nat, printed <= printed'
    PROVE  LogInv'
<1>1. Elems(kept)' = Elems(kept) /\ Elems(pending)' = Elems(pending) /\ Elems(viewed)' = Elems(viewed)
  BY DEF Elems
<1>2. Distinct(pending)' /\ Distinct(viewed)'
  BY DEF Distinct, LogInv
<1>3. Elems(kept) \subseteq 1..printed'
  <2>1. printed \in Nat /\ 1..printed \subseteq 1..printed'  BY DEF LogInv
  <2> QED BY <2>1 DEF LogInv
<1> QED BY <1>1, <1>2, <1>3 DEF LogInv

\* The first three facts about a batch are those that its flush needs.
LEMMA FlushKeeps ==
    ASSUME LogInv, NEW b \in Seq(Nat), RL!Flushed(b), Elems(b) \subseteq Elems(kept)', Elems(kept) \subseteq Elems(kept)',
           Distinct(b), Elems(b) \cap Elems(viewed) = {}, \A c \in sent : Elems(b) \cap Elems(c) = {},
           kept' \in Seq(Nat), printed' \in Nat, Elems(kept)' \subseteq 1..printed', viewed' = viewed,
           running' \in BOOLEAN
    PROVE  LogInv'
<1>1. sent' \in {sent, sent \cup {b}} /\ pending' = <<>> /\ timer' = FALSE
  BY DEF RL!Flushed
<1>2. <<>> \in Seq(Nat) /\ Elems(<<>>) = {} /\ Distinct(<<>>)
  BY DEF Elems, Distinct
<1>3. Elems(pending)' = {} /\ Distinct(pending)'
  BY <1>1, <1>2 DEF Elems, Distinct
<1>4. /\ Elems(viewed)' = Elems(viewed) /\ Distinct(viewed)'
      /\ \A c \in sent' : c \in Seq(Nat) /\ Elems(c) \subseteq Elems(kept)' /\ Distinct(c) /\ Elems(c) \cap Elems(viewed) = {}
      /\ \A c, d \in sent' : c # d => Elems(c) \cap Elems(d) = {}
  <2>1. Elems(viewed)' = Elems(viewed)  BY DEF Elems
  <2>2. Distinct(viewed)'  BY DEF LogInv, Distinct
  <2>3. \A c \in sent' : c \in Seq(Nat) /\ Elems(c) \subseteq Elems(kept)' /\ Distinct(c) /\ Elems(c) \cap Elems(viewed) = {}
    BY <1>1 DEF LogInv
  <2>4. \A c, d \in sent' : c # d => Elems(c) \cap Elems(d) = {}
    BY <1>1 DEF LogInv
  <2> QED BY <2>1, <2>2, <2>3, <2>4
<1>5. Elems(viewed) \subseteq Elems(kept)' /\ viewed \in Seq(Nat)  BY DEF LogInv
<1>6. \A c \in sent : Distinct(c)' = Distinct(c) /\ Elems(c)' = Elems(c)  BY DEF Elems, Distinct
<1> QED BY <1>1, <1>2, <1>3, <1>4, <1>5 DEF LogInv

\* Every step of k6's streams, the timer and the requests keeps a line in one place.
LEMMA LogStep ==
    ASSUME RL!RunLogAssumption, LogInv, ExecutionLog
    PROVE  LogInv'
<1>0. /\ printed \in Nat /\ kept \in Seq(Nat) /\ pending \in Seq(Nat) /\ viewed \in Seq(Nat) /\ sent \subseteq Seq(Nat)
      /\ running \in BOOLEAN /\ timer \in BOOLEAN
  BY DEF LogInv
<1>1. ASSUME NEW s \in Streams, RL!Chunk(s) PROVE LogInv'
  BY <1>0, <1>1, LogStays DEF RL!Chunk
<1>2. ASSUME NEW s \in Streams, RL!Line(s) PROVE LogInv'
  <2>0. running /\ running' = running /\ viewed' = viewed  BY <1>2 DEF RL!Line
  <2>1. CASE UNCHANGED <<printed, kept, pending, timer, sent>>
    BY <1>0, <2>0, <2>1, LogStays
  <2>2. CASE printed' = printed + 1 /\ UNCHANGED <<kept, pending, timer, sent>>
    <3>1. printed' \in Nat /\ printed <= printed'  BY <1>0, <2>2
    <3> QED BY <2>0, <2>2, <3>1, LogStays
  <2>3. CASE printed' = printed + 1 /\ kept' = Append(kept, printed') /\ RL!Pushed(printed')
    <3> DEFINE n == printed + 1
               batch == Append(pending, n)
    <3>0. n \in Nat /\ printed' = n /\ n \in 1..n /\ 1..printed \subseteq 1..n /\ n \notin 1..printed
      BY <1>0, <2>3
    <3>1. /\ kept' \in Seq(Nat) /\ Elems(kept)' = Elems(kept) \cup {n}
          /\ n \notin Elems(kept)
      <4>1. kept' = Append(kept, n)  BY <2>3
      <4>2. Append(kept, n) \in Seq(Nat) /\ Elems(Append(kept, n)) = Elems(kept) \cup {n}
        BY <1>0, <3>0, ElemsAppend
      <4>3. Elems(kept)' = Elems(Append(kept, n))  BY <4>1 DEF Elems
      <4> QED BY <3>0, <4>1, <4>2, <4>3 DEF LogInv
    <3>2. /\ batch \in Seq(Nat) /\ Elems(batch) = Elems(pending) \cup {n} /\ Distinct(batch) /\ batch # <<>>
      BY <1>0, <3>0, <3>1, ElemsAppend DEF LogInv
    <3> HIDE DEF n
    <3>3. /\ Elems(batch) \subseteq Elems(kept)' /\ Elems(batch) \cap Elems(viewed) = {}
          /\ \A c \in sent : Elems(batch) \cap Elems(c) = {}
          /\ Elems(kept)' \subseteq 1..printed' /\ Elems(kept) \subseteq Elems(kept)'
      BY <3>0, <3>1, <3>2 DEF LogInv
    <3>4. \/ RL!Flushed(batch)
          \/ pending' = batch /\ timer' = TRUE /\ UNCHANGED sent
      BY <2>3 DEF RL!Pushed, n
    <3> HIDE DEF batch
    <3>5. CASE RL!Flushed(batch)
      BY <1>0, <2>0, <3>0, <3>1, <3>2, <3>3, <3>5, FlushKeeps
    <3>6. CASE pending' = batch /\ timer' = TRUE /\ UNCHANGED sent
      <4>1. Elems(pending)' = Elems(batch) /\ Distinct(pending)' /\ Elems(viewed)' = Elems(viewed) /\ Distinct(viewed)'
        BY <2>0, <3>2, <3>6 DEF Elems, Distinct, LogInv
      <4>2. \A c \in sent : Elems(c) \subseteq Elems(kept)' /\ Elems(c) \cap Elems(pending)' = {}
        BY <3>3, <4>1 DEF LogInv
      <4> QED BY <1>0, <2>0, <3>0, <3>1, <3>2, <3>3, <3>6, <4>1, <4>2 DEF LogInv
    <3> QED BY <3>4, <3>5, <3>6
  <2> QED BY <1>2, <2>1, <2>2, <2>3 DEF RL!Line
<1>3. ASSUME RL!Flushed(pending), UNCHANGED <<printed, kept, viewed>>, running' \in BOOLEAN PROVE LogInv'
  <2>1. Elems(kept)' = Elems(kept)  BY <1>3 DEF Elems
  <2> QED BY <1>0, <1>3, <2>1, FlushKeeps DEF LogInv
<1>4. CASE RL!TimerFires  BY <1>0, <1>3, <1>4 DEF RL!TimerFires
<1>5. CASE RL!Ends  BY <1>3, <1>5 DEF RL!Ends
<1>6. ASSUME NEW b \in sent, RL!BatchArrives(b) PROVE LogInv'
  <2>0. sent' = sent \ {b} /\ UNCHANGED <<printed, running, timer, kept, pending>> /\ b \in Seq(Nat)
    BY <1>0, <1>6 DEF RL!BatchArrives
  <2>1. Elems(pending)' = Elems(pending) /\ Elems(kept)' = Elems(kept) /\ Distinct(pending)'
    BY <2>0 DEF Elems, Distinct, LogInv
  <2>2. /\ viewed' \in Seq(Nat) /\ Elems(viewed)' \subseteq Elems(viewed) \cup Elems(b) /\ Distinct(viewed)'
    <3>1. CASE viewed' = viewed
      BY <1>0, <3>1 DEF Elems, Distinct, LogInv
    <3>2. CASE viewed' = viewed \o b
      <4>1. viewed \o b \in Seq(Nat) /\ Elems(viewed \o b) = Elems(viewed) \cup Elems(b) /\ Distinct(viewed \o b)
        BY <1>0, <2>0, <1>6, ElemsConcat DEF LogInv
      <4>2. Elems(viewed)' = Elems(viewed \o b)  BY <3>2 DEF Elems
      <4>3. Distinct(viewed)'  BY <3>2, <4>1 DEF Distinct
      <4> QED BY <3>2, <4>1, <4>2, <4>3
    <3> QED BY <1>6, <3>1, <3>2 DEF RL!BatchArrives
  <2>3. \A c \in sent' : c \in sent /\ Elems(c) \cap Elems(viewed)' = {}
    BY <1>6, <2>0, <2>2 DEF LogInv
  <2>4. Elems(viewed)' \subseteq Elems(kept) /\ Elems(pending) \cap Elems(viewed)' = {}
    BY <1>6, <2>2 DEF LogInv
  <2> QED BY <1>0, <2>0, <2>1, <2>2, <2>3, <2>4 DEF LogInv
<1> QED BY <1>1, <1>2, <1>4, <1>5, <1>6 DEF ExecutionLog, Log

\* Before k6 prints, no line is anywhere.
LEMMA LogStarts ==
    ASSUME Init
    PROVE  LogInv
<1>1. RL!RunLogInit  BY DEF Init
<1>2. <<>> \in Seq(Nat) /\ Elems(<<>>) = {} /\ Distinct(<<>>)
  BY DEF Elems, Distinct
<1> QED BY <1>1, <1>2 DEF RL!RunLogInit, LogInv

\* So no line is among the viewers' twice, and each is in the result's log.
LEMMA LogIsSentOnce ==
    ASSUME LogInv
    PROVE  RL!LogSentOnce
<1>1. \A i \in DOMAIN viewed : \E j \in DOMAIN kept : kept[j] = viewed[i]
  <2> TAKE i \in DOMAIN viewed
  <2>1. viewed[i] \in Elems(kept)  BY DEF LogInv, Elems
  <2> QED BY <2>1 DEF Elems
<1> QED BY <1>1 DEF LogInv, Distinct, RL!LogSentOnce

\* A call of readAndPost, and the types of what the calls share.
ReaderOf == [pc : {"idle", "sized", "reads"}, size : Nat, from : Nat]
LiveTyped ==
    /\ k6 \in {"running", "closing", "closed", "failed"} /\ overlap \in BOOLEAN
    /\ written \in Nat /\ offset \in Nat /\ measures \subseteq LM!Lines
    /\ read \in [Readers -> ReaderOf]

\* One call reads at a time, from the offset on; lines up to there are counted, and
\* the half of a line before it is kept.
InTurn ==
    /\ \A q, r \in Readers : read[q].pc # "idle" /\ read[r].pc # "idle" => q = r
    /\ offset <= written /\ partial = RestAt(offset) /\ windows \in [LM!Lines -> Nat]
    /\ \A r \in Readers : read[r].pc # "idle" => read[r].size <= written
    /\ \A r \in Readers : read[r].pc = "reads" => read[r].from = offset /\ offset < read[r].size
    /\ \A k \in LM!Lines : IF 2 * k <= offset THEN windows[k] <= 1 /\ (k \in measures => windows[k] = 1)
                                              ELSE windows[k] = 0

\* The invariant of the reads: their turn matters unless calls overlapped.
LiveInv ==
    /\ LiveTyped
    /\ ~overlap => InTurn
    /\ k6 = "closed" => result = {k \in LM!Lines : 2 * k <= written}

\* What the assumption on the constants gives: a last reader, and lines counted from 1.
LEMMA LiveConstants ==
    ASSUME LM!LiveAssumption
    PROVE  Closer \in Readers /\ \A k \in LM!Lines : k \in Nat /\ k > 0
BY DEF LM!LiveAssumption, LM!Lines

\* A reader that is done changes no other, and the last one makes the result.
LEMMA ReaderEnds ==
    ASSUME LM!LiveAssumption, LiveInv, NEW r \in Readers, LM!After(r), LM!Parsed(r), UNCHANGED <<written, measures, overlap>>
    PROVE  /\ read' = [read EXCEPT ![r] = LM!Idle] /\ read' \in [Readers -> ReaderOf]
           /\ k6' \in {"running", "closing", "closed", "failed"}
           /\ \A q \in Readers : read'[q] = (IF q = r THEN LM!Idle ELSE read[q]) /\ LM!Idle.pc = "idle"
           /\ k6' = "closed" => result' = {k \in LM!Lines : 2 * k <= written'}
<1>1. LM!Idle \in ReaderOf /\ LM!Idle.pc = "idle"  BY DEF LM!Idle, ReaderOf
<1>2. read' = [read EXCEPT ![r] = LM!Idle]  BY DEF LM!After
<1> HIDE DEF LM!Idle
<1>3. read \in [Readers -> ReaderOf]  BY DEF LiveInv, LiveTyped
<1>4. read' \in [Readers -> ReaderOf] /\ \A q \in Readers : read'[q] = IF q = r THEN LM!Idle ELSE read[q]
  BY <1>1, <1>2, <1>3
<1>5. k6' \in {"running", "closing", "closed", "failed"}  BY DEF LM!After, LiveInv, LiveTyped
<1>6. k6' = "closed" => result' = {k \in LM!Lines : 2 * k <= written'}  BY DEF LM!After, LM!Parsed, LiveInv
<1> QED BY <1>1, <1>2, <1>4, <1>5, <1>6

\* A read that was alone puts every line it read in one window.
LEMMA FinishCounts ==
    ASSUME LM!LiveAssumption, LiveInv, NEW r \in Readers, LM!Finish(r), ~overlap
    PROVE  InTurn'
<1> DEFINE z == read[r].size
           text == partial \o [i \in 1..(read[r].size - read[r].from) |-> read[r].from + i]
<1>0. /\ InTurn /\ LiveTyped /\ read[r].pc = "reads" /\ UNCHANGED <<written, measures, overlap>>
      /\ offset' = z /\ partial' = LM!Rest(text) /\ LM!After(r) /\ LM!Parsed(r)
      /\ windows' = [k \in LM!Lines |-> windows[k] + IF LM!IsWindow(text) THEN LM!Counts(text, k) ELSE 0]
  BY DEF LM!Finish, LiveInv
<1>1. /\ offset \in Nat /\ z \in Nat /\ offset < z /\ z <= written /\ written \in Nat
      /\ read[r].from = offset /\ partial = RestAt(offset)
  BY <1>0 DEF InTurn, LiveTyped, ReaderOf
<1>2. text = RestAt(offset) \o [i \in 1..(z - offset) |-> offset + i]
  BY <1>1
<1> HIDE DEF text, z
<1>3. PICK h \in Nat : offset \in {2 * h, 2 * h + 1} /\ TextOf(text, h, z)
  BY <1>1, <1>2, ReadsOn
<1>4. 2 * h < z  BY <1>1, <1>3
<1>5. /\ \A k \in Nat : LM!Counts(text, k) = IF 2 * h < 2 * k /\ 2 * k <= z THEN 1 ELSE 0
      /\ \A k \in Nat : 2 * h < 2 * k /\ 2 * k <= z /\ k \in measures => LM!IsWindow(text)
      /\ LM!Rest(text) = RestAt(z)
  BY <1>1, <1>3, <1>4, WholeLines
<1>6. \A k \in Nat : 2 * h < 2 * k <=> offset < 2 * k
  BY <1>3
<1>7. ASSUME NEW k \in LM!Lines
      PROVE  /\ windows'[k] \in Nat
             /\ IF 2 * k <= z THEN windows'[k] <= 1 /\ (k \in measures => windows'[k] = 1) ELSE windows'[k] = 0
  <2>0. k \in Nat /\ windows[k] \in Nat
        /\ windows'[k] = windows[k] + IF LM!IsWindow(text) THEN LM!Counts(text, k) ELSE 0
    BY <1>0, LiveConstants DEF InTurn
  <2>1. IF 2 * k <= offset THEN windows[k] <= 1 /\ (k \in measures => windows[k] = 1) ELSE windows[k] = 0
    BY <1>0 DEF InTurn
  <2>2. CASE 2 * k <= offset
    <3>1. LM!Counts(text, k) = 0 /\ 2 * k <= z  BY <1>1, <1>5, <1>6, <2>0, <2>2
    <3>2. windows'[k] = windows[k]  BY <2>0, <3>1
    <3> QED BY <2>0, <2>1, <2>2, <3>1, <3>2
  <2>3. CASE ~(2 * k <= offset) /\ 2 * k <= z
    <3>1. LM!Counts(text, k) = 1 /\ windows[k] = 0 /\ (k \in measures => LM!IsWindow(text))
      BY <1>1, <1>5, <1>6, <2>0, <2>1, <2>3
    <3>2. windows'[k] = IF LM!IsWindow(text) THEN 1 ELSE 0  BY <2>0, <3>1
    <3> QED BY <2>3, <3>1, <3>2
  <2>4. CASE ~(2 * k <= offset) /\ ~(2 * k <= z)
    <3>1. LM!Counts(text, k) = 0 /\ windows[k] = 0  BY <1>5, <2>0, <2>1, <2>4
    <3>2. windows'[k] = 0  BY <2>0, <3>1
    <3> QED BY <2>4, <3>2
  <2>5. 2 * k <= offset => 2 * k <= z  BY <1>1, <2>0
  <2> QED BY <2>2, <2>3, <2>4
<1>8. windows' \in [LM!Lines -> Nat]
  <2>1. windows' = [k \in LM!Lines |-> windows'[k]]  BY <1>0
  <2> QED BY <1>7, <2>1
<1>9. \A q \in Readers : read'[q].pc = "idle"
  <2>1. \A q \in Readers : read'[q] = (IF q = r THEN LM!Idle ELSE read[q]) /\ LM!Idle.pc = "idle"
    BY <1>0, ReaderEnds
  <2>2. \A q \in Readers : q # r => read[q].pc = "idle"  BY <1>0 DEF InTurn
  <2> QED BY <2>1, <2>2
<1>10. offset' = z /\ z <= written' /\ partial' = RestAt(offset')
  BY <1>0, <1>1, <1>5
<1> QED BY <1>0, <1>1, <1>7, <1>8, <1>9, <1>10 DEF InTurn

\* Every step of k6 and of a call of readAndPost keeps the invariant.
LEMMA LiveStep ==
    ASSUME LM!LiveAssumption, LiveInv, Live
    PROVE  LiveInv'
<1>0. LiveTyped /\ (~overlap => InTurn) /\ \A r \in Readers : read[r] \in ReaderOf
  BY DEF LiveInv, LiveTyped
<1>1. CASE LM!Writes
  <2>1. /\ written' = written + 1 /\ measures \subseteq measures' /\ k6 = "running"
        /\ UNCHANGED <<k6, offset, partial, read, windows, result, overlap>>
    BY <1>1 DEF LM!Writes
  <2>2. measures' \subseteq LM!Lines /\ \A k \in measures' : k \in measures \/ written < 2 * k
    <3>1. CASE UNCHANGED measures  BY <1>0, <3>1 DEF LiveTyped
    <3>2. CASE written % 2 = 0 /\ measures' = measures \cup {written \div 2 + 1}
      <4> DEFINE new == written \div 2 + 1
      <4>1. written \in Nat /\ MaxLines \in Nat /\ written < 2 * MaxLines
        BY <1>0, <1>1 DEF LiveTyped, LM!Writes, LM!LiveAssumption
      <4>2. new \in 1..MaxLines /\ written < 2 * new  BY <3>2, <4>1
      <4> HIDE DEF new
      <4> QED BY <1>0, <3>2, <4>2 DEF LiveTyped, LM!Lines, new
    <3> QED BY <1>1, <3>1, <3>2 DEF LM!Writes
  <2>3. written' \in Nat /\ \A n \in Nat : n <= written => n <= written'
    BY <1>0, <2>1 DEF LiveTyped
  <2>4. LiveTyped'  BY <1>0, <2>1, <2>2, <2>3 DEF LiveTyped
  <2>5. ASSUME ~overlap PROVE InTurn'
    <3>1. offset <= written' /\ partial' = RestAt(offset')  BY <1>0, <2>1, <2>3, <2>5 DEF InTurn, LiveTyped
    <3>2. \A r \in Readers : read[r].pc # "idle" => read[r].size <= written'
      BY <1>0, <2>3, <2>5 DEF InTurn, ReaderOf
    <3>3. ASSUME NEW k \in LM!Lines, 2 * k <= offset, k \in measures' PROVE k \in measures
      <4>1. k \in Nat /\ offset \in Nat /\ written \in Nat /\ offset <= written
        BY <1>0, <2>5, LiveConstants DEF LiveTyped, InTurn
      <4>2. ~(written < 2 * k)  BY <3>3, <4>1
      <4> QED BY <2>2, <3>3, <4>2
    <3> QED BY <1>0, <2>1, <2>5, <3>1, <3>2, <3>3 DEF InTurn
  <2> QED BY <2>1, <2>4, <2>5 DEF LiveInv
<1>2. ASSUME k6' # "closed", k6' \in {"running", "closing", "closed", "failed"},
             UNCHANGED <<written, measures, offset, partial, read, windows, result, overlap>>
      PROVE  LiveInv'
  BY <1>0, <1>2 DEF LiveInv, LiveTyped, InTurn
<1>3. CASE LM!Closes  BY <1>2, <1>3 DEF LM!Closes
<1>4. CASE LM!SpawnFails  BY <1>2, <1>4 DEF LM!SpawnFails
<1>5. ASSUME NEW r \in Readers, LM!Stat(r) PROVE LiveInv'
  <2> DEFINE new == [pc |-> "sized", size |-> written, from |-> 0]
  <2>1. /\ read' = [read EXCEPT ![r] = new] /\ UNCHANGED <<k6, written, measures, offset, partial, windows, result>>
        /\ overlap' = (overlap \/ \E q \in Readers \ {r} : read[q].pc # "idle")
    BY <1>5 DEF LM!Stat
  <2>2. new \in ReaderOf /\ new.pc = "sized" /\ new.size = written /\ written \in Nat  BY <1>0 DEF ReaderOf, LiveTyped
  <2> HIDE DEF new
  <2>3. read' \in [Readers -> ReaderOf] /\ \A q \in Readers : read'[q] = IF q = r THEN new ELSE read[q]
    BY <1>0, <2>1, <2>2 DEF LiveTyped
  <2>4. overlap' \in BOOLEAN
    <3>1. (overlap \/ \E q \in Readers \ {r} : read[q].pc # "idle") \in BOOLEAN  OBVIOUS
    <3> QED BY <2>1, <3>1
  <2>5. ASSUME ~overlap' PROVE InTurn'
    <3>1. ~overlap /\ \A q \in Readers : q # r => read[q].pc = "idle"
      BY <2>1, <2>5
    <3>2. \A q \in Readers : read'[q].pc # "idle" => q = r /\ read'[q].size <= written' /\ read'[q].pc = "sized"
      BY <2>1, <2>2, <2>3, <3>1
    <3> QED BY <1>0, <2>1, <3>1, <3>2 DEF InTurn
  <2> QED BY <1>0, <2>1, <2>3, <2>4, <2>5 DEF LiveInv, LiveTyped
<1>6. ASSUME NEW r \in Readers, LM!After(r), LM!Parsed(r), UNCHANGED <<written, measures, offset, partial, windows, overlap>>
      PROVE  LiveInv'
  <2>1. /\ read' \in [Readers -> ReaderOf] /\ k6' \in {"running", "closing", "closed", "failed"}
        /\ \A q \in Readers : read'[q] = (IF q = r THEN LM!Idle ELSE read[q]) /\ LM!Idle.pc = "idle"
        /\ k6' = "closed" => result' = {k \in LM!Lines : 2 * k <= written'}
    BY <1>6, ReaderEnds
  <2>2. \A q \in Readers : read'[q].pc # "idle" => read'[q] = read[q]
    BY <2>1
  <2>3. ~overlap => InTurn'
    BY <1>0, <1>6, <2>2 DEF InTurn
  <2> QED BY <1>0, <1>6, <2>1, <2>3 DEF LiveInv, LiveTyped
<1>7. ASSUME NEW r \in Readers, LM!Begin(r) PROVE LiveInv'
  <2>0. UNCHANGED <<written, measures, offset, partial, windows, overlap>>  BY <1>7 DEF LM!Begin
  <2>1. CASE read[r].size <= offset  BY <1>6, <1>7, <2>0, <2>1 DEF LM!Begin
  <2>2. CASE ~(read[r].size <= offset)
    <3> DEFINE new == [read[r] EXCEPT !.pc = "reads", !.from = offset]
    <3>1. read' = [read EXCEPT ![r] = new] /\ UNCHANGED <<k6, result>> /\ read[r].pc = "sized"
      BY <1>7, <2>2 DEF LM!Begin
    <3>0. read[r] \in ReaderOf /\ offset \in Nat  BY <1>0 DEF LiveTyped
    <3>5. offset < read[r].size
      <4>1. read[r].size \in Nat  BY <3>0 DEF ReaderOf
      <4> QED BY <2>2, <3>0, <4>1
    <3>6. new \in ReaderOf /\ new.pc = "reads" /\ new.from = offset /\ new.size = read[r].size
      BY <3>0 DEF ReaderOf
    <3>2. new \in ReaderOf /\ new.pc = "reads" /\ new.from = offset /\ new.size = read[r].size /\ offset < read[r].size
      BY <3>5, <3>6
    <3> HIDE DEF new
    <3>3. read' \in [Readers -> ReaderOf] /\ \A q \in Readers : read'[q] = IF q = r THEN new ELSE read[q]
      BY <1>0, <3>1, <3>2 DEF LiveTyped
    <3>4. ~overlap => InTurn'
      BY <1>0, <2>0, <3>1, <3>2, <3>3 DEF InTurn
    <3> QED BY <1>0, <2>0, <3>1, <3>3, <3>4 DEF LiveInv, LiveTyped
  <2> QED BY <2>1, <2>2
<1>8. ASSUME NEW r \in Readers, LM!Finish(r) PROVE LiveInv'
  <2>0. UNCHANGED <<written, measures, overlap>> /\ LM!After(r) /\ LM!Parsed(r)
    BY <1>8 DEF LM!Finish
  <2>1. /\ read' \in [Readers -> ReaderOf] /\ k6' \in {"running", "closing", "closed", "failed"}
        /\ k6' = "closed" => result' = {k \in LM!Lines : 2 * k <= written'}
    BY <2>0, ReaderEnds
  <2>2. ~overlap' => InTurn'  BY <1>8, <2>0, FinishCounts
  <2>3. offset' \in Nat  BY <1>0, <1>8 DEF LM!Finish, ReaderOf
  <2> QED BY <1>0, <2>0, <2>1, <2>2, <2>3 DEF LiveInv, LiveTyped
<1>9. ASSUME NEW r \in Readers, LM!ReadFails(r) PROVE LiveInv'  BY <1>6, <1>9 DEF LM!ReadFails
<1> QED BY <1>1, <1>3, <1>4, <1>5, <1>7, <1>8, <1>9 DEF Live, Liv

\* Before k6 writes, nothing was read.
LEMMA LiveStarts ==
    ASSUME LM!LiveAssumption, Init
    PROVE  LiveInv
<1>1. LM!LiveInit  BY DEF Init
<1>2. LM!Idle \in ReaderOf /\ LM!Idle.pc = "idle"  BY DEF LM!Idle, ReaderOf
<1> HIDE DEF LM!Idle
<1>3. RestAt(0) = <<>>  BY DEF RestAt
<1>4. \A k \in LM!Lines : ~(2 * k <= 0)  BY LiveConstants
<1>5. /\ k6 = "running" /\ written = 0 /\ offset = 0 /\ partial = <<>> /\ measures = {} /\ overlap = FALSE
      /\ read = [r \in Readers |-> LM!Idle] /\ windows = [k \in LM!Lines |-> 0]
  BY <1>1 DEF LM!LiveInit
<1>6. read \in [Readers -> ReaderOf] /\ windows \in [LM!Lines -> Nat] /\ \A r \in Readers : read[r].pc = "idle"
  BY <1>2, <1>5
<1>7. LiveTyped  BY <1>5, <1>6 DEF LiveTyped
<1>8. InTurn  BY <1>3, <1>4, <1>5, <1>6 DEF InTurn
<1> QED BY <1>5, <1>7, <1>8 DEF LiveInv

\* So every measurement up to the offset is in one window, and the result has all lines.
LEMMA LinesAreCounted ==
    ASSUME LM!LiveAssumption, LiveInv
    PROVE  LM!LinesCounted
<1>1. ASSUME ~overlap, NEW k \in LM!Lines
      PROVE  IF k \in measures /\ 2 * k <= offset THEN windows[k] = 1 ELSE windows[k] <= 1
  BY <1>1 DEF LiveInv, InTurn
<1> QED BY <1>1 DEF LiveInv, LM!LinesCounted

\* Unless reads overlapped, every measurement k6 finished before the offset is in
\* one window and every other line in one at most, and the result has all of them
\* (LiveMetrics); a log line is shown at most once, and none stays in the batcher of a
\* run that ended (RunLog).
THEOREM OutputCorrect == Spec => []OutputCounted
<1> DEFINE Inv == (part = "live" => LiveInv) /\ (part = "log" => LogInv)
<1>1. LM!LiveAssumption /\ RL!RunLogAssumption  BY Assumptions
<1>2. Init => Inv  BY <1>1, LiveStarts, LogStarts
<1>3. Inv /\ [Next]_allvars => Inv'
  <2> SUFFICES ASSUME Inv, [Next]_allvars PROVE Inv'  OBVIOUS
  <2>1. ASSUME part = "live" PROVE LiveInv'
    <3>1. CASE Live  BY <1>1, <2>1, <3>1, LiveStep
    <3>2. CASE UNCHANGED lmvars  BY <2>1, <3>2 DEF lmvars, LiveInv, LiveTyped, InTurn
    <3> QED BY <2>1, <3>1, <3>2, Frame
  <2>2. ASSUME part = "log" PROVE LogInv'
    <3>1. CASE ExecutionLog  BY <1>1, <2>2, <3>1, LogStep
    <3>2. CASE UNCHANGED rlvars
      <4>1. LogInv /\ printed' = printed /\ printed \in Nat /\ printed <= printed  BY <2>2, <3>2 DEF rlvars, LogInv
      <4> QED BY <3>2, <4>1, LogStays DEF rlvars
    <3> QED BY <2>2, <3>1, <3>2, Frame
  <2> QED BY <2>1, <2>2, Frame
<1>4. Inv => OutputCounted
  BY <1>1, LinesAreCounted, LogIsSentOnce DEF OutputCounted
<1> QED BY <1>2, <1>3, <1>4, PTL DEF Spec

-----------------------------------------------------------------------------
(* ResultView. *)

\* The versions with metrics.
Measured == {v \in RV!Versions : v.metrics}

\* Two versions with one status, of which both have metrics or none has, are the same.
LEMMA SameVersion ==
    ASSUME NEW v \in RV!Versions, NEW w \in RV!Versions, v.status = w.status, v \in Measured <=> w \in Measured
    PROVE  v = w
<1> DEFINE x == v.metrics
           y == w.metrics
<1>1. x \in BOOLEAN /\ y \in BOOLEAN  BY DEF RV!Versions
<1>2. x <=> y  BY DEF Measured
<1>3. x = y  BY <1>1, <1>2
<1> HIDE DEF x, y
<1>4. v = [status |-> v.status, metrics |-> x] /\ w = [status |-> w.status, metrics |-> y]
  BY DEF RV!Versions, x, y
<1> QED BY <1>3, <1>4

\* Only the status of a version is written, or all of it.
LEMMA VersionWritten ==
    ASSUME NEW v \in RV!Versions, NEW s \in RV!Active \cup RV!Over
    PROVE  /\ [v EXCEPT !.status = s] \in RV!Versions /\ [v EXCEPT !.status = s].status = s
           /\ [v EXCEPT !.status = s] \in Measured <=> v \in Measured
<1>1. [v EXCEPT !.status = s] \in RV!Versions /\ [v EXCEPT !.status = s].status = s  BY DEF RV!Versions
<1>2. [v EXCEPT !.status = s].metrics = v.metrics  BY DEF RV!Versions
<1> QED BY <1>1, <1>2 DEF Measured

\* The versions that are written whole.
LEMMA VersionMade ==
    /\ RV!Version("pending", FALSE) \in RV!Versions /\ RV!Version("pending", FALSE) \notin Measured
    /\ RV!Version("pending", FALSE).status = "pending"
    /\ RV!Version("completed", TRUE) \in Measured /\ RV!Version("completed", TRUE).status = "completed"
BY DEF RV!Version, RV!Versions, RV!Active, RV!Over, Measured

\* Of a row that was never over before it was written: all versions but the last are
\* of a test that is not over, and those of a completed test have metrics.
RowPlain ==
    /\ \A n \in 1..Len(row) - 1 : row[n].status \in RV!Active /\ row[n] \notin Measured
    /\ row # <<>> => (row[Len(row)] \in Measured <=> row[Len(row)].status = "completed")

\* What the page was told or shows is of some version, unless it is "running", and it
\* asked for the metrics that are missing.
PagePlain ==
    /\ \A s \in events \ {"running"} : \E n \in DOMAIN row : row[n].status = s
    /\ shown # None /\ shown.status # "running" => \E n \in DOMAIN row : row[n].status = shown.status
    /\ shown # None /\ shown \in Measured => \E n \in DOMAIN row : row[n] \in Measured
    /\ shown # None /\ shown.status = "completed" /\ shown \notin Measured => unread \/ asked > 0
ViewTyped ==
    /\ row \in Seq(RV!Versions) /\ unsent \subseteq DOMAIN row /\ asked \in Nat
    /\ events \subseteq RV!Active \cup RV!Over /\ shown \in RV!Versions \cup {None}
ViewInv == ViewTyped /\ (~RV!Rewritten => RowPlain /\ PagePlain)

\* A version is appended: the older ones stay, and so do the statuses and the metrics
\* that the page may show.
LEMMA RowGrows ==
    ASSUME ViewInv, NEW v \in RV!Versions, row' = Append(row, v),
           unsent' \subseteq unsent \cup {Len(row')}, UNCHANGED <<events, shown, unread>>,
           asked' \in Nat, asked <= asked',
           RowPlain /\ ~RV!Rewritten' => (v \in Measured <=> v.status = "completed")
    PROVE  ViewInv'
<1>1. /\ row \in Seq(RV!Versions) /\ row' \in Seq(RV!Versions) /\ Len(row') = Len(row) + 1 /\ Len(row) \in Nat
      /\ \A n \in 1..Len(row) : row'[n] = row[n]
      /\ row'[Len(row')] = v /\ row' # <<>> /\ DOMAIN row = 1..Len(row) /\ DOMAIN row' = 1..Len(row')
  BY DEF ViewInv, ViewTyped
<1>2. ViewTyped'
  <2>1. unsent' \subseteq DOMAIN row'  BY <1>1 DEF ViewInv, ViewTyped
  <2> QED BY <1>1, <2>1 DEF ViewInv, ViewTyped
<1>3. ASSUME ~RV!Rewritten'
      PROVE  RowPlain' /\ PagePlain'
  <2>1. \A n \in 1..Len(row) : row[n].status \in RV!Active
    <3> TAKE n \in 1..Len(row)
    <3>1. row'[n].status \notin RV!Over  BY <1>1, <1>3 DEF RV!Rewritten
    <3>2. row[n] \in RV!Versions  BY <1>1
    <3> QED BY <1>1, <3>1, <3>2 DEF RV!Versions
  <2>2. ~RV!Rewritten
    BY <1>1, <2>1 DEF RV!Rewritten, RV!Active, RV!Over
  <2>3. RowPlain /\ PagePlain  BY <2>2 DEF ViewInv
  <2>4. \A n \in 1..Len(row) : row[n] \notin Measured
    <3> TAKE n \in 1..Len(row)
    <3>1. row[n] \in RV!Versions /\ row[n].status # "completed"  BY <1>1, <2>1 DEF RV!Active
    <3>2. n = Len(row) \/ n \in 1..Len(row) - 1
      <4>1. Len(row) \in Nat  BY <1>1
      <4> QED BY <4>1
    <3>3. row # <<>>  BY <1>1
    <3> QED BY <2>3, <3>1, <3>2, <3>3 DEF RowPlain
  <2>5. RowPlain'
    <3>1. v \in Measured <=> v.status = "completed"  BY <1>3, <2>3
    <3>2. \A n \in 1..Len(row') - 1 : n \in 1..Len(row)  BY <1>1
    <3> QED BY <1>1, <2>1, <2>4, <3>1, <3>2 DEF RowPlain
  <2>6. \A n \in DOMAIN row : n \in DOMAIN row' /\ row'[n] = row[n]  BY <1>1
  <2>7. asked \in Nat /\ (asked > 0 => asked' > 0)  BY DEF ViewInv, ViewTyped
  <2>8. PagePlain'  BY <2>3, <2>6, <2>7 DEF PagePlain
  <2> QED BY <2>5, <2>8
<1> QED BY <1>2, <1>3 DEF ViewInv

\* The row stays, and the page is told of, or shows, a version of it.
LEMMA PageMoves ==
    ASSUME ViewInv, UNCHANGED row, unsent' \subseteq unsent, asked' \in Nat,
           events' \subseteq RV!Active \cup RV!Over, shown' \in RV!Versions \cup {None},
           ~RV!Rewritten /\ RowPlain /\ PagePlain => PagePlain'
    PROVE  ViewInv'
<1>1. RV!Rewritten' = RV!Rewritten  BY DEF RV!Rewritten
<1>2. RowPlain' = RowPlain  BY DEF RowPlain
<1> QED BY <1>1, <1>2 DEF ViewInv, ViewTyped

\* What the page shows after an answer or when it is loaded.
LEMMA ShowsVersion ==
    ASSUME ViewTyped, RowPlain, NEW n \in DOMAIN row
    PROVE  row[n] \in RV!Versions /\ (row[n].status = "completed" => row[n] \in Measured)
<1>1. row[n] \in RV!Versions /\ n \in 1..Len(row) /\ Len(row) \in Nat  BY DEF ViewTyped
<1>2. CASE n = Len(row)  BY <1>1, <1>2 DEF RowPlain
<1>3. CASE n # Len(row)  BY <1>1, <1>3 DEF RowPlain, RV!Active
<1> QED BY <1>1, <1>2, <1>3

\* Every step of the row, the broadcast and the page keeps the invariant.
LEMMA ViewStep ==
    ASSUME RV!ResultViewAssumption, ViewInv, View
    PROVE  ViewInv'
<1>0. /\ ViewTyped /\ row \in Seq(RV!Versions) /\ asked \in Nat /\ Len(row) \in Nat /\ DOMAIN row = 1..Len(row)
      /\ events \subseteq RV!Active \cup RV!Over /\ shown \in RV!Versions \cup {None}
  BY DEF ViewInv, ViewTyped
<1>1. ASSUME NEW status \in {"running", "failed", "cancelled"}, RV!Now # None,
             row' = Append(row, [RV!Now EXCEPT !.status = status]),
             unsent' = unsent \cup {Len(row')}, UNCHANGED <<events, shown, unread>>, asked' \in Nat, asked <= asked'
      PROVE  ViewInv'
  <2> DEFINE v == [RV!Now EXCEPT !.status = status]
  <2>1. row # <<>> /\ RV!Now = row[Len(row)] /\ RV!Now \in RV!Versions  BY <1>0, <1>1 DEF RV!Now
  <2>2. v \in RV!Versions /\ v.status = status /\ (v \in Measured <=> RV!Now \in Measured)
    <3>1. status \in RV!Active \cup RV!Over  BY DEF RV!Active, RV!Over
    <3> QED BY <2>1, <3>1, VersionWritten
  <2> HIDE DEF v
  <2>3. ASSUME RowPlain, ~RV!Rewritten' PROVE v \notin Measured
    <3>1. row' = Append(row, v)  BY <1>1 DEF v
    <3>2. Len(row) \in 1..Len(row') - 1 /\ row'[Len(row)] = row[Len(row)]
      <4>1. Len(row) > 0 /\ row \in Seq(RV!Versions)  BY <1>0, <2>1
      <4> QED BY <2>2, <3>1, <4>1
    <3>3. row[Len(row)].status \notin RV!Over  BY <2>3, <3>2 DEF RV!Rewritten
    <3> QED BY <2>1, <2>2, <2>3, <3>3 DEF RowPlain, RV!Over
  <2>4. row' = Append(row, v)  BY <1>1 DEF v
  <2> QED BY <1>1, <2>2, <2>3, <2>4, RowGrows
<1>2. CASE RV!Pending
  <2>2. row' = Append(row, RV!Version("pending", FALSE))  BY <1>2 DEF RV!Pending
  <2>3. asked' = asked /\ asked <= asked  BY <1>0, <1>2 DEF RV!Pending, RV!Page
  <2> QED BY <1>0, <1>2, <2>2, <2>3, VersionMade, RowGrows DEF RV!Pending, RV!Page
<1>3. CASE RV!Running \/ RV!Fail \/ RV!Cancel
  <2>1. asked' = asked /\ asked <= asked  BY <1>0, <1>3 DEF RV!Running, RV!Fail, RV!Cancel, RV!Writes, RV!Page
  <2>2. CASE RV!Now = None /\ events' = events \cup {"running"} /\ UNCHANGED <<row, unsent, shown, unread>>
    <3>1. PagePlain => PagePlain'  BY <2>1, <2>2 DEF PagePlain
    <3> QED BY <1>0, <2>1, <2>2, <3>1, PageMoves DEF RV!Active
  <2>3. CASE RV!Now # None \/ RV!Fail \/ RV!Cancel
    BY <1>0, <1>1, <1>3, <2>1, <2>3 DEF RV!Running, RV!Fail, RV!Cancel, RV!IsActive, RV!Writes, RV!Page
  <2> QED BY <1>3, <2>2, <2>3 DEF RV!Running, RV!Page
<1>4. CASE RV!Result
  <2>1. RV!Version("completed", TRUE) \in RV!Versions  BY VersionMade DEF Measured
  <2>2. asked' = asked /\ asked <= asked  BY <1>0, <1>4 DEF RV!Result, RV!Writes, RV!Page
  <2> QED BY <1>0, <1>4, <2>1, <2>2, VersionMade, RowGrows DEF RV!Result, RV!Writes, RV!Page
<1>5. ASSUME NEW n \in unsent, RV!Broadcast(n) PROVE ViewInv'
  <2>1. n \in DOMAIN row /\ row[n].status \in RV!Active \cup RV!Over
    <3>1. n \in DOMAIN row /\ row[n] \in RV!Versions  BY <1>0 DEF ViewTyped
    <3> QED BY <3>1 DEF RV!Versions
  <2>2. /\ events' \subseteq events \cup {row[n].status} /\ unsent' \subseteq unsent
        /\ UNCHANGED <<row, shown, asked, unread>>
    BY <1>5 DEF RV!Broadcast, RV!Page
  <2>3. PagePlain => PagePlain'  BY <2>1, <2>2 DEF PagePlain
  <2> QED BY <1>0, <2>1, <2>2, <2>3, PageMoves
<1>6. ASSUME UNCHANGED <<row, unsent, shown, unread>>, events' \subseteq events, asked' \in Nat, asked <= asked'
      PROVE  ViewInv'
  <2>1. asked > 0 => asked' > 0  BY <1>0, <1>6
  <2>2. PagePlain => PagePlain'  BY <1>6, <2>1 DEF PagePlain
  <2> QED BY <1>0, <1>6, <2>2, PageMoves
<1>7. CASE RV!Disconnect \/ RV!Reconnect \/ RV!Poll \/ RV!PointArrives
  <2>1. asked' \in Nat /\ asked <= asked'
    BY <1>0, <1>7 DEF RV!Disconnect, RV!Reconnect, RV!Poll, RV!PointArrives, RV!Asks
  <2> QED BY <1>6, <1>7, <2>1 DEF RV!Disconnect, RV!Reconnect, RV!Poll, RV!PointArrives
<1>8. CASE RV!Answered
  <2>1. asked' \in Nat /\ UNCHANGED <<row, unsent, events>>  BY <1>0, <1>8 DEF RV!Answered
  <2>2. ASSUME NEW n \in DOMAIN row, shown' = row[n] PROVE ViewInv'
    <3>1. RowPlain /\ PagePlain => PagePlain'
      BY <1>0, <2>1, <2>2, ShowsVersion DEF PagePlain
    <3>2. row[n] \in RV!Versions  BY <1>0
    <3> QED BY <1>0, <2>1, <2>2, <3>1, <3>2, PageMoves
  <2>3. CASE unread' = TRUE /\ UNCHANGED shown
    <3>1. PagePlain => PagePlain'  BY <2>1, <2>3 DEF PagePlain
    <3> QED BY <1>0, <2>1, <2>3, <3>1, PageMoves
  <2> QED BY <1>8, <2>2, <2>3 DEF RV!Answered
<1>9. CASE RV!Button
  <2>1. asked' \in Nat /\ asked <= asked' /\ UNCHANGED <<events, shown, unread>>  BY <1>0, <1>9 DEF RV!Button, RV!Asks
  <2>2. CASE UNCHANGED <<row, unsent>>  BY <1>6, <2>1, <2>2
  <2>3. CASE /\ RV!IsActive /\ row' = Append(row, [RV!Now EXCEPT !.status = "cancelled"])
             /\ unsent' = unsent \cup {Len(row')}
    BY <1>1, <2>1, <2>3 DEF RV!IsActive
  <2> QED BY <1>9, <2>2, <2>3 DEF RV!Button
<1>10. CASE RV!Load
  <2>1. UNCHANGED <<row, unsent, events, asked, unread>>  BY <1>10 DEF RV!Load
  <2>2. ASSUME NEW n \in DOMAIN row, shown' = row[n] PROVE ViewInv'
    <3>1. RowPlain /\ PagePlain => PagePlain'
      BY <1>0, <2>1, <2>2, ShowsVersion DEF PagePlain
    <3>2. row[n] \in RV!Versions  BY <1>0
    <3> QED BY <1>0, <2>1, <2>2, <3>1, <3>2, PageMoves
  <2>3. CASE shown' = None
    <3>1. PagePlain => PagePlain'  BY <2>1, <2>3 DEF PagePlain
    <3> QED BY <1>0, <2>1, <2>3, <3>1, PageMoves
  <2> QED BY <1>10, <2>2, <2>3 DEF RV!Load
<1>11. ASSUME NEW s \in events, RV!StatusArrives(s) PROVE ViewInv'
  <2>1. /\ UNCHANGED <<row, unsent, unread>> /\ events' \subseteq events
        /\ asked' \in Nat /\ asked <= asked' /\ (s = "completed" => asked' > 0)
    BY <1>0, <1>11 DEF RV!StatusArrives, RV!Asks
  <2>2. CASE shown = None
    <3>1. shown' = shown  BY <1>11, <2>2 DEF RV!StatusArrives
    <3> QED BY <1>6, <2>1, <3>1
  <2>3. CASE shown # None
    <3>1. shown' = [shown EXCEPT !.status = s]  BY <1>11, <2>3 DEF RV!StatusArrives
    <3>2. shown \in RV!Versions /\ s \in RV!Active \cup RV!Over  BY <1>0, <2>3
    <3>3. shown' \in RV!Versions /\ shown'.status = s /\ (shown' \in Measured <=> shown \in Measured)
      BY <3>1, <3>2, VersionWritten
    <3>4. PagePlain => PagePlain'
      <4>1. asked > 0 => asked' > 0  BY <1>0, <2>1
      <4> QED BY <2>1, <2>3, <3>3, <4>1 DEF PagePlain
    <3> QED BY <1>0, <2>1, <3>3, <3>4, PageMoves
  <2> QED BY <2>2, <2>3
<1> QED BY <1>2, <1>3, <1>4, <1>5, <1>7, <1>8, <1>9, <1>10, <1>11 DEF View, Vie

\* The page is opened before the row is there, or with it.
LEMMA ViewStarts ==
    ASSUME Init
    PROVE  ViewInv
<1>1. RV!ViewInit  BY DEF Init
<1> DEFINE first == RV!Version("pending", FALSE)
<1>2. first \in RV!Versions /\ first \notin Measured /\ first.status = "pending"  BY VersionMade
<1> HIDE DEF first
<1>3. row \in {<<>>, <<first>>} /\ shown \in {None, RV!Now} /\ unsent = {} /\ events = {} /\ asked = 0
  BY <1>1 DEF RV!ViewInit, first
<1>4. CASE row = <<>>
  <2>1. shown = None /\ Len(row) = 0 /\ row \in Seq(RV!Versions)  BY <1>3, <1>4 DEF RV!Now
  <2> QED BY <1>3, <1>4, <2>1 DEF ViewInv, ViewTyped, RowPlain, PagePlain
<1>5. CASE row = <<first>>
  <2>1. shown \in {None, first} /\ Len(row) = 1 /\ row \in Seq(RV!Versions) /\ row[1] = first /\ DOMAIN row = {1}
    BY <1>2, <1>3, <1>5 DEF RV!Now
  <2>2. ViewTyped  BY <1>2, <1>3, <2>1 DEF ViewTyped
  <2>3. RowPlain  BY <1>2, <1>5, <2>1 DEF RowPlain
  <2>4. PagePlain  BY <1>2, <1>3, <2>1 DEF PagePlain
  <2> QED BY <2>2, <2>3, <2>4 DEF ViewInv
<1> QED BY <1>3, <1>4, <1>5

\* So a page that asks no more shows the last version, or was refused its metrics.
LEMMA PageHeals ==
    ASSUME ViewInv, ~RV!Rewritten, shown # None, RV!Now # None, ~RV!Polls(shown), asked = 0,
           ~(shown.status = "completed" /\ unread)
    PROVE  shown = RV!Now
<1>1. RowPlain /\ PagePlain /\ ViewTyped  BY DEF ViewInv
<1>2. /\ row \in Seq(RV!Versions) /\ Len(row) \in Nat /\ DOMAIN row = 1..Len(row) /\ row # <<>>
      /\ RV!Now = row[Len(row)] /\ RV!Now \in RV!Versions /\ shown \in RV!Versions
  BY <1>1 DEF ViewTyped, RV!Now
<1>3. shown.status \in RV!Over  BY <1>2 DEF RV!Polls, RV!Versions
<1>4. PICK n \in DOMAIN row : row[n].status = shown.status  BY <1>1, <1>3 DEF PagePlain, RV!Over
<1>5. n = Len(row)
  <2>1. row[n].status \notin RV!Active  BY <1>3, <1>4 DEF RV!Active, RV!Over
  <2> QED BY <1>1, <1>2, <1>4, <2>1 DEF RowPlain
<1>6. RV!Now.status = shown.status /\ RV!Now.status \in RV!Over  BY <1>2, <1>3, <1>4, <1>5
<1>7. RV!Now \in Measured <=> RV!Now.status = "completed"  BY <1>1, <1>2 DEF RowPlain
<1>8. shown \in Measured <=> RV!Now \in Measured
  <2>1. CASE shown.status = "completed"  BY <1>1, <1>6, <1>7, <2>1 DEF PagePlain
  <2>2. CASE shown.status # "completed"
    <3>1. RV!Now \notin Measured  BY <1>6, <1>7, <2>2
    <3>2. \A m \in DOMAIN row : row[m] \notin Measured
      <4> TAKE m \in DOMAIN row
      <4>1. m = Len(row) \/ m \in 1..Len(row) - 1  BY <1>2
      <4> QED BY <1>1, <1>2, <3>1, <4>1 DEF RowPlain
    <3> QED BY <1>1, <3>1, <3>2 DEF PagePlain
  <2> QED BY <2>1, <2>2
<1> QED BY <1>2, <1>6, <1>8, SameVersion

\* Unless a test that was over was written again, a page that shows something else
\* than the row still asks, is told, or was refused the metrics (ResultView).
THEOREM HealsCorrect == Spec => []StaleHeals
<1> DEFINE Inv == part = "view" => ViewInv
<1>1. RV!ResultViewAssumption  BY Assumptions
<1>2. Init => Inv  BY ViewStarts
<1>3. Inv /\ [Next]_allvars => Inv'
  <2> SUFFICES ASSUME ViewInv, part = "view", [Next]_allvars PROVE ViewInv'
    BY Frame
  <2>1. CASE View  BY <1>1, <2>1, ViewStep
  <2>2. CASE UNCHANGED rvvars
    BY <2>2 DEF rvvars, ViewInv, ViewTyped, RowPlain, PagePlain, RV!Rewritten
  <2> QED BY <2>1, <2>2, Frame
<1>4. Inv => StaleHeals
  <2> SUFFICES ASSUME ViewInv, part = "view" PROVE RV!StaleHeals  BY DEF StaleHeals
  <2>1. asked = 0 \/ asked > 0  BY DEF ViewInv, ViewTyped
  <2> QED BY <2>1, PageHeals DEF RV!StaleHeals
<1> QED BY <1>2, <1>3, <1>4, PTL DEF Spec

-----------------------------------------------------------------------------
(* AiRoutes: the answers. *)

Needed == {"text", "string", "choice", "number", "count", "list", "some", "url", "object", "budget"}
AllStatuses == AR!Routes \cup {"needsClarification", "redirectToFlowBuilder", "editReady", "ready", "flowReady"}

\* Every route is one of these.
LEMMA RoutesAre ==
    AR!Routes = {"cron", "trend", "settings", "noise", "preset", "params", "translate", "thresholds", "diagnose",
                 "chat", "edit"}
BY DEF AR!Routes, AR!Steps

\* The statuses of a route's answers are among those; only a conversation's may be "ready".
LEMMA StatusesAre ==
    ASSUME NEW route \in AR!Routes
    PROVE  AR!Statuses(route) \subseteq AllStatuses \ {"chat", "edit"} /\ (route # "chat" => "ready" \notin AR!Statuses(route))
BY RoutesAre DEF AR!Statuses, AllStatuses

\* What a field may hold.
ValuesOf(need) == {AR!Values(need)[n] : n \in DOMAIN AR!Values(need)} \cup {"other"}

\* A value that is accepted, as the validators write it back, is one the page can use.
LEMMA AcceptedIsUsable ==
    ASSUME NEW need \in Needed, NEW value \in ValuesOf(need), AR!Accepted(need, value)
    PROVE  /\ AR!Normal(need, value) \notin {"other", "numerals", "domain"}
           /\ need \in {"number", "count"} => AR!Normal(need, value) = "number"
           /\ need \in {"text", "some", "url"} => AR!Normal(need, value) # "empty"
<1>1. CASE need \in {"text", "string"}
  <2>1. AR!Values(need) = <<"text", "empty">>  BY <1>1 DEF AR!Values
  <2>2. value \in {"text", "empty", "other"}  BY <2>1 DEF ValuesOf
  <2> QED BY <1>1, <2>2 DEF AR!Accepted, AR!Normal
<1>2. CASE need = "choice"
  <2>1. AR!Values(need) = <<"text">>  BY <1>2 DEF AR!Values
  <2>2. value \in {"text", "other"}  BY <2>1 DEF ValuesOf
  <2> QED BY <1>2, <2>2 DEF AR!Accepted, AR!Normal
<1>3. CASE need \in {"number", "count"}
  <2>1. AR!Values(need) = <<"number", "numeral">>  BY <1>3 DEF AR!Values
  <2>2. value \in {"number", "numeral", "other"}  BY <2>1 DEF ValuesOf
  <2> QED BY <1>3, <2>2 DEF AR!Accepted, AR!Normal
<1>4. CASE need \in {"list", "some"}
  <2>1. AR!Values(need) = <<"list", "empty">>  BY <1>4 DEF AR!Values
  <2>2. value \in {"list", "empty", "other"}  BY <2>1 DEF ValuesOf
  <2> QED BY <1>4, <2>2 DEF AR!Accepted, AR!Normal
<1>5. CASE need = "url"
  <2>1. AR!Values(need) = <<"url", "domain", "empty">>  BY <1>5 DEF AR!Values
  <2>2. value \in {"url", "domain", "empty", "other"}  BY <2>1 DEF ValuesOf
  <2> QED BY <1>5, <2>2 DEF AR!Accepted, AR!Normal
<1>6. CASE need = "object"
  <2>1. AR!Values(need) = <<"object">>  BY <1>6 DEF AR!Values
  <2>2. value \in {"object", "other"}  BY <2>1 DEF ValuesOf
  <2> QED BY <1>6, <2>2 DEF AR!Accepted, AR!Normal
<1>7. CASE need = "budget"
  <2>1. AR!Values(need) = <<"numbers", "numerals", "none">>  BY <1>7 DEF AR!Values
  <2>2. value \in {"numbers", "numerals", "none", "other"}  BY <2>1 DEF ValuesOf
  <2> QED BY <1>7, <2>2 DEF AR!Accepted, AR!Normal
<1> QED BY <1>1, <1>2, <1>3, <1>4, <1>5, <1>6, <1>7 DEF Needed

\* What every status needs.
LEMMA NeedsAre ==
    ASSUME NEW status \in AllStatuses \ {"chat", "edit"}, NEW f \in DOMAIN AR!Needs(status)
    PROVE  AR!Needs(status)[f] \in Needed
<1>1. CASE status \in {"cron", "trend", "translate", "redirectToFlowBuilder", "needsClarification"}
  BY <1>1 DEF AR!Needs, Needed
<1>2. CASE status \in {"settings", "noise"}  BY <1>2 DEF AR!Needs, Needed
<1>3. CASE status \in {"preset", "params", "editReady"}  BY <1>3 DEF AR!Needs, Needed
<1>4. CASE status \in {"thresholds", "diagnose"}  BY <1>4 DEF AR!Needs, Needed
<1>5. CASE status = "ready"  BY <1>5 DEF AR!Needs, Needed
<1>6. CASE status = "flowReady"  BY <1>6 DEF AR!Needs, Needed
<1> QED BY <1>1, <1>2, <1>3, <1>4, <1>5, <1>6, RoutesAre DEF AllStatuses

\* The first value of a need is one a field may hold.
LEMMA ValuesAre ==
    ASSUME NEW need \in Needed
    PROVE  Head(AR!Values(need)) \in ValuesOf(need)
<1>1. 1 \in DOMAIN AR!Values(need) /\ Head(AR!Values(need)) = AR!Values(need)[1]  BY DEF Needed, AR!Values
<1> QED BY <1>1 DEF ValuesOf

\* An answer with the fields of its status, each of them usable.
FieldsUsable(reply) ==
    \A f \in DOMAIN reply.fields :
        /\ reply.fields[f] \notin {"other", "numerals", "domain"}
        /\ AR!Needs(reply.status)[f] \in {"number", "count"} => reply.fields[f] = "number"
        /\ AR!Needs(reply.status)[f] \in {"text", "some", "url"} => reply.fields[f] # "empty"

\* A provider's answer has the fields of its status, each with a value of its need or
\* with something else.
LEMMA RepliesAre ==
    ASSUME NEW route \in AR!Routes, NEW reply \in AR!Replies(route), reply # AR!NoJson
    PROVE  /\ reply.status \in AR!Statuses(route) /\ reply = [status |-> reply.status, fields |-> reply.fields]
           /\ DOMAIN reply.fields = DOMAIN AR!Needs(reply.status)
           /\ \A f \in DOMAIN reply.fields : reply.fields[f] \in ValuesOf(AR!Needs(reply.status)[f])
<1>1. ASSUME NEW status \in AR!Statuses(route)
      PROVE  /\ DOMAIN AR!AsNeeded(status) = DOMAIN AR!Needs(status)
             /\ \A f \in DOMAIN AR!Needs(status) : AR!AsNeeded(status)[f] \in ValuesOf(AR!Needs(status)[f])
  <2>1. \A f \in DOMAIN AR!Needs(status) : Head(AR!Values(AR!Needs(status)[f])) \in ValuesOf(AR!Needs(status)[f])
    BY StatusesAre, NeedsAre, ValuesAre
  <2> QED BY <2>1 DEF AR!AsNeeded
<1>2. \/ \E status \in AR!Statuses(route) : reply = [status |-> status, fields |-> AR!AsNeeded(status)]
      \/ \E status \in AR!Statuses(route) : \E f \in DOMAIN AR!Needs(status) : \E v \in ValuesOf(AR!Needs(status)[f]) :
            reply = [status |-> status, fields |-> [AR!AsNeeded(status) EXCEPT ![f] = v]]
  BY DEF AR!Replies, ValuesOf
<1>3. ASSUME NEW status \in AR!Statuses(route), reply = [status |-> status, fields |-> AR!AsNeeded(status)]
      PROVE  /\ reply.status \in AR!Statuses(route) /\ reply = [status |-> reply.status, fields |-> reply.fields]
             /\ DOMAIN reply.fields = DOMAIN AR!Needs(reply.status)
             /\ \A f \in DOMAIN reply.fields : reply.fields[f] \in ValuesOf(AR!Needs(reply.status)[f])
  <2>1. reply.status = status /\ reply.fields = AR!AsNeeded(status)  BY <1>3
  <2> QED BY <1>1, <1>3, <2>1
<1>4. ASSUME NEW status \in AR!Statuses(route), NEW f \in DOMAIN AR!Needs(status), NEW v \in ValuesOf(AR!Needs(status)[f]),
             reply = [status |-> status, fields |-> [AR!AsNeeded(status) EXCEPT ![f] = v]]
      PROVE  /\ reply.status \in AR!Statuses(route) /\ reply = [status |-> reply.status, fields |-> reply.fields]
             /\ DOMAIN reply.fields = DOMAIN AR!Needs(reply.status)
             /\ \A g \in DOMAIN reply.fields : reply.fields[g] \in ValuesOf(AR!Needs(reply.status)[g])
  <2>1. reply.status = status /\ reply.fields = [AR!AsNeeded(status) EXCEPT ![f] = v]  BY <1>4
  <2>2. reply = [status |-> reply.status, fields |-> reply.fields]  BY <1>4, <2>1
  <2>3. DOMAIN reply.fields = DOMAIN AR!Needs(status) /\ reply.fields[f] = v
        /\ \A g \in DOMAIN AR!Needs(status) : g # f => reply.fields[g] = AR!AsNeeded(status)[g]
    BY <1>1, <2>1
  <2> QED BY <1>1, <2>1, <2>2, <2>3
<1> QED BY <1>2, <1>3, <1>4

\* What a validator lets through can be used.
LEMMA ValidIsUsable ==
    ASSUME NEW route \in AR!Routes, NEW reply \in AR!Replies(route), AR!Valid(reply)
    PROVE  FieldsUsable(AR!Normalized(reply)) /\ AR!Normalized(reply).status = reply.status
<1>1. /\ reply.status \in AR!Statuses(route) /\ reply = [status |-> reply.status, fields |-> reply.fields]
      /\ DOMAIN reply.fields = DOMAIN AR!Needs(reply.status)
      /\ \A f \in DOMAIN reply.fields : reply.fields[f] \in ValuesOf(AR!Needs(reply.status)[f])
  BY RepliesAre DEF AR!Valid
<1> DEFINE normal == [f \in DOMAIN reply.fields |-> AR!Normal(AR!Needs(reply.status)[f], reply.fields[f])]
<1>2. AR!Normalized(reply) = [reply EXCEPT !.fields = normal]  BY DEF AR!Normalized
<1> HIDE DEF normal
<1>3. AR!Normalized(reply).status = reply.status /\ AR!Normalized(reply).fields = normal  BY <1>1, <1>2
<1>4. ASSUME NEW f \in DOMAIN reply.fields
      PROVE  /\ normal[f] \notin {"other", "numerals", "domain"}
             /\ AR!Needs(reply.status)[f] \in {"number", "count"} => normal[f] = "number"
             /\ AR!Needs(reply.status)[f] \in {"text", "some", "url"} => normal[f] # "empty"
  <2>1. AR!Needs(reply.status)[f] \in Needed  BY <1>1, StatusesAre, NeedsAre
  <2>2. reply.fields[f] \in ValuesOf(AR!Needs(reply.status)[f])  BY <1>1
  <2>3. AR!Accepted(AR!Needs(reply.status)[f], reply.fields[f])  BY DEF AR!Valid
  <2>4. normal[f] = AR!Normal(AR!Needs(reply.status)[f], reply.fields[f])  BY DEF normal
  <2> QED BY <2>1, <2>2, <2>3, <2>4, AcceptedIsUsable
<1>5. DOMAIN normal = DOMAIN reply.fields  BY DEF normal
<1> QED BY <1>3, <1>4, <1>5 DEF FieldsUsable

\* So can the answers that stand in for what a validator refuses, and none at all.
LEMMA StandInsAreUsable ==
    /\ FieldsUsable(AR!Clarify) /\ AR!Clarify.status = "needsClarification"
    /\ FieldsUsable(AR!Redirect) /\ AR!Redirect.status = "redirectToFlowBuilder"
    /\ FieldsUsable(AR!NoJson) /\ AR!NoJson.status = "none"
<1>1. AR!Values("text")[1] = "text" /\ Head(AR!Values("text")) = "text"  BY DEF AR!Values
<1>2. /\ DOMAIN AR!Clarify.fields = {"question"} /\ AR!Clarify.fields["question"] = "text"
      /\ AR!Clarify.status = "needsClarification"
  BY <1>1 DEF AR!Clarify, AR!AsNeeded, AR!Needs
<1>3. /\ DOMAIN AR!Redirect.fields = {"reason"} /\ AR!Redirect.fields["reason"] = "text"
      /\ AR!Redirect.status = "redirectToFlowBuilder"
  BY <1>1 DEF AR!Redirect, AR!AsNeeded, AR!Needs
<1>4. DOMAIN AR!NoJson.fields = {} /\ AR!NoJson.status = "none"  BY DEF AR!NoJson
<1>5. AR!Needs("needsClarification")["question"] = "text" /\ AR!Needs("redirectToFlowBuilder")["reason"] = "text"
  BY DEF AR!Needs
<1>6. FieldsUsable(AR!Clarify)
  BY <1>2, <1>5 DEF FieldsUsable
<1>7. FieldsUsable(AR!Redirect)
  BY <1>3, <1>5 DEF FieldsUsable
<1> QED BY <1>2, <1>3, <1>4, <1>6, <1>7 DEF FieldsUsable

-----------------------------------------------------------------------------
(* AiRoutes: the steps. *)

\* The call was counted by the steps before the one at n.
CountedBy(route, n) == \E m \in 1..n - 1 : AR!Steps[route][m] = "charge"

\* Of every route: a call is its last step and was counted, the trend narrative's
\* apart, it is counted once, and what refuses the request comes before that, but for
\* two routes.
LEMMA StepsAre ==
    ASSUME NEW route \in AR!Routes, NEW n \in 1..Len(AR!Steps[route])
    PROVE  /\ n \in Nat /\ 1 \in 1..Len(AR!Steps[route])
           /\ AR!Steps[route][n] # "call" => n + 1 \in 1..Len(AR!Steps[route])
           /\ AR!Steps[route][n] = "call" /\ route # "trend" => CountedBy(route, n)
           /\ AR!Steps[route][n] \in {"charge", "peek"} => ~CountedBy(route, n)
           /\ AR!Steps[route][n] \in {"body", "provider", "row"} /\ CountedBy(route, n) => route = "diagnose"
<1>1. CASE route \in {"cron", "params", "translate"}
  <2>1. AR!Steps[route] = <<"body", "provider", "charge", "call">>
    BY <1>1 DEF AR!Steps, AR!Cron, AR!ParamSuggestions, AR!Translate
  <2>2. n \in 1..4 /\ Len(AR!Steps[route]) = 4  BY <2>1
  <2>3. CountedBy(route, n) <=> n > 3  BY <2>1, <2>2 DEF CountedBy
  <2> QED BY <2>1, <2>2, <2>3
<1>2. CASE route \in {"settings", "noise", "thresholds"}
  <2>1. AR!Steps[route] = <<"body", "provider", "charge", "history", "call">>
    BY <1>2 DEF AR!Steps, AR!SuggestSettings, AR!WebhookNoise, AR!SuggestThresholds
  <2>2. n \in 1..5 /\ Len(AR!Steps[route]) = 5  BY <2>1
  <2>3. CountedBy(route, n) <=> n > 3  BY <2>1, <2>2 DEF CountedBy
  <2> QED BY <2>1, <2>2, <2>3
<1>3. CASE route = "trend"
  <2>1. AR!Steps[route] = <<"body", "provider", "peek", "call">>  BY <1>3 DEF AR!Steps, AR!TrendNarrative
  <2>2. n \in 1..4 /\ Len(AR!Steps[route]) = 4  BY <2>1
  <2>3. ~CountedBy(route, n)  BY <2>1, <2>2 DEF CountedBy
  <2> QED BY <1>3, <2>1, <2>2, <2>3
<1>4. CASE route = "preset"
  <2>1. AR!Steps[route] = <<"provider", "charge", "call">>  BY <1>4 DEF AR!Steps, AR!PresetName
  <2>2. n \in 1..3 /\ Len(AR!Steps[route]) = 3  BY <2>1
  <2>3. CountedBy(route, n) <=> n > 2  BY <2>1, <2>2 DEF CountedBy
  <2> QED BY <2>1, <2>2, <2>3
<1>5. CASE route = "diagnose"
  <2>1. AR!Steps[route] = <<"provider", "charge", "row", "metrics", "errors", "call">>  BY <1>5 DEF AR!Steps, AR!Diagnose
  <2>2. n \in 1..6 /\ Len(AR!Steps[route]) = 6  BY <2>1
  <2>3. CountedBy(route, n) <=> n > 2  BY <2>1, <2>2 DEF CountedBy
  <2> QED BY <1>5, <2>1, <2>2, <2>3
<1>6. CASE route = "chat"
  <2>1. AR!Steps[route] = <<"body", "provider", "charge", "attach", "call">>  BY <1>6 DEF AR!Steps, AR!ParseChat
  <2>2. n \in 1..5 /\ Len(AR!Steps[route]) = 5  BY <2>1
  <2>3. CountedBy(route, n) <=> n > 3  BY <2>1, <2>2 DEF CountedBy
  <2> QED BY <2>1, <2>2, <2>3
<1>7. CASE route = "edit"
  <2>1. AR!Steps[route] = <<"body", "row", "provider", "charge", "call">>  BY <1>7 DEF AR!Steps, AR!EditScript
  <2>2. n \in 1..5 /\ Len(AR!Steps[route]) = 5  BY <2>1
  <2>3. CountedBy(route, n) <=> n > 4  BY <2>1, <2>2 DEF CountedBy
  <2> QED BY <2>1, <2>2, <2>3
<1> QED BY <1>1, <1>2, <1>3, <1>4, <1>5, <1>6, <1>7, RoutesAre

\* Every route has a first step.
LEMMA StepsBegin ==
    ASSUME NEW route \in AR!Routes
    PROVE  1 \in 1..Len(AR!Steps[route])
<1>1. CASE route \in {"cron", "params", "translate"}
  <2>1. AR!Steps[route] = <<"body", "provider", "charge", "call">>
    BY <1>1 DEF AR!Steps, AR!Cron, AR!ParamSuggestions, AR!Translate
  <2> QED BY <2>1
<1>2. CASE route \in {"settings", "noise", "thresholds"}
  <2>1. AR!Steps[route] = <<"body", "provider", "charge", "history", "call">>
    BY <1>2 DEF AR!Steps, AR!SuggestSettings, AR!WebhookNoise, AR!SuggestThresholds
  <2> QED BY <2>1
<1>3. CASE route = "trend"
  <2>1. AR!Steps[route] = <<"body", "provider", "peek", "call">>  BY <1>3 DEF AR!Steps, AR!TrendNarrative
  <2> QED BY <2>1
<1>6. CASE route = "preset"
  <2>1. AR!Steps[route] = <<"provider", "charge", "call">>  BY <1>6 DEF AR!Steps, AR!PresetName
  <2> QED BY <2>1
<1>5. CASE route = "diagnose"
  <2>1. AR!Steps[route] = <<"provider", "charge", "row", "metrics", "errors", "call">>  BY <1>5 DEF AR!Steps, AR!Diagnose
  <2> QED BY <2>1
<1>4. CASE route \in {"chat", "edit"}  BY <1>4 DEF AR!Steps, AR!ParseChat, AR!EditScript
<1> QED BY <1>1, <1>2, <1>3, <1>4, <1>5, <1>6, RoutesAre

\* A step leaves the call counted, or counts it.
LEMMA CountedNext ==
    ASSUME NEW route, NEW n \in Nat
    PROVE  CountedBy(route, n + 1) <=> CountedBy(route, n) \/ (n > 0 /\ AR!Steps[route][n] = "charge")
BY DEF CountedBy

\* What a step refuses a request with, and which steps do.
LEMMA RefusalsAre ==
    ASSUME NEW route, NEW step, NEW code \in AR!Refusals(route, step)
    PROVE  /\ code \in {400, 404, 422, 503}
           /\ step \in {"body", "row", "provider"} \/ route = "thresholds"
BY DEF AR!Refusals

-----------------------------------------------------------------------------
(* AiRoutes: the requests. *)

AnyReply ==
    {AR!NoJson, AR!Clarify, AR!Redirect}
    \cup {AR!Normalized(reply) : reply \in UNION {AR!Replies(route) : route \in AR!Routes}}
AskType ==
    [route : AR!Routes, at : Nat, mode : {"english", "swagger", "context"}, steps : BOOLEAN, charged : BOOLEAN,
     called : BOOLEAN, context : {"none", "blank", "spec", "page", "notice", "requests", "text"}, paths : Nat,
     code : Nat, reply : AnyReply]

\* A request under way is at one of its steps, that of the attachments while it
\* fetches one, and was counted if it passed that step; it has no answer yet.  One that is over was refused for nothing, or has an answer
\* that the page can use.
AskOK(r) ==
    /\ r \in AskType
    /\ r.at > 0 /\ r.code = 0 => r.at \in 1..Len(AR!Steps[r.route]) /\ (r.charged <=> CountedBy(r.route, r.at))
    /\ r.at > 0 /\ r.code = 0 /\ r.paths # 0 => AR!Steps[r.route][r.at] = "attach"
    /\ r.code = 0 => r.reply = AR!NoJson
    /\ r.charged /\ r.code \in {400, 404, 422, 429, 503} => r.route \in {"thresholds", "diagnose"}
    /\ r.code = 200 => AR!Usable(r)

\* Requests that were counted and have not made their call.
Owes(r) == r.charged /\ r.code = 0
Owing   == {s \in Slots : Owes(ask[s])}
AskInv  ==
    /\ ask \in [Slots -> AskType] /\ \A s \in Slots : AskOK(ask[s])
    /\ used \in Nat /\ called \in Nat
    /\ IsFiniteSet(Owing) /\ called + Cardinality(Owing) <= used

\* What the steps change of a request.
LEMMA AskChanges ==
    ASSUME NEW r \in AskType, NEW c \in {"none", "blank", "spec", "page", "notice", "requests", "text"},
           NEW n \in Nat
    PROVE  /\ AR!Passed(r) \in AskType /\ [AR!Passed(r) EXCEPT !.charged = TRUE] \in AskType
           /\ [AR!Passed(r) EXCEPT !.context = c] \in AskType /\ [r EXCEPT !.paths = n] \in AskType
           /\ [AR!Passed(r) EXCEPT !.paths = 0, !.context = c] \in AskType
<1> DEFINE here == r.at
           next == here + 1
<1>1. here \in Nat  BY DEF AskType
<1>2. AR!Passed(r) = [r EXCEPT !.at = next]  BY DEF AR!Passed
<1> HIDE DEF here
<1>3. next \in Nat  BY <1>1
<1> HIDE DEF next
<1>4. [r EXCEPT !.at = next] \in AskType  BY <1>3 DEF AskType
<1> DEFINE p == AR!Passed(r)
<1>5. p \in AskType  BY <1>2, <1>4
<1> HIDE DEF p
<1>6. [p EXCEPT !.charged = TRUE] \in AskType  BY <1>5 DEF AskType
<1>7. [p EXCEPT !.context = c] \in AskType  BY <1>5 DEF AskType
<1>8. [p EXCEPT !.paths = 0, !.context = c] \in AskType  BY <1>5 DEF AskType
<1>9. [r EXCEPT !.paths = n] \in AskType  BY DEF AskType
<1> QED BY <1>5, <1>6, <1>7, <1>8, <1>9 DEF p

\* What an error after the call changes of it.
LEMMA AnswerChanges ==
    ASSUME NEW r \in AskType, NEW number \in Nat
    PROVE  AR!Answer([r EXCEPT !.called = TRUE], number) \in AskType
BY DEF AskType, AR!Answer

\* A request goes on to its next step, or stays at this one.
LEMMA AskGoesOn ==
    ASSUME NEW r, AskOK(r), r.at > 0, r.code = 0, AR!Steps[r.route][r.at] # "call",
           NEW new \in AskType, new.route = r.route, new.code = 0, new.reply = r.reply,
           new.paths = 0 \/ (new.at = r.at /\ AR!Steps[r.route][r.at] = "attach"),
           \/ new.at = r.at /\ (new.charged <=> r.charged)
           \/ new.at = r.at + 1 /\ (new.charged <=> r.charged \/ AR!Steps[r.route][r.at] = "charge")
    PROVE  AskOK(new)
<1>1. /\ r.at \in 1..Len(AR!Steps[r.route]) /\ (r.charged <=> CountedBy(r.route, r.at)) /\ r.route \in AR!Routes
      /\ r.reply = AR!NoJson
  BY DEF AskOK, AskType
<1>2. r.at \in Nat /\ r.at + 1 \in 1..Len(AR!Steps[r.route])  BY <1>1, StepsAre
<1>3. CountedBy(r.route, r.at + 1) <=> CountedBy(r.route, r.at) \/ AR!Steps[r.route][r.at] = "charge"
  BY <1>2, CountedNext
<1> QED BY <1>1, <1>2, <1>3 DEF AskOK

\* A request is answered without its call: with an error, or by the route alone.
LEMMA AskEnds ==
    ASSUME NEW r, AskOK(r), r.code = 0, NEW new \in AskType, new.route = r.route, new.reply = r.reply, new.code # 0,
           new.charged /\ new.code \in {400, 404, 422, 429, 503} => new.route \in {"thresholds", "diagnose"}
    PROVE  AskOK(new)
<1>1. new.reply = AR!NoJson  BY DEF AskOK
<1>2. AR!Usable(new)  BY <1>1, StandInsAreUsable DEF AR!Usable, FieldsUsable
<1> QED BY <1>2 DEF AskOK

\* A request changes and the counts with it: it is counted before it owes a call, and
\* owes none once the call is made.
LEMMA AskMoves ==
    ASSUME AskInv, NEW s \in Slots, NEW new, AskOK(new), ask' = [ask EXCEPT ![s] = new], used' \in Nat, called' \in Nat,
           \/ used <= used' /\ called' = called /\ (Owes(new) => Owes(ask[s]) \/ used < used')
           \/ used' = used /\ called' = called + 1 /\ Owes(ask[s]) /\ ~Owes(new)
    PROVE  AskInv'
<1>1. /\ ask \in [Slots -> AskType] /\ \A q \in Slots : AskOK(ask[q])
      /\ IsFiniteSet(Owing) /\ used \in Nat /\ called \in Nat /\ called + Cardinality(Owing) <= used
  BY DEF AskInv
<1>2. new \in AskType  BY DEF AskOK
<1>3. ask' \in [Slots -> AskType] /\ \A q \in Slots : ask'[q] = IF q = s THEN new ELSE ask[q]
  BY <1>1, <1>2
<1>4. \A q \in Slots : AskOK(ask'[q])  BY <1>1, <1>3
<1>5. Owing' = IF Owes(new) THEN Owing \cup {s} ELSE Owing \ {s}
  BY <1>3 DEF Owing
<1>6. s \in Owing <=> Owes(ask[s])  BY DEF Owing
<1>7. Cardinality(Owing) \in Nat  BY <1>1, FS_CardinalityType
<1>8. /\ IsFiniteSet(Owing \cup {s}) /\ Cardinality(Owing \cup {s}) = IF s \in Owing THEN Cardinality(Owing) ELSE Cardinality(Owing) + 1
      /\ IsFiniteSet(Owing \ {s}) /\ Cardinality(Owing \ {s}) = IF s \in Owing THEN Cardinality(Owing) - 1 ELSE Cardinality(Owing)
  BY <1>1, FS_AddElement, FS_RemoveElement
<1> DEFINE m == Cardinality(Owing)
           z == Cardinality(Owing')
<1>9. /\ m \in Nat /\ IsFiniteSet(Owing') /\ called + m <= used
      /\ z = IF Owes(new) THEN (IF Owes(ask[s]) THEN m ELSE m + 1) ELSE (IF Owes(ask[s]) THEN m - 1 ELSE m)
  BY <1>1, <1>5, <1>6, <1>7, <1>8
<1> HIDE DEF m, z
<1>10. called' + z <= used'
  <2>1. CASE used' = used /\ called' = called + 1 /\ Owes(ask[s]) /\ ~Owes(new)
    <3>1. z = m - 1  BY <1>9, <2>1
    <3> QED BY <1>1, <1>9, <2>1, <3>1
  <2>2. CASE used <= used' /\ called' = called /\ (Owes(new) => Owes(ask[s]) \/ used < used')
    <3>1. z <= m \/ (z = m + 1 /\ used < used')
      <4>1. CASE Owes(new)  BY <1>9, <2>2, <4>1
      <4>2. CASE ~Owes(new)  BY <1>9, <4>2
      <4> QED BY <4>1, <4>2
    <3>2. z \in Int  BY <1>9
    <3> QED BY <1>1, <1>9, <2>2, <3>1, <3>2
  <2> QED BY <2>1, <2>2
<1> QED BY <1>3, <1>4, <1>9, <1>10 DEF AskInv, z

\* An answer to a conversation, checked: the page can use it, and it is no single
\* request in place of several steps.
LEMMA ChatReplyIs ==
    ASSUME NEW r \in AskType, r.route = "chat", NEW reply \in AR!Replies(r.route)
    PROVE  /\ AR!ChatReply(r, reply) \in AnyReply /\ FieldsUsable(AR!ChatReply(r, reply))
           /\ r.mode = "english" /\ r.steps => AR!ChatReply(r, reply).status # "ready"
<1>0. r.route \in AR!Routes  BY DEF AskType
<1>1. CASE AR!ChatReply(r, reply) \in {AR!Clarify, AR!Redirect, AR!NoJson}
  BY <1>1, StandInsAreUsable DEF AnyReply
<1>2. CASE /\ AR!Valid(reply) /\ AR!ChatReply(r, reply) = AR!Normalized(reply)
           /\ ~(reply.status = "ready" /\ r.mode = "english" /\ r.steps)
  <2>1. AR!Normalized(reply) \in AnyReply  BY <1>0 DEF AnyReply
  <2> QED BY <1>0, <1>2, <2>1, ValidIsUsable
<1> QED BY <1>1, <1>2 DEF AR!ChatReply

\* The same of every route.
LEMMA CheckedIs ==
    ASSUME NEW r \in AskType, NEW reply \in AR!Replies(r.route)
    PROVE  /\ AR!Checked(r, reply) \in AskType /\ AR!Checked(r, reply).code \in {200, 500}
           /\ AR!Usable(AR!Checked(r, reply))
<1> DEFINE c == IF r.route = "chat" THEN AR!ChatReply(r, reply)
                ELSE IF AR!Valid(reply) THEN AR!Normalized(reply) ELSE AR!NoJson
           code == IF c # AR!NoJson \/ r.route \in {"noise", "diagnose"} THEN 200 ELSE 500
           new == AR!Checked(r, reply)
<1>0. r.route \in AR!Routes  BY DEF AskType
<1>1. /\ c \in AnyReply /\ FieldsUsable(c)
      /\ r.mode = "english" /\ r.steps => c.status # "ready"
  <2>1. CASE r.route = "chat"  BY <2>1, ChatReplyIs
  <2>2. CASE r.route # "chat" /\ AR!Valid(reply)
    <3>1. c = AR!Normalized(reply) /\ reply # AR!NoJson  BY <2>2 DEF AR!Valid
    <3>2. reply.status \in AR!Statuses(r.route) /\ "ready" \notin AR!Statuses(r.route)
      BY <1>0, <2>2, <3>1, RepliesAre, StatusesAre
    <3>3. AR!Normalized(reply) \in AnyReply  BY <1>0 DEF AnyReply
    <3> QED BY <1>0, <2>2, <3>1, <3>2, <3>3, ValidIsUsable
  <2>3. CASE r.route # "chat" /\ ~AR!Valid(reply)
    <3>1. c = AR!NoJson  BY <2>3
    <3> QED BY <3>1, StandInsAreUsable DEF AnyReply
  <2> QED BY <2>1, <2>2, <2>3
<1>2. new = [r EXCEPT !.reply = c, !.called = TRUE, !.code = code]  BY DEF AR!Checked
<1>3. code \in {200, 500} /\ code \in Nat  OBVIOUS
<1> HIDE DEF c, code, new
<1>4. /\ new \in AskType /\ new.reply = c /\ new.code = code /\ new.mode = r.mode /\ (new.steps <=> r.steps)
  BY <1>1, <1>2, <1>3 DEF AskType
<1>5. AR!Usable(new)  BY <1>1, <1>4 DEF AR!Usable, FieldsUsable
<1> QED BY <1>3, <1>4, <1>5 DEF new

\* A slot without a request.
LEMMA IdleIsOK ==
    /\ AskOK(AR!Idle) /\ ~Owes(AR!Idle)
    /\ AR!Idle \in AskType /\ AR!Idle.code = 0 /\ AR!Idle.reply = AR!NoJson /\ ~AR!Idle.charged /\ AR!Idle.paths = 0
<1>1. /\ AR!Idle.at = 0 /\ AR!Idle.code = 0 /\ AR!Idle.reply = AR!NoJson /\ ~AR!Idle.charged /\ AR!Idle.paths = 0
  BY DEF AR!Idle
<1>2. AR!Idle \in AskType  BY RoutesAre DEF AR!Idle, AskType, AnyReply
<1> QED BY <1>1, <1>2 DEF AskOK, Owes

\* Every step of a route keeps the invariant.
LEMMA AskStep ==
    ASSUME AR!AiRoutesAssumption, AskInv, Asking
    PROVE  AskInv'
<1>0. /\ ask \in [Slots -> AskType] /\ used \in Nat /\ called \in Nat /\ used <= used
      /\ \A s \in Slots : AskOK(ask[s]) /\ ask[s] \in AskType /\ ask[s].route \in AR!Routes
  <2>1. used <= used  BY DEF AskInv
  <2> QED BY <2>1 DEF AskInv, AskType
<1>1. ASSUME NEW s \in Slots, NEW new, AskOK(new), ask' = [ask EXCEPT ![s] = new], UNCHANGED <<used, called>>,
             Owes(new) => Owes(ask[s])
      PROVE  AskInv'
  BY <1>0, <1>1, AskMoves
<1>2. ASSUME NEW s \in Slots, AR!Under(s), AR!Step(s) # "call", NEW new \in AskType,
             new.route = ask[s].route, new.code = 0, new.reply = ask[s].reply,
             new.paths = 0 \/ (new.at = ask[s].at /\ AR!Step(s) = "attach"),
             \/ new.at = ask[s].at /\ (new.charged <=> ask[s].charged)
             \/ new.at = ask[s].at + 1 /\ (new.charged <=> ask[s].charged \/ AR!Step(s) = "charge")
      PROVE  AskOK(new)
  BY <1>0, <1>2, AskGoesOn DEF AR!Under, AR!Step
<1>3. ASSUME NEW s \in Slots, AR!Under(s), NEW code \in {200, 400, 404, 422, 429, 500, 503},
             code \in {400, 404, 422, 429, 503} /\ ask[s].charged => ask[s].route \in {"thresholds", "diagnose"}
      PROVE  AskOK(AR!Answer(ask[s], code)) /\ ~Owes(AR!Answer(ask[s], code))
  <2>0. ask[s] \in AskType  BY <1>0
  <2>6. code \in Nat  OBVIOUS
  <2>5. AR!Answer(ask[s], code) \in AskType  BY <2>0, <2>6 DEF AskType, AR!Answer
  <2> DEFINE new == AR!Answer(ask[s], code)
  <2>1. new \in AskType  BY <2>5
  <2>2. /\ new.route = ask[s].route /\ new.reply = ask[s].reply /\ new.code = code /\ (new.charged <=> ask[s].charged)
    BY <1>0 DEF AR!Answer, AskType
  <2>3. ask[s].code = 0  BY <1>3 DEF AR!Under
  <2> HIDE DEF new
  <2>4. AskOK(new)  BY <1>0, <1>3, <2>1, <2>2, <2>3, AskEnds
  <2> QED BY <2>2, <2>4 DEF new, Owes
<1>4. ASSUME NEW s \in Slots, AR!Under(s), AR!Step(s) \notin {"call", "charge"}, ask[s].paths = 0
      PROVE  /\ AskOK(AR!Passed(ask[s])) /\ (Owes(AR!Passed(ask[s])) => Owes(ask[s]))
  <2> DEFINE new == AR!Passed(ask[s])
  <2>1. new \in AskType  BY <1>0, AskChanges
  <2>2. /\ new.route = ask[s].route /\ new.reply = ask[s].reply /\ new.code = ask[s].code /\ (new.charged <=> ask[s].charged)
        /\ new.at = ask[s].at + 1 /\ new.paths = 0
    BY <1>0, <1>4 DEF AR!Passed, AskType
  <2>3. ask[s].code = 0  BY <1>4 DEF AR!Under
  <2> HIDE DEF new
  <2>4. AskOK(new)  BY <1>2, <1>4, <2>1, <2>2, <2>3
  <2> QED BY <2>2, <2>4 DEF new, Owes
<1>5. ASSUME NEW s \in Slots, AR!Under(s)
      PROVE  /\ ask[s].at \in 1..Len(AR!Steps[ask[s].route]) /\ (ask[s].charged <=> CountedBy(ask[s].route, ask[s].at))
             /\ ask[s].code = 0 /\ (ask[s].paths # 0 => AR!Step(s) = "attach")
  BY <1>0, <1>5 DEF AR!Under, AR!Step, AskOK
<1>6. ASSUME NEW s \in Slots, NEW route \in AR!Routes, AR!Request(s, route) PROVE AskInv'
  <2> DEFINE ok(new) == AskOK(new) /\ ~Owes(new)
  <2>1. ASSUME NEW m \in {"english", "swagger", "context"}, NEW several \in BOOLEAN
        PROVE  ok([AR!Idle EXCEPT !.route = route, !.at = 1, !.mode = m, !.steps = several])
    <3> DEFINE new == [AR!Idle EXCEPT !.route = route, !.at = 1, !.mode = m, !.steps = several]
    <3> DEFINE idle == AR!Idle
    <3>1. idle \in AskType /\ idle.code = 0 /\ idle.reply = AR!NoJson /\ ~idle.charged /\ idle.paths = 0  BY IdleIsOK
    <3>6. new = [idle EXCEPT !.route = route, !.at = 1, !.mode = m, !.steps = several]  OBVIOUS
    <3> HIDE DEF idle, new
    <3>2. new \in AskType
      <4> DEFINE first == [idle EXCEPT !.route = route, !.at = 1]
      <4>1. first \in AskType  BY <3>1 DEF AskType
      <4>2. new = [first EXCEPT !.mode = m, !.steps = several]  BY <3>1, <3>6 DEF AskType
      <4> HIDE DEF first
      <4>3. CASE several = TRUE
        <5>1. new = [first EXCEPT !.mode = m, !.steps = TRUE]  BY <4>2, <4>3
        <5> QED BY <4>1, <5>1 DEF AskType
      <4>4. CASE several = FALSE
        <5>1. new = [first EXCEPT !.mode = m, !.steps = FALSE]  BY <4>2, <4>4
        <5> QED BY <4>1, <5>1 DEF AskType
      <4> QED BY <4>3, <4>4
    <3>3. 1 \in 1..Len(AR!Steps[route]) /\ ~CountedBy(route, 1)
      BY StepsBegin DEF CountedBy
    <3>4. /\ new.route = route /\ new.at = 1 /\ new.code = 0 /\ new.reply = AR!NoJson /\ ~new.charged /\ new.paths = 0
      BY <3>1, <3>6 DEF AskType
    <3>5. AskOK(new) /\ ~Owes(new)  BY <3>2, <3>3, <3>4 DEF AskOK, Owes
    <3> QED BY <3>5 DEF new
  <2>2. PICK m \in {"english", "swagger", "context"}, several \in BOOLEAN :
            ask' = [ask EXCEPT ![s] = [AR!Idle EXCEPT !.route = route, !.at = 1, !.mode = m, !.steps = several]]
    BY <1>6 DEF AR!Request, AR!Becomes
  <2> DEFINE new == [AR!Idle EXCEPT !.route = route, !.at = 1, !.mode = m, !.steps = several]
  <2>3. ok(new)  BY <2>1
  <2>4. ask' = [ask EXCEPT ![s] = new] /\ UNCHANGED <<used, called>>  BY <1>6, <2>2 DEF AR!Request
  <2> HIDE DEF new
  <2> QED BY <1>1, <2>3, <2>4
<1>7. ASSUME NEW s \in Slots, AR!Check(s) PROVE AskInv'
  <2>1. /\ AR!Under(s) /\ ask[s].paths = 0 /\ UNCHANGED <<used, called>>
        /\ AR!Step(s) \in {"body", "row", "provider", "history", "metrics", "errors"}
    BY <1>7 DEF AR!Check
  <2>2. CASE AR!Becomes(s, AR!Passed(ask[s]))
    <3> DEFINE new == AR!Passed(ask[s])
    <3>1. AskOK(new) /\ (Owes(new) => Owes(ask[s]))  BY <1>4, <2>1
    <3>2. ask' = [ask EXCEPT ![s] = new]  BY <2>2 DEF AR!Becomes
    <3> HIDE DEF new
    <3> QED BY <1>1, <2>1, <3>1, <3>2
  <2>3. ASSUME NEW code \in {200, 400, 404, 422, 429, 500, 503}, AR!Becomes(s, AR!Answer(ask[s], code)),
               code \in {400, 404, 422, 429, 503} /\ ask[s].charged => ask[s].route \in {"thresholds", "diagnose"}
        PROVE  AskInv'
    <3> DEFINE new == AR!Answer(ask[s], code)
    <3>1. AskOK(new) /\ ~Owes(new)  BY <1>3, <2>1, <2>3
    <3>2. ask' = [ask EXCEPT ![s] = new] /\ UNCHANGED <<used, called>>  BY <2>1, <2>3 DEF AR!Becomes
    <3> HIDE DEF new
    <3> QED BY <1>1, <3>1, <3>2
  <2>4. ASSUME NEW code \in AR!Refusals(ask[s].route, AR!Step(s)), AR!Becomes(s, AR!Answer(ask[s], code))
        PROVE  AskInv'
    <3>1. code \in {400, 404, 422, 503} /\ (AR!Step(s) \in {"body", "row", "provider"} \/ ask[s].route = "thresholds")
      BY RefusalsAre
    <3>2. ask[s].charged => ask[s].route \in {"thresholds", "diagnose"}
      BY <1>0, <1>5, <2>1, <3>1, StepsAre DEF AR!Step
    <3> QED BY <2>3, <2>4, <3>1, <3>2
  <2>5. CASE AR!Becomes(s, AR!Answer(ask[s], 200))  BY <2>3, <2>5
  <2>6. CASE AR!Becomes(s, AR!Answer(ask[s], 500))  BY <2>3, <2>6
  <2> QED BY <1>7, <2>2, <2>4, <2>5, <2>6 DEF AR!Check
<1>8. ASSUME NEW s \in Slots, AR!Charge(s) PROVE AskInv'
  <2>1. AR!Under(s) /\ ask[s].paths = 0 /\ AR!Step(s) = "charge" /\ UNCHANGED called  BY <1>8 DEF AR!Charge, AR!At
  <2>2. ~ask[s].charged  BY <1>0, <1>5, <2>1, StepsAre DEF AR!Step
  <2>3. CASE used' = used + 1 /\ AR!Becomes(s, [AR!Passed(ask[s]) EXCEPT !.charged = TRUE])
    <3> DEFINE new == [AR!Passed(ask[s]) EXCEPT !.charged = TRUE]
    <3>1. new \in AskType  BY <1>0, AskChanges
    <3>2. /\ new.route = ask[s].route /\ new.reply = ask[s].reply /\ new.code = ask[s].code /\ new.charged
          /\ new.at = ask[s].at + 1 /\ new.paths = 0
      BY <1>0, <2>1 DEF AR!Passed, AskType
    <3>3. ask' = [ask EXCEPT ![s] = new]  BY <2>3 DEF AR!Becomes
    <3>4. ask[s].code = 0  BY <2>1 DEF AR!Under
    <3> HIDE DEF new
    <3>5. AskOK(new)  BY <1>2, <2>1, <3>1, <3>2, <3>4
    <3>6. used' \in Nat /\ used < used' /\ used <= used'  BY <1>0, <2>3
    <3> QED BY <1>0, <2>1, <3>3, <3>5, <3>6, AskMoves
  <2>4. ASSUME NEW code \in {429, 500}, AR!Becomes(s, AR!Answer(ask[s], code)), UNCHANGED used PROVE AskInv'
    <3> DEFINE new == AR!Answer(ask[s], code)
    <3>1. AskOK(new) /\ ~Owes(new)  BY <1>3, <2>1, <2>2
    <3>2. ask' = [ask EXCEPT ![s] = new]  BY <2>4 DEF AR!Becomes
    <3> HIDE DEF new
    <3> QED BY <1>1, <2>1, <2>4, <3>1, <3>2
  <2> QED BY <1>8, <2>3, <2>4 DEF AR!Charge
<1>9. ASSUME NEW s \in Slots, AR!Peek(s) PROVE AskInv'
  <2>1. AR!Under(s) /\ ask[s].paths = 0 /\ AR!Step(s) = "peek" /\ UNCHANGED <<used, called>>  BY <1>9 DEF AR!Peek, AR!At
  <2>2. ~ask[s].charged  BY <1>0, <1>5, <2>1, StepsAre DEF AR!Step
  <2>3. CASE AR!Becomes(s, AR!Passed(ask[s]))
    <3> DEFINE new == AR!Passed(ask[s])
    <3>1. AskOK(new) /\ (Owes(new) => Owes(ask[s]))  BY <1>4, <2>1
    <3>2. ask' = [ask EXCEPT ![s] = new]  BY <2>3 DEF AR!Becomes
    <3> HIDE DEF new
    <3> QED BY <1>1, <2>1, <3>1, <3>2
  <2>4. ASSUME NEW code \in {429, 500}, AR!Becomes(s, AR!Answer(ask[s], code)) PROVE AskInv'
    <3> DEFINE new == AR!Answer(ask[s], code)
    <3>1. AskOK(new) /\ ~Owes(new)  BY <1>3, <2>1, <2>2
    <3>2. ask' = [ask EXCEPT ![s] = new]  BY <2>4 DEF AR!Becomes
    <3> HIDE DEF new
    <3> QED BY <1>1, <2>1, <3>1, <3>2
  <2> QED BY <1>9, <2>3, <2>4 DEF AR!Peek
<1>10. ASSUME NEW s \in Slots, AR!Under(s), AR!Step(s) = "attach", NEW new \in AskType,
              new.route = ask[s].route, new.code = ask[s].code, new.reply = ask[s].reply, new.charged <=> ask[s].charged,
              new.at = ask[s].at \/ (new.at = ask[s].at + 1 /\ new.paths = 0),
              AR!Becomes(s, new), UNCHANGED <<used, called>>
       PROVE  AskInv'
  <2>1. ask[s].code = 0  BY <1>10 DEF AR!Under
  <2>2. AskOK(new)  BY <1>2, <1>10, <2>1
  <2>3. Owes(new) => Owes(ask[s])  BY <1>10, <2>1 DEF Owes
  <2>4. ask' = [ask EXCEPT ![s] = new]  BY <1>10 DEF AR!Becomes
  <2> QED BY <1>1, <1>10, <2>2, <2>3, <2>4
<1>11. ASSUME NEW s \in Slots, AR!Under(s), AR!Step(s) = "attach", UNCHANGED <<used, called>>,
              NEW c \in {"none", "blank", "spec", "page", "notice", "requests", "text"},
              \/ ask[s].paths = 0 /\ AR!Becomes(s, [AR!Passed(ask[s]) EXCEPT !.context = c])
              \/ AR!Becomes(s, [AR!Passed(ask[s]) EXCEPT !.paths = 0, !.context = c])
       PROVE  AskInv'
  <2>1. CASE ask[s].paths = 0 /\ AR!Becomes(s, [AR!Passed(ask[s]) EXCEPT !.context = c])
    <3> DEFINE new == [AR!Passed(ask[s]) EXCEPT !.context = c]
    <3>1. new \in AskType  BY <1>0, AskChanges
    <3>2. /\ new.route = ask[s].route /\ new.code = ask[s].code /\ new.reply = ask[s].reply
          /\ (new.charged <=> ask[s].charged) /\ new.at = ask[s].at + 1 /\ new.paths = 0
      BY <1>0, <2>1 DEF AR!Passed, AskType
    <3>3. AR!Becomes(s, new)  BY <2>1
    <3> HIDE DEF new
    <3> QED BY <1>10, <1>11, <3>1, <3>2, <3>3
  <2>2. CASE AR!Becomes(s, [AR!Passed(ask[s]) EXCEPT !.paths = 0, !.context = c])
    <3> DEFINE new == [AR!Passed(ask[s]) EXCEPT !.paths = 0, !.context = c]
    <3>1. new \in AskType  BY <1>0, AskChanges
    <3>2. /\ new.route = ask[s].route /\ new.code = ask[s].code /\ new.reply = ask[s].reply
          /\ (new.charged <=> ask[s].charged) /\ new.at = ask[s].at + 1 /\ new.paths = 0
      BY <1>0 DEF AR!Passed, AskType
    <3>3. AR!Becomes(s, new)  BY <2>2
    <3> HIDE DEF new
    <3> QED BY <1>10, <1>11, <3>1, <3>2, <3>3
  <2> QED BY <1>11, <2>1, <2>2
<1>12. ASSUME NEW s \in Slots, AR!Under(s), AR!Step(s) = "attach", UNCHANGED <<used, called>>,
              NEW n \in Nat, AR!Becomes(s, [ask[s] EXCEPT !.paths = n])
       PROVE  AskInv'
  <2> DEFINE new == [ask[s] EXCEPT !.paths = n]
  <2>1. new \in AskType  BY <1>0, AskChanges
  <2>2. /\ new.route = ask[s].route /\ new.code = ask[s].code /\ new.reply = ask[s].reply
        /\ (new.charged <=> ask[s].charged) /\ new.at = ask[s].at
    BY <1>0 DEF AskType
  <2>3. AR!Becomes(s, new)  BY <1>12
  <2> HIDE DEF new
  <2> QED BY <1>10, <1>12, <2>1, <2>2, <2>3
<1>13. ASSUME NEW s \in Slots, AR!Attach(s) PROVE AskInv'
  <2>1. /\ AR!Under(s) /\ AR!Step(s) = "attach" /\ ask[s].paths = 0 /\ UNCHANGED <<used, called>>
        /\ \/ \E c \in {"none", "blank", "text", "requests", "notice"} : AR!Becomes(s, [AR!Passed(ask[s]) EXCEPT !.context = c])
           \/ \E n \in {1, 6} : AR!Becomes(s, [ask[s] EXCEPT !.paths = n])
    BY <1>13 DEF AR!Attach, AR!At, AR!SummarizeHar, AR!SpecPaths
  <2> QED BY <1>11, <1>12, <2>1
<1>14. ASSUME NEW s \in Slots, AR!FetchSpec(s) PROVE AskInv'
  <2>1. /\ AR!Under(s) /\ UNCHANGED <<used, called>> /\ ask[s].paths > 0 /\ ask[s].paths \in Nat
        /\ \/ AR!Becomes(s, [ask[s] EXCEPT !.paths = @ + 1])
           \/ \E c \in {"spec", "notice", "page"} : AR!Becomes(s, [AR!Passed(ask[s]) EXCEPT !.paths = 0, !.context = c])
    BY <1>0, <1>14 DEF AR!FetchSpec, AR!SummarizeSpec, AskType
  <2>2. AR!Step(s) = "attach"  BY <1>5, <2>1
  <2>3. CASE AR!Becomes(s, [ask[s] EXCEPT !.paths = @ + 1])
    <3> DEFINE n == ask[s].paths + 1
    <3>1. n \in Nat  BY <2>1
    <3>2. AR!Becomes(s, [ask[s] EXCEPT !.paths = n])  BY <2>3
    <3> HIDE DEF n
    <3> QED BY <1>12, <2>1, <2>2, <3>1, <3>2
  <2>4. ASSUME NEW c \in {"spec", "notice", "page"},
               AR!Becomes(s, [AR!Passed(ask[s]) EXCEPT !.paths = 0, !.context = c])
        PROVE  AskInv'
    BY <1>11, <2>1, <2>2, <2>4
  <2> QED BY <2>1, <2>3, <2>4
<1>15. ASSUME NEW s \in Slots, AR!Call(s) PROVE AskInv'
  <2>1. /\ AR!Under(s) /\ AR!Step(s) = "call" /\ ask[s].code = 0 /\ ask[s].reply = AR!NoJson /\ used' = used
        /\ called' = IF ask[s].route = "trend" THEN called ELSE called + 1
    BY <1>0, <1>15 DEF AR!Call, AR!At, AR!Under, AskOK
  <2>2. ask[s].route # "trend" => Owes(ask[s])  BY <1>0, <1>5, <2>1, StepsAre DEF AR!Step, Owes
  <2>3. ASSUME NEW new, AskOK(new), new.code # 0, AR!Becomes(s, new) PROVE AskInv'
    <3>1. ask' = [ask EXCEPT ![s] = new] /\ ~Owes(new)  BY <2>3 DEF AR!Becomes, Owes
    <3>2. called' \in Nat /\ used' \in Nat /\ used <= used'  BY <1>0, <2>1
    <3>3. CASE ask[s].route = "trend"  BY <2>1, <2>3, <3>1, <3>2, <3>3, AskMoves
    <3>4. CASE ask[s].route # "trend"  BY <2>1, <2>2, <2>3, <3>1, <3>2, <3>4, AskMoves
    <3> QED BY <3>3, <3>4
  <2>4. CASE AR!Becomes(s, AR!Answer([ask[s] EXCEPT !.called = TRUE], 500))
    <3> DEFINE new == AR!Answer([ask[s] EXCEPT !.called = TRUE], 500)
    <3>1. new \in AskType
      <4>1. 500 \in Nat  OBVIOUS
      <4> QED BY <1>0, <4>1, AnswerChanges
    <3>2. new.route = ask[s].route /\ new.reply = ask[s].reply /\ new.code = 500  BY <1>0 DEF AR!Answer, AskType
    <3>3. AR!Becomes(s, new)  BY <2>4
    <3> HIDE DEF new
    <3>4. AskOK(new)  BY <1>0, <2>1, <3>1, <3>2, AskEnds
    <3> QED BY <2>3, <3>2, <3>3, <3>4
  <2>5. ASSUME NEW reply \in AR!Replies(ask[s].route), AR!Becomes(s, AR!Checked(ask[s], reply)) PROVE AskInv'
    <3> DEFINE new == AR!Checked(ask[s], reply)
    <3>1. new \in AskType /\ new.code \in {200, 500} /\ AR!Usable(new)  BY <1>0, CheckedIs
    <3>2. AR!Becomes(s, new)  BY <2>5
    <3> HIDE DEF new
    <3>3. AskOK(new) /\ new.code # 0  BY <3>1 DEF AskOK
    <3> QED BY <2>3, <3>2, <3>3
  <2> QED BY <1>15, <2>4, <2>5 DEF AR!Call
<1>16. AskOK(AR!Idle) /\ ~Owes(AR!Idle)  BY IdleIsOK
<1>17. ASSUME NEW s \in Slots, AR!Answered(s) PROVE AskInv'
  BY <1>1, <1>16, <1>17 DEF AR!Answered, AR!Becomes
<1>18. CASE AR!CountFor
  <2>1. used' \in Nat /\ used <= used' /\ UNCHANGED <<called, ask>>  BY <1>0, <1>18 DEF AR!CountFor
  <2>2. Owing' = Owing  BY <2>1 DEF Owing
  <2>3. IsFiniteSet(Owing) /\ called + Cardinality(Owing) <= used /\ Cardinality(Owing) \in Nat
    BY FS_CardinalityType DEF AskInv
  <2>4. called + Cardinality(Owing) <= used'
    <3> DEFINE m == Cardinality(Owing)
    <3>1. m \in Nat /\ called + m <= used  BY <2>3
    <3> HIDE DEF m
    <3>2. called + m <= used'  BY <1>0, <2>1, <3>1
    <3> QED BY <3>2 DEF m
  <2> QED BY <1>0, <2>1, <2>2, <2>3, <2>4 DEF AskInv
<1> QED BY <1>6, <1>7, <1>8, <1>9, <1>13, <1>14, <1>15, <1>17, <1>18 DEF Asking, Rou

\* No request was made yet.
LEMMA AskStarts ==
    ASSUME Init
    PROVE  AskInv
<1>1. used = 0 /\ called = 0 /\ ask = [s \in Slots |-> AR!Idle]  BY DEF Init, AR!AiRoutesInit
<1>2. AskOK(AR!Idle) /\ ~Owes(AR!Idle) /\ AR!Idle \in AskType  BY IdleIsOK DEF AskOK
<1> HIDE DEF AR!Idle
<1>3. ask \in [Slots -> AskType] /\ \A s \in Slots : ask[s] = AR!Idle  BY <1>1, <1>2
<1>4. Owing = {}  BY <1>2, <1>3 DEF Owing
<1>5. IsFiniteSet(Owing) /\ Cardinality(Owing) = 0  BY <1>4, FS_EmptySet
<1> QED BY <1>1, <1>2, <1>3, <1>5 DEF AskInv

\* The calls of a day that were made were counted before, a refused request has cost
\* nothing, thresholds and diagnoses apart, and whatever a provider answers, the page
\* is given what it can use (AiRoutes).
THEOREM AnswersCorrect == Spec => []SoundAnswers
<1> DEFINE Inv == part = "routes" => AskInv
<1>1. AR!AiRoutesAssumption  BY Assumptions
<1>2. Init => Inv  BY AskStarts
<1>3. Inv /\ [Next]_allvars => Inv'
  <2> SUFFICES ASSUME AskInv, part = "routes", [Next]_allvars PROVE AskInv'
    BY Frame
  <2>1. CASE Asking  BY <1>1, <2>1, AskStep
  <2>2. CASE UNCHANGED arvars
    <3>1. Owing' = Owing  BY <2>2 DEF arvars, Owing
    <3> QED BY <2>2, <3>1 DEF arvars, AskInv
  <2> QED BY <2>1, <2>2, Frame
<1>4. Inv => SoundAnswers
  <2> SUFFICES ASSUME AskInv PROVE AR!SoundAnswers  BY DEF SoundAnswers
  <2> DEFINE m == Cardinality(Owing)
  <2>1. called + m <= used /\ m \in Nat /\ called \in Nat /\ used \in Nat  BY FS_CardinalityType DEF AskInv
  <2> HIDE DEF m
  <2>2. called <= used  BY <2>1
  <2>3. \A s \in Slots : AskOK(ask[s])  BY DEF AskInv
  <2> QED BY <2>2, <2>3 DEF AR!SoundAnswers, AR!PaidFor, AskOK
<1> QED BY <1>2, <1>3, <1>4, PTL DEF Spec
=============================================================================
