---------------------------- MODULE Scripts_proofs ----------------------------
(***************************************************************************)
(* Proofs about ScriptPipeline, for all values of its constants, as a part *)
(* of MCServices.  A behaviour is one of one component: 'part' says which. *)
(***************************************************************************)
EXTENDS MCServices, FiniteSetTheorems, TLAPS

\* A step of MCServices is one of the component of the behaviour, or leaves that
\* component alone; the component never changes.
LEMMA Frame ==
    ASSUME [Next]_allvars
    PROVE  /\ part' = part
           /\ part \in {"scripts", "edits"} => Scripts \/ Edits \/ UNCHANGED spvars
<1>1. CASE Recorder  BY <1>1 DEF Recorder, Rec
<1>2. CASE Scripts   BY <1>2 DEF Scripts, Scr
<1>3. CASE Edits     BY <1>3 DEF Edits, Edi
<1>4. CASE Schema    BY <1>4 DEF Schema, Sch
<1>5. CASE Capture   BY <1>5 DEF Capture, Cap
<1>6. CASE Calls     BY <1>6 DEF Calls, Cal
<1>7. CASE Chat      BY <1>7 DEF Chat, Cha
<1>8. CASE Plan      BY <1>8 DEF Plan, Pla
<1>9. CASE Live      BY <1>9 DEF Live, Liv
<1>10. CASE ExecutionLog BY <1>10 DEF ExecutionLog, Log
<1>11. CASE View     BY <1>11 DEF View, Vie
<1>12. CASE Asking   BY <1>12 DEF Asking, Rou
<1>13. CASE Judging  BY <1>13 DEF Judging, Ver
<1>14. CASE UNCHANGED allvars BY <1>14 DEF allvars
<1> QED BY <1>1, <1>2, <1>3, <1>4, <1>5, <1>6, <1>7, <1>8, <1>9, <1>10, <1>11, <1>12, <1>13, <1>14 DEF Next

-----------------------------------------------------------------------------
(* ScriptPipeline. *)

\* What the variables of the script pipeline can be.
ScriptTexts == SP!Texts \cup {SP!NoText}
Descriptions == {w.desc : w \in Wants \cup Stored} \cup {SP!NoDesc}
Owners == {w.team : w \in Wants \cup Stored} \cup {SP!NoDesc}
TestMessages == [t : Tests, cached : ScriptTexts, cachedDesc : Descriptions, text : ScriptTexts, id : Nat, tries : Nat]
Requests == [pc : {"new", "send", "accepted", "refused"}, dest : {"ai", "work"}, m : TestMessages]
ScriptRows == [id : Nat, text : ScriptTexts, desc : Descriptions, team : Owners]
Edited == [pc : {"idle", "begun", "locked", "archived"}, text : ScriptTexts, copy : ScriptTexts]
JobPcs == {"charge", "send", "chargeCompare", "compare", "generate", "retry", "bury", "ack"}
Jobs == [pc : JobPcs, m : TestMessages, from : TestMessages, live : BOOLEAN] \cup {SP!Idle}
Queued(b) == DOMAIN b \subseteq TestMessages /\ b \in [DOMAIN b -> Nat \ {0}]
OnTheWay == [to : {"work", "ai", "dlq"}, m : TestMessages]
Carried(b) == DOMAIN b \subseteq OnTheWay /\ b \in [DOMAIN b -> Nat \ {0}]
ScriptsTyped ==
    /\ want \in [Tests -> Wants]
    /\ request \in [Tests -> Requests] /\ \A t \in Tests : request[t].m.t = t
    /\ scriptRow \in ScriptRows /\ nextId \in Nat \ {0} /\ versions \subseteq ScriptTexts
    /\ Queued(ai) /\ Queued(work) /\ Carried(fresh)
    /\ job \in [Slots -> Jobs] /\ \A s \in Slots : job[s].pc # "idle" => job[s].from.t = job[s].m.t
    /\ edit \in [Editors -> Edited]
    /\ compares \in [Tests -> Nat] /\ faults \in Nat

\* What is put on a queue and taken from one.
LEMMA PutOne ==
    ASSUME NEW b, Queued(b), NEW m \in TestMessages
    PROVE  /\ Queued(SP!Put(b, m)) /\ DOMAIN SP!Put(b, m) = DOMAIN b \cup {m}
           /\ \A n \in DOMAIN b \ {m} : SP!Put(b, m)[n] = b[n]
           /\ m \notin DOMAIN b => SP!Put(b, m)[m] = 1
BY DEF SP!Put, SP!(+), SP!SetToBag, Queued
LEMMA DropOne ==
    ASSUME NEW b, Queued(b), NEW m \in DOMAIN b
    PROVE  /\ Queued(SP!Drop(b, m)) /\ DOMAIN b \ {m} \subseteq DOMAIN SP!Drop(b, m)
           /\ DOMAIN SP!Drop(b, m) \subseteq DOMAIN b
           /\ \A n \in DOMAIN b \ {m} : SP!Drop(b, m)[n] = b[n]
           /\ b[m] = 1 => m \notin DOMAIN SP!Drop(b, m)
BY DEF SP!Drop, SP!(-), SP!SetToBag, Queued
LEMMA SendOne ==
    ASSUME NEW b, Carried(b), NEW x \in OnTheWay
    PROVE  Carried(SP!Put(b, x)) /\ DOMAIN SP!Put(b, x) = DOMAIN b \cup {x}
BY DEF SP!Put, SP!(+), SP!SetToBag, Carried
LEMMA ArriveOne ==
    ASSUME NEW b, Carried(b), NEW x \in DOMAIN b
    PROVE  /\ Carried(SP!Drop(b, x)) /\ DOMAIN b \ {x} \subseteq DOMAIN SP!Drop(b, x)
           /\ DOMAIN SP!Drop(b, x) \subseteq DOMAIN b
BY DEF SP!Drop, SP!(-), SP!SetToBag, Carried
LEMMA PutBack ==
    ASSUME NEW b, Queued(b), ScriptsTyped
    PROVE  LET c == SP!(+)(b, SP!Requeued) IN
           /\ Queued(c) /\ DOMAIN c = DOMAIN b \cup {job[s].from : s \in SP!Unacked}
           /\ \A n \in DOMAIN c : n \notin {job[s].from : s \in SP!Unacked} => c[n] = b[n]
           /\ \A n \in DOMAIN c : n \notin DOMAIN b => c[n] = 1
<1>1. {job[s].from : s \in SP!Unacked} \subseteq TestMessages
  BY DEF ScriptsTyped, SP!Unacked, Jobs, SP!Idle
<1> DEFINE fs == {job[s].from : s \in SP!Unacked}
<1>2. SP!Requeued = [m \in fs |-> 1]  BY DEF SP!Requeued
<1> HIDE DEF fs
<1>3. fs \subseteq TestMessages  BY <1>1 DEF fs
<1>4. LET c == SP!(+)(b, [m \in fs |-> 1]) IN
           /\ Queued(c) /\ DOMAIN c = DOMAIN b \cup fs
           /\ \A n \in DOMAIN c : n \notin fs => c[n] = b[n]
           /\ \A n \in DOMAIN c : n \notin DOMAIN b => c[n] = 1
  BY <1>3 DEF SP!(+), Queued
<1> QED BY <1>2, <1>4 DEF fs

\* What a message is made of, and what it becomes.
About(t, m) == m \in TestMessages /\ m.t = t
LEMMA MessageTypes ==
    /\ \A t \in Tests : About(t, SP!Blank(t))
    /\ \A m \in TestMessages :
          /\ About(m.t, SP!Cleared(m)) /\ About(m.t, [m EXCEPT !.tries = @ + 1])
          /\ \A x \in ScriptTexts : About(m.t, [m EXCEPT !.text = x])
          /\ \A x \in ScriptTexts, n \in Nat : About(m.t, [m EXCEPT !.text = x, !.id = n])
          /\ \A x \in ScriptTexts, d \in Descriptions, n \in Nat :
                About(m.t, [m EXCEPT !.cached = x, !.cachedDesc = d, !.id = n])
    /\ \A t \in Tests : {[kind |-> "custom", by |-> t], [kind |-> "generated", by |-> t]} \subseteq ScriptTexts
    /\ \A u \in Editors : [kind |-> "edited", by |-> u] \in ScriptTexts
    /\ SP!NoText \in ScriptTexts /\ SP!NoDesc \in Descriptions /\ SP!NoDesc \in Owners
    /\ \A w \in Wants \cup Stored : w.desc \in Descriptions /\ w.team \in Owners
<1> DEFINE texts == ScriptTexts
           descs == Descriptions
<1>1. /\ \A t \in Tests : {[kind |-> "custom", by |-> t], [kind |-> "generated", by |-> t]} \subseteq texts
      /\ \A u \in Editors : [kind |-> "edited", by |-> u] \in texts
      /\ SP!NoText \in texts
  BY DEF ScriptTexts, SP!Texts
<1>2. SP!NoDesc \in descs /\ SP!NoDesc \in Owners /\ \A w \in Wants \cup Stored : w.desc \in descs /\ w.team \in Owners
  BY DEF Descriptions, Owners
<1>3. TestMessages = [t : Tests, cached : texts, cachedDesc : descs, text : texts, id : Nat, tries : Nat]
  BY DEF TestMessages
<1> HIDE DEF texts, descs
<1>4. \A t \in Tests : About(t, SP!Blank(t))
  BY <1>1, <1>2, <1>3 DEF SP!Blank, About
<1>5. \A m \in TestMessages : About(m.t, SP!Cleared(m))
  BY <1>1, <1>2, <1>3 DEF SP!Cleared, About
<1>6. \A m \in TestMessages : About(m.t, [m EXCEPT !.tries = @ + 1])
  <2> TAKE m \in TestMessages
  <2>1. m.tries + 1 \in Nat  BY <1>3
  <2> QED BY <1>3, <2>1 DEF About
<1>7. \A m \in TestMessages, x \in texts : About(m.t, [m EXCEPT !.text = x])
  BY <1>3 DEF About
<1>8. \A m \in TestMessages, x \in texts, n \in Nat : About(m.t, [m EXCEPT !.text = x, !.id = n])
  BY <1>3 DEF About
<1>9. \A m \in TestMessages, x \in texts, d \in descs, n \in Nat :
         About(m.t, [m EXCEPT !.cached = x, !.cachedDesc = d, !.id = n])
  BY <1>3 DEF About
<1> QED BY <1>1, <1>2, <1>4, <1>5, <1>6, <1>7, <1>8, <1>9 DEF texts, descs

\* A job that is replaced by one of the right type ...
LEMMA JobTyped ==
    ASSUME ScriptsTyped, NEW s \in Slots, NEW new \in Jobs, job' = [job EXCEPT ![s] = new],
           new.pc # "idle" => new.from.t = new.m.t
    PROVE  /\ job' \in [Slots -> Jobs] /\ \A x \in Slots : job'[x].pc # "idle" => job'[x].from.t = job'[x].m.t
           /\ \A x \in Slots : job'[x] = IF x = s THEN new ELSE job[x]
BY DEF ScriptsTyped

\* ... and what a job in hand can become.
LEMMA JobTypes ==
    ASSUME ScriptsTyped, NEW s \in Slots, job[s].pc # "idle"
    PROVE  /\ job[s] \in [pc : JobPcs, m : TestMessages, from : TestMessages, live : BOOLEAN]
           /\ \A pc2 \in JobPcs, m2 \in TestMessages :
                 [job[s] EXCEPT !.pc = pc2, !.m = m2] \in [pc : JobPcs, m : TestMessages, from : TestMessages, live : BOOLEAN]
           /\ SP!Idle \in Jobs
<1>1. job[s] \in Jobs  BY DEF ScriptsTyped
<1>2. job[s] \in [pc : JobPcs, m : TestMessages, from : TestMessages, live : BOOLEAN]
  BY <1>1 DEF Jobs, SP!Idle
<1> QED BY <1>2 DEF Jobs

\* A step that only changes the state and the message of a job.
Handled(s, pc2, m2) ==
    job[s].pc # "idle" /\ job' = [job EXCEPT ![s] = [job[s] EXCEPT !.pc = pc2, !.m = m2]]
LEMMA HandledTyped ==
    ASSUME ScriptsTyped, NEW s \in Slots, NEW pc2 \in JobPcs, NEW m2 \in TestMessages, m2.t = job[s].m.t,
           Handled(s, pc2, m2)
    PROVE  /\ job' \in [Slots -> Jobs] /\ \A x \in Slots : job'[x].pc # "idle" => job'[x].from.t = job'[x].m.t
           /\ \A x \in Slots : job'[x].live = job[x].live /\ job'[x].from = job[x].from
           /\ \A x \in Slots \ {s} : job'[x] = job[x]
           /\ job'[s].pc = pc2 /\ job'[s].m = m2
<1> DEFINE new == [job[s] EXCEPT !.pc = pc2, !.m = m2]
<1>3. new \in [pc : JobPcs, m : TestMessages, from : TestMessages, live : BOOLEAN]
  BY JobTypes DEF Handled
<1>4. job[s] \in [pc : JobPcs, m : TestMessages, from : TestMessages, live : BOOLEAN]
  BY JobTypes DEF Handled
<1>5. new.m = m2 /\ new.from = job[s].from /\ new.live = job[s].live /\ new.pc = pc2
  BY <1>4
<1>6. new \in Jobs /\ new.from.t = new.m.t
  BY <1>3, <1>5 DEF ScriptsTyped, Jobs, Handled
<1>7. job' = [job EXCEPT ![s] = new]  BY DEF Handled
<1> HIDE DEF new
<1> QED BY <1>5, <1>6, <1>7, JobTyped

\* What ai-service does with a test, step by step.
LEMMA HandlerMoves ==
    ASSUME ScriptsTyped, NEW s \in Slots
    PROVE  /\ SP!Charge(s) => \/ job[s].pc = "chargeCompare" /\ Handled(s, "compare", job[s].m)
                              \/ job[s].pc = "charge" /\ Handled(s, "generate", job[s].m)
                              \/ job[s].pc \in {"chargeCompare", "charge"} /\ Handled(s, "bury", job[s].m)
           /\ SP!Compare(s) => /\ job[s].pc = "compare"
                               /\ \/ Handled(s, "send", [job[s].m EXCEPT !.text = job[s].m.cached])
                                  \/ Handled(s, "charge", SP!Cleared(job[s].m))
           /\ SP!Generate(s) => /\ job[s].pc = "generate"
                                /\ \/ Handled(s, "send", [job[s].m EXCEPT !.text = [kind |-> "generated", by |-> job[s].m.t]])
                                   \/ Handled(s, "retry", job[s].m)
                                   \/ Handled(s, "bury", job[s].m)
           /\ SP!Route(s) \/ SP!Retry(s) \/ SP!Bury(s) => Handled(s, "ack", job[s].m)
<1>1. CASE job[s].pc = "idle"
  BY <1>1 DEF SP!Charge, SP!Compare, SP!Generate, SP!Route, SP!Retry, SP!Bury, SP!At
<1>2. CASE job[s].pc # "idle"
  <2>1. job[s] \in [pc : JobPcs, m : TestMessages, from : TestMessages, live : BOOLEAN] /\ job \in [Slots -> Jobs]
    BY <1>2, JobTypes DEF ScriptsTyped
  <2>2. \A p : /\ [job EXCEPT ![s].pc = p] = [job EXCEPT ![s] = [job[s] EXCEPT !.pc = p, !.m = job[s].m]]
               /\ \A x : [job EXCEPT ![s].pc = p, ![s].m = x] = [job EXCEPT ![s] = [job[s] EXCEPT !.pc = p, !.m = x]]
               /\ \A x : [job EXCEPT ![s].pc = p, ![s].m.text = x]
                            = [job EXCEPT ![s] = [job[s] EXCEPT !.pc = p, !.m = [job[s].m EXCEPT !.text = x]]]
    BY <2>1
  <2>3. SP!Charge(s) => \/ job[s].pc = "chargeCompare" /\ Handled(s, "compare", job[s].m)
                        \/ job[s].pc = "charge" /\ Handled(s, "generate", job[s].m)
                        \/ job[s].pc \in {"chargeCompare", "charge"} /\ Handled(s, "bury", job[s].m)
    BY <1>2, <2>2 DEF SP!Charge, SP!Goto, SP!At, Handled
  <2>4. SP!Compare(s) => /\ job[s].pc = "compare"
                         /\ \/ Handled(s, "send", [job[s].m EXCEPT !.text = job[s].m.cached])
                            \/ Handled(s, "charge", SP!Cleared(job[s].m))
    <3>1. ASSUME SP!Compare(s)
          PROVE  /\ job[s].pc = "compare"
                 /\ \/ job' = [job EXCEPT ![s].pc = "send", ![s].m.text = job[s].m.cached]
                    \/ job' = [job EXCEPT ![s].pc = "charge", ![s].m = SP!Cleared(job[s].m)]
      BY <3>1 DEF SP!Compare, SP!At
    <3>2. [job EXCEPT ![s].pc = "send", ![s].m.text = job[s].m.cached]
             = [job EXCEPT ![s] = [job[s] EXCEPT !.pc = "send", !.m = [job[s].m EXCEPT !.text = job[s].m.cached]]]
      BY <2>1
    <3>3. [job EXCEPT ![s].pc = "charge", ![s].m = SP!Cleared(job[s].m)]
             = [job EXCEPT ![s] = [job[s] EXCEPT !.pc = "charge", !.m = SP!Cleared(job[s].m)]]
      BY <2>2
    <3> QED BY <1>2, <3>1, <3>2, <3>3 DEF Handled
  <2>5. SP!Generate(s) => /\ job[s].pc = "generate"
                          /\ \/ Handled(s, "send", [job[s].m EXCEPT !.text = [kind |-> "generated", by |-> job[s].m.t]])
                             \/ Handled(s, "retry", job[s].m)
                             \/ Handled(s, "bury", job[s].m)
    <3> DEFINE text2 == [kind |-> "generated", by |-> job[s].m.t]
    <3>1. ASSUME SP!Generate(s)
          PROVE  /\ job[s].pc = "generate"
                 /\ \/ job' = [job EXCEPT ![s].pc = "send", ![s].m.text = text2]
                    \/ job' = [job EXCEPT ![s].pc = "retry"]
                    \/ job' = [job EXCEPT ![s].pc = "bury"]
      <4>1. job[s].m.tries < MaxRetries \/ ~(job[s].m.tries < MaxRetries)  OBVIOUS
      <4> QED BY <3>1, <4>1 DEF SP!Generate, SP!At
    <3> HIDE DEF text2
    <3>2. [job EXCEPT ![s].pc = "send", ![s].m.text = text2]
             = [job EXCEPT ![s] = [job[s] EXCEPT !.pc = "send", !.m = [job[s].m EXCEPT !.text = text2]]]
      BY <2>1
    <3>3. Handled(s, "send", [job[s].m EXCEPT !.text = text2]) \/ Handled(s, "retry", job[s].m) \/ Handled(s, "bury", job[s].m)
             \/ ~SP!Generate(s)
      BY <1>2, <2>2, <3>1, <3>2 DEF Handled
    <3> QED BY <3>1, <3>3 DEF text2
  <2>6. SP!Route(s) \/ SP!Retry(s) \/ SP!Bury(s) => Handled(s, "ack", job[s].m)
    BY <1>2, <2>2 DEF SP!Route, SP!Retry, SP!Bury, SP!Goto, Handled
  <2> QED BY <2>3, <2>4, <2>5, <2>6
<1> QED BY <1>1, <1>2

\* A step of either part is one of the script pipeline.
LEMMA ScriptFrame ==
    ASSUME Scripts \/ Edits
    PROVE  SP!ScriptsNext
<1>1. CASE Scripts  BY <1>1 DEF Scripts, Scr, SP!ScriptsNext, BagToSet, SP!BagToSet
<1>2. CASE Edits    BY <1>2 DEF Edits, Edi, SP!ScriptsNext, BagToSet, SP!BagToSet
<1> QED BY <1>1, <1>2

\* Every step of POST /tests keeps the types ...
LEMMA SubmitTyped ==
    ASSUME ScriptsTyped, NEW t \in Tests,
           SP!SubmitCustom(t) \/ SP!Lookup(t) \/ SP!Publish(t) \/ SP!PublishFails(t)
    PROVE  ScriptsTyped'
<1>1. request[t] \in Requests /\ request[t].m.t = t  BY DEF ScriptsTyped
<1>2. ASSUME NEW new \in Requests, new.m.t = t, request' = [request EXCEPT ![t] = new]
      PROVE  request' \in [Tests -> Requests] /\ \A x \in Tests : request'[x].m.t = x
  BY <1>2 DEF ScriptsTyped
<1>3. CASE SP!SubmitCustom(t)
  <2> DEFINE text2 == [kind |-> "custom", by |-> t]
             new == [request[t] EXCEPT !.pc = "send", !.dest = "work", !.m = [request[t].m EXCEPT !.text = text2]]
  <2>1. text2 \in ScriptTexts  BY MessageTypes DEF About
  <2>2. request' = [request EXCEPT ![t].pc = "send", ![t].dest = "work", ![t].m.text = text2]
    BY <1>3 DEF SP!SubmitCustom
  <2> HIDE DEF text2
  <2>3. request' = [request EXCEPT ![t] = new]
    <3>1. request[t] \in [pc : {"new", "send", "accepted", "refused"}, dest : {"ai", "work"}, m : TestMessages]
          /\ request \in [Tests -> Requests]
      BY <1>1 DEF Requests, ScriptsTyped
    <3> QED BY <2>2, <3>1
  <2>0. request[t].m \in TestMessages  BY <1>1 DEF Requests
  <2> DEFINE m2 == [request[t].m EXCEPT !.text = text2]
  <2>5. m2 \in TestMessages /\ m2.t = t  BY <1>1, <2>0, <2>1, MessageTypes DEF About
  <2>6. new = [request[t] EXCEPT !.pc = "send", !.dest = "work", !.m = m2]  OBVIOUS
  <2> HIDE DEF m2, new
  <2>4. new \in Requests /\ new.m.t = t  BY <1>1, <2>5, <2>6 DEF Requests
  <2> QED BY <1>2, <1>3, <2>3, <2>4 DEF SP!SubmitCustom, ScriptsTyped, Queued, Carried
<1>4. CASE SP!Lookup(t)
  <2>1. SP!Blank(t) \in TestMessages /\ SP!Blank(t).t = t  BY MessageTypes DEF About
  <2>2. scriptRow.text \in ScriptTexts /\ scriptRow.desc \in Descriptions /\ scriptRow.id \in Nat
    BY DEF ScriptsTyped, ScriptRows
  <2> DEFINE reuse == [SP!Blank(t) EXCEPT !.text = scriptRow.text, !.id = scriptRow.id]
             other == [SP!Blank(t) EXCEPT !.cached = scriptRow.text, !.cachedDesc = scriptRow.desc, !.id = scriptRow.id]
  <2>3. reuse \in TestMessages /\ reuse.t = t /\ other \in TestMessages /\ other.t = t
    <3>1. About(SP!Blank(t).t, reuse)  BY <2>1, <2>2, MessageTypes
    <3>2. About(SP!Blank(t).t, other)  BY <2>1, <2>2, MessageTypes
    <3> QED BY <2>1, <3>1, <3>2 DEF About
  <2>4. PICK new : /\ request' = [request EXCEPT ![t] = new]
                   /\ \/ new = [pc |-> "send", dest |-> "ai", m |-> SP!Blank(t)]
                      \/ new = [pc |-> "send", dest |-> "work", m |-> reuse]
                      \/ new = [pc |-> "send", dest |-> "ai", m |-> other]
    BY <1>4 DEF SP!Lookup
  <2> HIDE DEF reuse, other
  <2>5. new \in Requests /\ new.m.t = t  BY <2>1, <2>3, <2>4 DEF Requests
  <2> QED BY <1>2, <1>4, <2>4, <2>5 DEF SP!Lookup, ScriptsTyped, Queued, Carried
<1>5. CASE SP!Publish(t) \/ SP!PublishFails(t)
  <2>1. \A pc2 \in {"accepted", "refused"} : SP!Answered(t, pc2) \in Requests /\ SP!Answered(t, pc2).m.t = t
    BY MessageTypes DEF SP!Answered, Requests, About
  <2>2. request' \in [Tests -> Requests] /\ \A x \in Tests : request'[x].m.t = x
    BY <1>2, <1>5, <2>1 DEF SP!Publish, SP!PublishFails
  <2>3. request[t].m \in TestMessages  BY <1>1 DEF Requests
  <2>4. Queued(ai') /\ Queued(work')
    <3>1. CASE SP!Sent(t)
      <4>1. Queued(ai) /\ Queued(work)  BY DEF ScriptsTyped
      <4>2. Queued(SP!Put(ai, request[t].m)) /\ Queued(SP!Put(work, request[t].m))  BY <2>3, <4>1, PutOne
      <4>3. Queued(ai) /\ UNCHANGED ai => Queued(ai')  BY DEF Queued
      <4>4. Queued(work) /\ UNCHANGED work => Queued(work')  BY DEF Queued
      <4> QED BY <3>1, <4>1, <4>2, <4>3, <4>4 DEF SP!Sent
    <3>2. CASE UNCHANGED <<ai, work>>  BY <3>2 DEF ScriptsTyped, Queued, Carried
    <3> QED BY <1>5, <3>1, <3>2 DEF SP!Publish, SP!PublishFails
  <2> QED BY <1>5, <2>2, <2>4 DEF SP!Publish, SP!PublishFails, ScriptsTyped, Queued, Carried
<1> QED BY <1>3, <1>4, <1>5

\* ... so does every step of ai-service ...
LEMMA HandlerTyped ==
    ASSUME ScriptsTyped, NEW s \in Slots,
           SP!Charge(s) \/ SP!Compare(s) \/ SP!Generate(s) \/ SP!Route(s) \/ SP!Retry(s) \/ SP!Bury(s)
    PROVE  /\ ScriptsTyped'
           /\ \A x \in Slots : /\ job'[x].live = job[x].live /\ job'[x].from = job[x].from
                               /\ job'[x].m.t = job[x].m.t /\ (job'[x].pc = "idle" <=> job[x].pc = "idle")
           /\ \A x \in Slots \ {s} : job'[x] = job[x]
<1>1. job[s].pc # "idle"
  BY DEF SP!Charge, SP!Compare, SP!Generate, SP!Route, SP!Retry, SP!Bury, SP!At
<1>2. job[s].m \in TestMessages /\ job[s].m.t \in Tests /\ job[s].m.cached \in ScriptTexts
  BY <1>1, JobTypes DEF TestMessages
<1>3. PICK pc2 \in JobPcs : \E m2 \in TestMessages : m2.t = job[s].m.t /\ Handled(s, pc2, m2)
  <2>1. /\ "compare" \in JobPcs /\ "generate" \in JobPcs /\ "bury" \in JobPcs /\ "send" \in JobPcs
        /\ "charge" \in JobPcs /\ "retry" \in JobPcs /\ "ack" \in JobPcs
    BY DEF JobPcs
  <2>2. CASE SP!Charge(s) \/ SP!Route(s) \/ SP!Retry(s) \/ SP!Bury(s)
    BY <1>2, <2>1, <2>2, HandlerMoves
  <2>3. CASE SP!Compare(s)
    BY <1>2, <2>1, <2>3, HandlerMoves, MessageTypes DEF About
  <2>4. CASE SP!Generate(s)
    <3> DEFINE text2 == [kind |-> "generated", by |-> job[s].m.t]
    <3>1. text2 \in ScriptTexts  BY <1>2, MessageTypes DEF About
    <3>2. \/ Handled(s, "send", [job[s].m EXCEPT !.text = text2])
          \/ Handled(s, "retry", job[s].m) \/ Handled(s, "bury", job[s].m)
      BY <2>4, HandlerMoves
    <3> HIDE DEF text2
    <3> QED BY <1>2, <2>1, <3>1, <3>2, MessageTypes DEF About
  <2> QED BY <2>2, <2>3, <2>4
<1>4. PICK m2 \in TestMessages : m2.t = job[s].m.t /\ Handled(s, pc2, m2)  BY <1>3
<1>5. /\ job' \in [Slots -> Jobs] /\ \A x \in Slots : job'[x].pc # "idle" => job'[x].from.t = job'[x].m.t
      /\ \A x \in Slots : /\ job'[x].live = job[x].live /\ job'[x].from = job[x].from
                          /\ job'[x].m.t = job[x].m.t /\ (job'[x].pc = "idle" <=> job[x].pc = "idle")
      /\ \A x \in Slots \ {s} : job'[x] = job[x]
  <2>1. pc2 # "idle"  BY DEF JobPcs
  <2> QED BY <1>1, <1>4, <2>1, HandledTyped
<1>6. compares' \in [Tests -> Nat]
  BY <1>2 DEF SP!Charge, SP!Compare, SP!Generate, SP!Route, SP!Retry, SP!Bury, ScriptsTyped
<1>7. Carried(fresh') /\ UNCHANGED <<ai, work>>
  <2>1. /\ SP!Route(s) => fresh' = SP!Put(fresh, [to |-> "work", m |-> job[s].m])
        /\ SP!Retry(s) => fresh' = SP!Put(fresh, [to |-> "ai", m |-> SP!Retried(job[s])])
        /\ SP!Bury(s) => fresh' = SP!Put(fresh, [to |-> "dlq", m |-> job[s].m])
        /\ SP!Charge(s) \/ SP!Compare(s) \/ SP!Generate(s) => UNCHANGED fresh
        /\ UNCHANGED <<ai, work>>
    BY DEF SP!Charge, SP!Compare, SP!Generate, SP!Route, SP!Retry, SP!Bury, SP!Sends
  <2>2. SP!Retried(job[s]) \in TestMessages  BY <1>2, MessageTypes DEF SP!Retried, About
  <2>3. \A m \in TestMessages : {[to |-> "work", m |-> m], [to |-> "ai", m |-> m], [to |-> "dlq", m |-> m]} \subseteq OnTheWay
    BY DEF OnTheWay
  <2>4. Carried(fresh)  BY DEF ScriptsTyped
  <2>5. CASE SP!Route(s)  BY <1>2, <2>1, <2>3, <2>4, <2>5, SendOne
  <2>6. CASE SP!Retry(s)  BY <2>1, <2>2, <2>3, <2>4, <2>6, SendOne
  <2>7. CASE SP!Bury(s)  BY <1>2, <2>1, <2>3, <2>4, <2>7, SendOne
  <2>8. CASE UNCHANGED fresh  BY <2>1, <2>4, <2>8
  <2> QED BY <2>1, <2>5, <2>6, <2>7, <2>8
<1>8. UNCHANGED <<want, request, scriptRow, versions, nextId, edit, faults, lost>>
  BY DEF SP!Charge, SP!Compare, SP!Generate, SP!Route, SP!Retry, SP!Bury
<1>9. ScriptsTyped'
  BY <1>5, <1>6, <1>7, <1>8 DEF ScriptsTyped, Queued
<1> QED BY <1>5, <1>9

\* What is taken from ai-requests and what is acknowledged ...
LEMMA TakeTyped ==
    ASSUME ScriptsTyped, NEW s \in Slots,
           SP!Ack(s) \/ \E m \in SP!BagToSet(ai) : SP!Deliver(s, m)
    PROVE  ScriptsTyped'
<1>1. CASE SP!Ack(s)
  <2>1. SP!Idle \in Jobs /\ SP!Idle.pc = "idle"  BY DEF Jobs, SP!Idle
  <2>2. job' = [job EXCEPT ![s] = SP!Idle]  BY <1>1 DEF SP!Ack
  <2> HIDE DEF SP!Idle
  <2>3. job' \in [Slots -> Jobs] /\ \A x \in Slots : job'[x].pc # "idle" => job'[x].from.t = job'[x].m.t
    BY <2>1, <2>2, JobTyped
  <2> QED BY <1>1, <2>3 DEF SP!Ack, ScriptsTyped, Queued, Carried
<1>2. ASSUME NEW m \in SP!BagToSet(ai), SP!Deliver(s, m)
      PROVE  ScriptsTyped'
  <2>1. m \in DOMAIN ai /\ m \in TestMessages  BY <1>2 DEF SP!BagToSet, ScriptsTyped, Queued, Carried
  <2> DEFINE started == SP!Start(m)
             new == [pc |-> started.pc, m |-> started.m, from |-> m, live |-> TRUE]
  <2>2. started.pc \in JobPcs /\ started.m \in TestMessages /\ started.m.t = m.t
    <3>1. started.pc \in JobPcs  BY DEF SP!Start, JobPcs
    <3>2. About(m.t, started.m)
      <4>1. m.cached \in ScriptTexts  BY <2>1 DEF TestMessages
      <4>2. About(m.t, m) /\ About(m.t, SP!Cleared(m)) /\ About(m.t, [m EXCEPT !.text = m.cached])
        BY <2>1, <4>1, MessageTypes DEF About
      <4>3. started.m \in {m, SP!Cleared(m), [m EXCEPT !.text = m.cached]}  BY DEF SP!Start
      <4> QED BY <4>2, <4>3
    <3> QED BY <3>1, <3>2 DEF About
  <2>3. job' = [job EXCEPT ![s] = new]  BY <1>2 DEF SP!Deliver
  <2> HIDE DEF started
  <2>4. new \in Jobs /\ new.from.t = new.m.t  BY <2>1, <2>2 DEF Jobs
  <2> HIDE DEF new
  <2>5. job' \in [Slots -> Jobs] /\ \A x \in Slots : job'[x].pc # "idle" => job'[x].from.t = job'[x].m.t
    BY <2>3, <2>4, JobTyped
  <2>6. Queued(ai')  BY <1>2, <2>1, DropOne DEF SP!Deliver, ScriptsTyped
  <2> QED BY <1>2, <2>5, <2>6 DEF SP!Deliver, ScriptsTyped, Queued, Carried
<1> QED BY <1>1, <1>2

\* ... what a fault puts back ...
LEMMA FaultTyped ==
    ASSUME ScriptsTyped, SP!Disconnect \/ SP!BrokerCrash \/ SP!Crash \/ \E s \in Slots : SP!Throw(s)
    PROVE  /\ ScriptsTyped' /\ ai' = SP!(+)(ai, SP!Requeued)
           /\ ~(SP!Disconnect \/ SP!BrokerCrash) => job' = [s \in Slots |-> SP!Idle]
<1>1. ai' = SP!(+)(ai, SP!Requeued) /\ UNCHANGED <<want, request, scriptRow, versions, nextId, work, ended, edit, compares>>
  BY DEF SP!Disconnect, SP!BrokerCrash, SP!Severed, SP!Crash, SP!Throw, SP!Restarted
<1>2. Queued(ai')  BY <1>1, PutBack DEF ScriptsTyped
<1>3. faults' \in Nat  BY DEF SP!Disconnect, SP!BrokerCrash, SP!Crash, SP!Throw, ScriptsTyped
<1>7. Carried(fresh')
  <2>1. Carried(fresh)  BY DEF ScriptsTyped
  <2>2. Carried(SP!EmptyBag)  BY DEF Carried, SP!EmptyBag, SP!SetToBag
  <2> QED BY <2>1, <2>2 DEF SP!Disconnect, SP!BrokerCrash, SP!Crash, SP!Throw
<1>4. SP!Idle \in Jobs /\ SP!Idle.pc = "idle"  BY DEF Jobs, SP!Idle
<1>5. job' \in [Slots -> Jobs] /\ \A x \in Slots : job'[x].pc # "idle" => job'[x].from.t = job'[x].m.t
  <2>1. CASE SP!Crash \/ \E s \in Slots : SP!Throw(s)
    <3>1. job' = [s \in Slots |-> SP!Idle]  BY <2>1 DEF SP!Crash, SP!Throw, SP!Restarted
    <3> HIDE DEF SP!Idle
    <3> QED BY <1>4, <3>1
  <2>2. CASE SP!Disconnect \/ SP!BrokerCrash
    <3>1. job' = [s \in Slots |-> [job[s] EXCEPT !.live = FALSE]]  BY <2>2 DEF SP!Disconnect, SP!BrokerCrash, SP!Severed
    <3>2. ASSUME NEW s \in Slots
          PROVE  /\ [job[s] EXCEPT !.live = FALSE] \in Jobs
                 /\ [job[s] EXCEPT !.live = FALSE].pc # "idle"
                      => [job[s] EXCEPT !.live = FALSE].from.t = [job[s] EXCEPT !.live = FALSE].m.t
      <4>1. CASE job[s].pc # "idle"
        <5>1. job[s] \in [pc : JobPcs, m : TestMessages, from : TestMessages, live : BOOLEAN]  BY <4>1, JobTypes
        <5> QED BY <4>1, <5>1 DEF Jobs, ScriptsTyped
      <4>2. CASE job[s].pc = "idle"
        <5>1. job[s] = SP!Idle
          <6>1. job[s] \in Jobs  BY DEF ScriptsTyped
          <6> QED BY <4>2, <6>1 DEF Jobs, JobPcs
        <5>2. [SP!Idle EXCEPT !.live = FALSE] = SP!Idle
          <6>1. SP!Idle \in [pc : {"idle"}, m : {SP!NoText}, from : {SP!NoText}, live : {FALSE}]  BY DEF SP!Idle
          <6> QED BY <6>1
        <5> QED BY <1>4, <5>1, <5>2
      <4> QED BY <4>1, <4>2
    <3> QED BY <3>1, <3>2
  <2> QED BY <2>1, <2>2
<1>6. ~(SP!Disconnect \/ SP!BrokerCrash) => job' = [s \in Slots |-> SP!Idle]  BY DEF SP!Crash, SP!Throw, SP!Restarted
<1> QED BY <1>1, <1>2, <1>3, <1>5, <1>6, <1>7 DEF ScriptsTyped, Queued

\* ... what the broker has written ...
LEMMA PersistTyped ==
    ASSUME ScriptsTyped, NEW x \in SP!BagToSet(fresh), SP!Persist(x)
    PROVE  ScriptsTyped'
<1>1. x \in DOMAIN fresh /\ x.m \in TestMessages
  BY DEF SP!BagToSet, ScriptsTyped, Carried, OnTheWay
<1>2. Carried(fresh')  BY <1>1, ArriveOne DEF SP!Persist, ScriptsTyped
<1>3. Queued(ai') /\ Queued(work')
  <2>1. Queued(ai) /\ Queued(work)  BY DEF ScriptsTyped
  <2>2. Queued(SP!Put(ai, x.m)) /\ Queued(SP!Put(work, x.m))  BY <1>1, <2>1, PutOne
  <2>3. ai' \in {ai, SP!Put(ai, x.m)} /\ work' \in {work, SP!Put(work, x.m)}  BY DEF SP!Persist
  <2> QED BY <2>1, <2>2, <2>3
<1>4. UNCHANGED <<want, request, scriptRow, versions, nextId, job, edit, compares, faults>>  BY DEF SP!Persist
<1> QED BY <1>2, <1>3, <1>4 DEF ScriptsTyped, Queued, Carried

\* ... what a worker stores ...
LEMMA StoreTyped ==
    ASSUME ScriptsTyped, NEW m \in SP!BagToSet(work), SP!SaveScript(m) \/ SP!NotRun(m)
    PROVE  ScriptsTyped'
<1>1. m \in DOMAIN work /\ m \in TestMessages  BY DEF SP!BagToSet, ScriptsTyped, Queued, Carried
<1>2. m.text \in ScriptTexts /\ m.t \in Tests  BY <1>1 DEF TestMessages
<1>3. want[m.t].desc \in Descriptions /\ want[m.t].team \in Owners  BY <1>2, MessageTypes DEF ScriptsTyped
<1>4. scriptRow' \in ScriptRows /\ nextId' \in Nat \ {0}
  <2>1. CASE UNCHANGED <<scriptRow, nextId>>  BY <2>1 DEF ScriptsTyped
  <2>2. CASE scriptRow' = [scriptRow EXCEPT !.text = m.text, !.desc = want[m.t].desc] /\ UNCHANGED nextId
    BY <1>2, <1>3, <2>2 DEF ScriptsTyped, ScriptRows
  <2>3. CASE /\ scriptRow' = [id |-> nextId, text |-> m.text, desc |-> want[m.t].desc, team |-> want[m.t].team]
             /\ nextId' = nextId + 1
    BY <1>2, <1>3, <2>3 DEF ScriptsTyped, ScriptRows
  <2> QED BY <2>1, <2>2, <2>3 DEF SP!SaveScript, SP!NotRun
<1>5. Queued(work')
  <2>1. Queued(SP!Drop(work, m)) /\ Queued(work)  BY <1>1, DropOne DEF ScriptsTyped
  <2>2. Queued(work) /\ UNCHANGED work => Queued(work')  BY DEF Queued
  <2> QED BY <2>1, <2>2 DEF SP!SaveScript, SP!NotRun
<1>6. faults' \in Nat  BY DEF SP!SaveScript, SP!NotRun, ScriptsTyped
<1>7. UNCHANGED <<want, request, versions, ai, job, edit, compares, fresh>>  BY DEF SP!SaveScript, SP!NotRun
<1> QED BY <1>4, <1>5, <1>6, <1>7 DEF ScriptsTyped, Queued, Carried

\* ... and what an editor changes keeps them too.
Editing(u) ==
    \/ \E text2 \in versions \cup {[kind |-> "edited", by |-> u]} : SP!BeginEdit(u, text2)
    \/ SP!LockRow(u) \/ SP!Archive(u) \/ SP!Overwrite(u) \/ SP!Rollback(u)

LEMMA EditTyped ==
    ASSUME ScriptsTyped, SP!Delete \/ \E u \in Editors : Editing(u)
    PROVE  ScriptsTyped'
<1>1. CASE SP!Delete
  <2>1. SP!NoRow \in ScriptRows  BY MessageTypes DEF SP!NoRow, ScriptRows
  <2> QED BY <1>1, <2>1 DEF SP!Delete, ScriptsTyped, Queued, Carried
<1>2. ASSUME NEW u \in Editors, Editing(u)
      PROVE  ScriptsTyped'
  <2>1. edit[u] \in Edited /\ SP!NoEdit \in Edited  BY MessageTypes DEF ScriptsTyped, Edited, SP!NoEdit
  <2>2. scriptRow.text \in ScriptTexts  BY DEF ScriptsTyped, ScriptRows
  <2>3. PICK new \in Edited : edit' = [edit EXCEPT ![u] = new]
    <3>1. ASSUME NEW text2 \in versions \cup {[kind |-> "edited", by |-> u]}, SP!BeginEdit(u, text2)
          PROVE  \E new \in Edited : edit' = [edit EXCEPT ![u] = new]
      <4>1. text2 \in ScriptTexts  BY MessageTypes DEF ScriptsTyped
      <4>2. [SP!NoEdit EXCEPT !.pc = "begun", !.text = text2] \in Edited  BY <2>1, <4>1 DEF Edited
      <4> QED BY <3>1, <4>2 DEF SP!BeginEdit
    <3>2. CASE SP!LockRow(u)
      <4>1. [edit[u] EXCEPT !.pc = "locked"] \in Edited  BY <2>1 DEF Edited
      <4> QED BY <3>2, <4>1 DEF SP!LockRow
    <3>3. CASE SP!Archive(u)
      <4>1. [edit[u] EXCEPT !.pc = "archived", !.copy = scriptRow.text] \in Edited  BY <2>1, <2>2 DEF Edited
      <4>2. edit' = [edit EXCEPT ![u] = [edit[u] EXCEPT !.pc = "archived", !.copy = scriptRow.text]]
        BY <2>1, <3>3 DEF SP!Archive, ScriptsTyped, Edited
      <4> QED BY <4>1, <4>2
    <3>4. CASE SP!Overwrite(u) \/ SP!Rollback(u)  BY <2>1, <3>4 DEF SP!Overwrite, SP!Rollback
    <3> QED BY <1>2, <3>1, <3>2, <3>3, <3>4 DEF Editing
  <2>4. edit' \in [Editors -> Edited]  BY <2>3 DEF ScriptsTyped
  <2>5. scriptRow' \in ScriptRows /\ versions' \subseteq ScriptTexts
    <3>1. CASE SP!Overwrite(u)
      <4>1. edit[u].text \in ScriptTexts /\ edit[u].copy \in ScriptTexts  BY <2>1 DEF Edited
      <4> QED BY <3>1, <4>1 DEF SP!Overwrite, ScriptsTyped, ScriptRows
    <3>2. CASE UNCHANGED <<scriptRow, versions>>  BY <3>2 DEF ScriptsTyped
    <3> QED BY <1>2, <3>1, <3>2 DEF Editing, SP!BeginEdit, SP!LockRow, SP!Archive, SP!Rollback
  <2>6. UNCHANGED <<want, request, nextId, ai, job, work, ended, compares, faults, fresh>>
    BY <1>2 DEF Editing, SP!BeginEdit, SP!LockRow, SP!Archive, SP!Overwrite, SP!Rollback
  <2> QED BY <2>4, <2>5, <2>6 DEF ScriptsTyped, Queued, Carried
<1> QED BY <1>1, <1>2

\* The types hold at first.
LEMMA ScriptsStart ==
    ASSUME Init
    PROVE  ScriptsTyped
<1>1. SP!ScriptsInit  BY DEF Init
<1>2. request \in [Tests -> Requests] /\ \A t \in Tests : request[t].m.t = t
  <2>1. \A t \in Tests : [pc |-> "new", dest |-> "ai", m |-> SP!Blank(t)] \in Requests /\ SP!Blank(t).t = t
    BY MessageTypes DEF Requests, About
  <2> QED BY <1>1, <2>1 DEF SP!ScriptsInit
<1>3. scriptRow \in ScriptRows /\ nextId \in Nat \ {0}
  <2>1. SP!NoRow \in ScriptRows  BY MessageTypes DEF SP!NoRow, ScriptRows
  <2>2. \A r \in Stored : r.text \in ScriptTexts  BY DEF ScriptTexts, SP!Texts
  <2>3. \A r \in Stored : [id |-> 1, text |-> r.text, desc |-> r.desc, team |-> r.team] \in ScriptRows
    BY <2>2, MessageTypes DEF ScriptRows
  <2> QED BY <1>1, <2>1, <2>3 DEF SP!ScriptsInit
<1>4. Queued(ai) /\ Queued(work) /\ Carried(fresh)
  BY <1>1 DEF SP!ScriptsInit, Queued, Carried, SP!EmptyBag, SP!SetToBag
<1>5. job \in [Slots -> Jobs] /\ \A s \in Slots : job[s] = SP!Idle /\ job[s].pc = "idle"
  <2>1. SP!Idle \in Jobs /\ SP!Idle.pc = "idle"  BY DEF Jobs, SP!Idle
  <2> HIDE DEF SP!Idle
  <2> QED BY <1>1, <2>1 DEF SP!ScriptsInit
<1>6. edit \in [Editors -> Edited]
  <2>1. SP!NoEdit \in Edited  BY MessageTypes DEF Edited, SP!NoEdit
  <2> QED BY <1>1, <2>1 DEF SP!ScriptsInit
<1> QED BY <1>1, <1>2, <1>3, <1>4, <1>5, <1>6 DEF SP!ScriptsInit, ScriptsTyped

\* The steps of the script pipeline by what they touch.
LEMMA ScriptSteps ==
    ASSUME SP!ScriptsNext
    PROVE  \/ \E t \in Tests : SP!SubmitCustom(t) \/ SP!Lookup(t) \/ SP!Publish(t) \/ SP!PublishFails(t)
           \/ \E s \in Slots : SP!Charge(s) \/ SP!Compare(s) \/ SP!Generate(s) \/ SP!Route(s) \/ SP!Retry(s) \/ SP!Bury(s)
           \/ \E s \in Slots : SP!Ack(s) \/ \E m \in SP!BagToSet(ai) : SP!Deliver(s, m)
           \/ SP!Disconnect \/ SP!BrokerCrash \/ SP!Crash \/ \E s \in Slots : SP!Throw(s)
           \/ \E x \in SP!BagToSet(fresh) : SP!Persist(x)
           \/ \E m \in SP!BagToSet(work) : SP!SaveScript(m) \/ SP!NotRun(m)
           \/ SP!Delete \/ \E u \in Editors : Editing(u)
BY DEF SP!ScriptsNext, Editing

\* Every step keeps the types.
LEMMA ScriptsTypedStep ==
    ASSUME ScriptsTyped, SP!ScriptsNext
    PROVE  ScriptsTyped'
BY ScriptSteps, SubmitTyped, HandlerTyped, TakeTyped, FaultTyped, PersistTyped, StoreTyped, EditTyped

\* A job after a step of its handler, and one that has just been taken.
LEMMA HandledIs ==
    ASSUME ScriptsTyped, NEW s \in Slots, NEW pc2, NEW m2, Handled(s, pc2, m2)
    PROVE  job'[s].pc = pc2 /\ job'[s].m = m2
<1>1. job[s] \in [pc : JobPcs, m : TestMessages, from : TestMessages, live : BOOLEAN]  BY JobTypes DEF Handled
<1>2. [job[s] EXCEPT !.pc = pc2, !.m = m2].pc = pc2 /\ [job[s] EXCEPT !.pc = pc2, !.m = m2].m = m2
  BY <1>1
<1> QED BY <1>2 DEF Handled, ScriptsTyped
LEMMA Delivered ==
    ASSUME ScriptsTyped, NEW s \in Slots, NEW m \in SP!BagToSet(ai), SP!Deliver(s, m)
    PROVE  /\ job'[s].pc = SP!Start(m).pc /\ job'[s].m = SP!Start(m).m /\ job'[s].from = m /\ job'[s].live
           /\ job'[s].m.t = m.t /\ job'[s].pc \in {"charge", "send", "chargeCompare"}
           /\ \A x \in Slots \ {s} : job'[x] = job[x]
<1>1. m \in TestMessages  BY DEF SP!BagToSet, ScriptsTyped, Queued, Carried
<1> DEFINE started == SP!Start(m)
<1>2. About(m.t, started.m)
  <2>1. m.cached \in ScriptTexts  BY <1>1 DEF TestMessages
  <2>2. About(m.t, m) /\ About(m.t, SP!Cleared(m)) /\ About(m.t, [m EXCEPT !.text = m.cached])
    BY <1>1, <2>1, MessageTypes DEF About
  <2>3. started.m \in {m, SP!Cleared(m), [m EXCEPT !.text = m.cached]}  BY DEF SP!Start
  <2> QED BY <2>2, <2>3
<1>3. started.pc \in {"charge", "send", "chargeCompare"}  BY DEF SP!Start
<1>4. job' = [job EXCEPT ![s] = [pc |-> started.pc, m |-> started.m, from |-> m, live |-> TRUE]]  BY DEF SP!Deliver
<1> HIDE DEF started
<1>5. /\ job'[s] = [pc |-> started.pc, m |-> started.m, from |-> m, live |-> TRUE]
      /\ \A x \in Slots \ {s} : job'[x] = job[x]
  BY <1>4 DEF ScriptsTyped
<1> QED BY <1>2, <1>3, <1>5 DEF About, started

\* Where an accepted test is, apart from the handler that has seen to it and only
\* has to acknowledge the message: what that handler sent may still be lost.
Located(t) ==
    \/ \E m \in DOMAIN ai \cup DOMAIN work : m.t = t
    \/ \E x \in DOMAIN fresh : x.m.t = t
    \/ \E s \in Slots : job[s].live /\ job[s].pc # "ack" /\ job[s].m.t = t
    \/ t \in ended \/ t \in lost
AccountedInv == \A t \in Tests : request[t].pc = "accepted" => Located(t)

\* No step loses a test ...
LEMMA StaysLocated ==
    ASSUME ScriptsTyped, NEW t \in Tests, Located(t), SP!ScriptsNext
    PROVE  Located(t)'
<1>1. ASSUME NEW x \in Tests, SP!SubmitCustom(x) \/ SP!Lookup(x) \/ SP!Publish(x) \/ SP!PublishFails(x)
      PROVE  Located(t)'
  <2>1. request[x].m \in TestMessages  BY DEF ScriptsTyped, Requests
  <2>2. /\ DOMAIN SP!Put(ai, request[x].m) = DOMAIN ai \cup {request[x].m}
        /\ DOMAIN SP!Put(work, request[x].m) = DOMAIN work \cup {request[x].m}
    BY <2>1, PutOne DEF ScriptsTyped
  <2>3. DOMAIN ai \subseteq DOMAIN ai' /\ DOMAIN work \subseteq DOMAIN work' /\ UNCHANGED <<job, ended, fresh, lost>>
    BY <1>1, <2>2 DEF SP!SubmitCustom, SP!Lookup, SP!Publish, SP!PublishFails, SP!Sent
  <2> QED BY <2>3 DEF Located
<1>2. ASSUME NEW s \in Slots, SP!Charge(s) \/ SP!Compare(s) \/ SP!Generate(s) \/ SP!Route(s) \/ SP!Retry(s) \/ SP!Bury(s)
      PROVE  Located(t)'
  <2>1. job[s].pc # "idle"
    BY <1>2 DEF SP!Charge, SP!Compare, SP!Generate, SP!Route, SP!Retry, SP!Bury, SP!At
  <2>2. job[s].m \in TestMessages  BY <2>1, JobTypes
  <2>3. SP!Retried(job[s]) \in TestMessages /\ SP!Retried(job[s]).t = job[s].m.t
    BY <2>2, MessageTypes DEF SP!Retried, About
  <2>4. \A m \in TestMessages, to \in {"work", "ai", "dlq"} :
           DOMAIN SP!Put(fresh, [to |-> to, m |-> m]) = DOMAIN fresh \cup {[to |-> to, m |-> m]}
    <3> TAKE m \in TestMessages, to \in {"work", "ai", "dlq"}
    <3>1. [to |-> to, m |-> m] \in OnTheWay  BY DEF OnTheWay
    <3> QED BY <3>1, SendOne DEF ScriptsTyped
  <2>5. /\ UNCHANGED <<ai, work, ended, lost>> /\ DOMAIN fresh \subseteq DOMAIN fresh'
        /\ SP!Route(s) \/ SP!Retry(s) \/ SP!Bury(s) => \E x \in DOMAIN fresh' : x.m.t = job[s].m.t
    <3>1. UNCHANGED <<ai, work, ended, lost>>
      BY <1>2 DEF SP!Charge, SP!Compare, SP!Generate, SP!Route, SP!Retry, SP!Bury
    <3>2. CASE SP!Charge(s) \/ SP!Compare(s) \/ SP!Generate(s)
      <4>1. UNCHANGED fresh /\ job[s].pc \in {"chargeCompare", "charge", "compare", "generate"}
        BY <3>2 DEF SP!Charge, SP!Compare, SP!Generate, SP!At
      <4> QED BY <3>1, <4>1 DEF SP!Route, SP!Retry, SP!Bury, SP!At
    <3>3. CASE SP!Route(s) \/ SP!Retry(s) \/ SP!Bury(s)
      <4>1. PICK m \in TestMessages, to \in {"work", "ai", "dlq"} :
               m.t = job[s].m.t /\ fresh' = SP!Put(fresh, [to |-> to, m |-> m])
        BY <2>2, <2>3, <3>3 DEF SP!Route, SP!Retry, SP!Bury, SP!Sends
      <4>2. [to |-> to, m |-> m] \in DOMAIN fresh' /\ DOMAIN fresh \subseteq DOMAIN fresh'  BY <2>4, <4>1
      <4>3. [to |-> to, m |-> m].m.t = job[s].m.t  BY <4>1
      <4> QED BY <3>1, <4>2, <4>3
    <3> QED BY <1>2, <3>2, <3>3
  <2>6. SP!Charge(s) \/ SP!Compare(s) \/ SP!Generate(s) => job'[s].pc # "ack"
    <3>1. CASE SP!Charge(s)
      <4>1. PICK m2 : Handled(s, "compare", m2) \/ Handled(s, "generate", m2) \/ Handled(s, "bury", m2)
        BY <3>1, HandlerMoves
      <4> QED BY <4>1, HandledIs
    <3>2. CASE SP!Compare(s)
      <4>1. PICK m2 : Handled(s, "send", m2) \/ Handled(s, "charge", m2)  BY <3>2, HandlerMoves
      <4> QED BY <4>1, HandledIs
    <3>3. CASE SP!Generate(s)
      <4>1. PICK m2 : Handled(s, "send", m2) \/ Handled(s, "retry", m2) \/ Handled(s, "bury", m2)  BY <3>3, HandlerMoves
      <4> QED BY <4>1, HandledIs
    <3> QED BY <3>1, <3>2, <3>3
  <2>7. \A x \in Slots : job'[x].live = job[x].live /\ job'[x].m.t = job[x].m.t
    BY <1>2, HandlerTyped
  <2>8. \A x \in Slots \ {s} : job'[x] = job[x]  BY <1>2, HandlerTyped
  <2> QED BY <1>2, <2>5, <2>6, <2>7, <2>8 DEF Located
<1>3. ASSUME NEW s \in Slots, SP!Ack(s)
      PROVE  Located(t)'
  <2>1. \A x \in Slots \ {s} : job'[x] = job[x]  BY <1>3 DEF SP!Ack, ScriptsTyped
  <2> QED BY <1>3, <2>1 DEF SP!Ack, SP!At, Located
<1>4. ASSUME NEW s \in Slots, NEW m \in SP!BagToSet(ai), SP!Deliver(s, m)
      PROVE  Located(t)'
  <2>1. DOMAIN ai \ {m} \subseteq DOMAIN ai' /\ UNCHANGED <<work, ended, fresh, lost>>
    BY <1>4, DropOne DEF SP!Deliver, ScriptsTyped, SP!BagToSet
  <2>2. job[s].pc = "idle" /\ ~job[s].live
    <3>1. job[s].pc = "idle" /\ job[s] \in Jobs  BY <1>4 DEF SP!Deliver, SP!At, ScriptsTyped
    <3>2. job[s] = SP!Idle  BY <3>1 DEF Jobs, JobPcs
    <3> QED BY <3>1, <3>2 DEF SP!Idle
  <2> QED BY <1>4, <2>1, <2>2, Delivered DEF Located
<1>5. CASE SP!Disconnect \/ SP!BrokerCrash \/ SP!Crash \/ \E s \in Slots : SP!Throw(s)
  <2>1. DOMAIN ai' = DOMAIN ai \cup {job[s].from : s \in SP!Unacked} /\ UNCHANGED <<work, ended>>
    BY <1>5, FaultTyped, PutBack DEF ScriptsTyped, SP!Disconnect, SP!BrokerCrash, SP!Crash, SP!Throw
  <2>2. \A s \in Slots : job[s].live => job[s].pc # "idle"
    <3> TAKE s \in Slots
    <3>1. job[s].pc = "idle" => job[s] = SP!Idle  BY DEF ScriptsTyped, Jobs, JobPcs
    <3> QED BY <3>1 DEF SP!Idle
  <2>3. \A s \in SP!Unacked : job[s].from \in DOMAIN ai' /\ job[s].from.t = job[s].m.t
    BY <2>1, <2>2 DEF SP!Unacked, ScriptsTyped
  <2>4. /\ DOMAIN ai \subseteq DOMAIN ai' /\ lost \subseteq lost'
        /\ \A x \in DOMAIN fresh : \/ x \in DOMAIN fresh' \/ x.m.t \in lost'
                                  \/ \E s \in SP!Unacked : job[s].m.t = x.m.t
    BY <1>5, <2>1 DEF SP!Disconnect, SP!BrokerCrash, SP!Crash, SP!Throw, SP!BagToSet
  <2>5. \A s \in Slots : job[s].live => s \in SP!Unacked  BY DEF SP!Unacked
  <2> QED BY <2>1, <2>3, <2>4, <2>5 DEF Located
<1>6. ASSUME NEW m \in SP!BagToSet(work), SP!SaveScript(m) \/ SP!NotRun(m)
      PROVE  Located(t)'
  <2>1. DOMAIN work \ {m} \subseteq DOMAIN SP!Drop(work, m)  BY DropOne DEF ScriptsTyped, SP!BagToSet
  <2> QED BY <1>6, <2>1 DEF SP!SaveScript, SP!NotRun, Located
<1>7. CASE SP!Delete \/ \E u \in Editors : Editing(u)
  BY <1>7 DEF SP!Delete, Editing, SP!BeginEdit, SP!LockRow, SP!Archive, SP!Overwrite, SP!Rollback, Located
<1>8. ASSUME NEW x \in SP!BagToSet(fresh), SP!Persist(x)
      PROVE  Located(t)'
  <2>1. x \in DOMAIN fresh /\ x.m \in TestMessages
    BY DEF SP!BagToSet, ScriptsTyped, Carried, OnTheWay
  <2>2. DOMAIN fresh \ {x} \subseteq DOMAIN fresh' /\ UNCHANGED <<job, lost>>
    BY <1>8, <2>1, ArriveOne DEF SP!Persist, ScriptsTyped
  <2>3. /\ DOMAIN SP!Put(ai, x.m) = DOMAIN ai \cup {x.m}
        /\ DOMAIN SP!Put(work, x.m) = DOMAIN work \cup {x.m}
    BY <2>1, PutOne DEF ScriptsTyped
  <2>4. /\ DOMAIN ai \subseteq DOMAIN ai' /\ DOMAIN work \subseteq DOMAIN work' /\ ended \subseteq ended'
        /\ x.m \in DOMAIN ai' \cup DOMAIN work' \/ x.m.t \in ended'
    BY <1>8, <2>3 DEF SP!Persist
  <2> QED BY <2>2, <2>4 DEF Located
<1> QED BY <1>1, <1>2, <1>3, <1>4, <1>5, <1>6, <1>7, <1>8, ScriptSteps

\* ... and one that is accepted is on a queue.
LEMMA AccountedStep ==
    ASSUME ScriptsTyped, AccountedInv, SP!ScriptsNext
    PROVE  AccountedInv'
<1> SUFFICES ASSUME NEW t \in Tests, request'[t].pc = "accepted"
             PROVE  Located(t)'
  BY DEF AccountedInv
<1>1. CASE request[t].pc = "accepted"  BY <1>1, StaysLocated DEF AccountedInv
<1>2. CASE request[t].pc # "accepted"
  <2>1. SP!Publish(t)
    <3>1. request'[t] # request[t]  BY <1>2
    <3>2. PICK x \in Tests : SP!SubmitCustom(x) \/ SP!Lookup(x) \/ SP!Publish(x) \/ SP!PublishFails(x)
      BY <3>1, ScriptSteps DEF SP!Charge, SP!Compare, SP!Generate, SP!Route, SP!Retry, SP!Bury, SP!Ack, SP!Deliver,
         SP!Disconnect, SP!BrokerCrash, SP!Crash, SP!Throw, SP!Persist, SP!SaveScript, SP!NotRun, SP!Delete, Editing, SP!BeginEdit, SP!LockRow,
         SP!Archive, SP!Overwrite, SP!Rollback
    <3>3. x = t  BY <3>1, <3>2 DEF SP!SubmitCustom, SP!Lookup, SP!Publish, SP!PublishFails, ScriptsTyped
    <3>4. request[t] \in [pc : {"new", "send", "accepted", "refused"}, dest : {"ai", "work"}, m : TestMessages]
          /\ request \in [Tests -> Requests]
      BY DEF ScriptsTyped, Requests
    <3>5. SP!SubmitCustom(t) => request'[t].pc = "send"
      <4>1. SUFFICES ASSUME SP!SubmitCustom(t) PROVE request'[t].pc = "send"  OBVIOUS
      <4> DEFINE text2 == [kind |-> "custom", by |-> t]
      <4>2. request' = [request EXCEPT ![t].pc = "send", ![t].dest = "work", ![t].m.text = text2]
        BY <4>1 DEF SP!SubmitCustom
      <4> HIDE DEF text2
      <4> QED BY <3>4, <4>2
    <3>6. SP!Lookup(t) => request'[t].pc = "send"  BY <3>4 DEF SP!Lookup
    <3>7. SP!PublishFails(t) => request'[t].pc = "refused"  BY <3>4 DEF SP!PublishFails, SP!Answered
    <3> QED BY <3>2, <3>3, <3>5, <3>6, <3>7
  <2>2. request[t].m \in TestMessages /\ request[t].m.t = t  BY DEF ScriptsTyped, Requests
  <2>3. /\ DOMAIN SP!Put(ai, request[t].m) = DOMAIN ai \cup {request[t].m}
        /\ DOMAIN SP!Put(work, request[t].m) = DOMAIN work \cup {request[t].m}
    BY <2>2, PutOne DEF ScriptsTyped
  <2>4. request[t].m \in DOMAIN ai' \cup DOMAIN work'  BY <2>1, <2>3 DEF SP!Publish, SP!Sent
  <2> QED BY <2>2, <2>4 DEF Located
<1> QED BY <1>1, <1>2

\* An edit that has locked the row is the only one, and what it has archived is
\* the text the row still has.
Holds(u) == edit[u].pc \in {"locked", "archived"}
EditInv ==
    /\ \A u, v \in Editors : Holds(u) /\ Holds(v) => u = v
    /\ \A u \in Editors : Holds(u) => scriptRow.id # 0
    /\ \A u \in Editors : edit[u].pc = "archived" => edit[u].copy = scriptRow.text
LEMMA EditInvStep ==
    ASSUME ScriptsTyped, EditInv, SP!ScriptsNext
    PROVE  EditInv'
<1>1. ASSUME UNCHANGED <<scriptRow, edit>>
      PROVE  EditInv'
  BY <1>1 DEF EditInv, Holds
<1>2. SP!Unlocked => \A u \in Editors : ~Holds(u)  BY DEF SP!Unlocked, Holds
<1>3. ASSUME NEW m \in SP!BagToSet(work), SP!SaveScript(m)
      PROVE  EditInv'
  BY <1>2, <1>3 DEF SP!SaveScript, EditInv, Holds
<1>4. CASE SP!Delete  BY <1>2, <1>4 DEF SP!Delete, EditInv, Holds
<1>5. ASSUME NEW u \in Editors, Editing(u)
      PROVE  EditInv'
  <2>1. edit \in [Editors -> Edited] /\ edit[u] \in Edited  BY DEF ScriptsTyped
  <2>2. ASSUME NEW new \in Edited, edit' = [edit EXCEPT ![u] = new], new.pc \in {"idle", "begun"}, scriptRow'.id = scriptRow.id,
               Holds(u) \/ UNCHANGED scriptRow
        PROVE  EditInv'
    BY <2>1, <2>2 DEF EditInv, Holds
  <2>3. SP!NoEdit \in Edited /\ SP!NoEdit.pc = "idle"  BY MessageTypes DEF Edited, SP!NoEdit
  <2>4. ASSUME NEW text2 \in versions \cup {[kind |-> "edited", by |-> u]}, SP!BeginEdit(u, text2)
        PROVE  EditInv'
    <3>1. text2 \in ScriptTexts  BY MessageTypes DEF ScriptsTyped
    <3>2. [SP!NoEdit EXCEPT !.pc = "begun", !.text = text2] \in Edited /\ [SP!NoEdit EXCEPT !.pc = "begun", !.text = text2].pc = "begun"
      BY <2>3, <3>1 DEF Edited
    <3> QED BY <2>2, <2>4, <3>2 DEF SP!BeginEdit
  <2>5. CASE SP!LockRow(u)
    <3>1. edit' = [edit EXCEPT ![u].pc = "locked"] /\ scriptRow.id # 0 /\ SP!Unlocked /\ UNCHANGED scriptRow
      BY <2>5 DEF SP!LockRow
    <3>2. edit'[u].pc = "locked" /\ \A v \in Editors \ {u} : edit'[v] = edit[v]  BY <2>1, <3>1 DEF Edited
    <3> QED BY <1>2, <3>1, <3>2 DEF EditInv, Holds
  <2>6. CASE SP!Archive(u)
    <3>1. edit' = [edit EXCEPT ![u].pc = "archived", ![u].copy = scriptRow.text] /\ Holds(u) /\ UNCHANGED scriptRow
      BY <2>6 DEF SP!Archive, Holds
    <3>2. edit'[u].pc = "archived" /\ edit'[u].copy = scriptRow.text /\ \A v \in Editors \ {u} : edit'[v] = edit[v]
      BY <2>1, <3>1 DEF Edited
    <3> QED BY <3>1, <3>2 DEF EditInv, Holds
  <2>7. CASE SP!Overwrite(u)
    <3>1. scriptRow'.id = scriptRow.id  BY <2>7 DEF SP!Overwrite, ScriptsTyped, ScriptRows
    <3> QED BY <2>2, <2>3, <2>7, <3>1 DEF SP!Overwrite, Holds
  <2>8. CASE SP!Rollback(u)  BY <2>2, <2>3, <2>8 DEF SP!Rollback
  <2> QED BY <1>5, <2>4, <2>5, <2>6, <2>7, <2>8 DEF Editing
<1>6. ASSUME NEW m \in SP!BagToSet(work), SP!NotRun(m)
      PROVE  EditInv'
  BY <1>1, <1>6 DEF SP!NotRun
<1>7. ASSUME NEW t \in Tests, SP!SubmitCustom(t) \/ SP!Lookup(t) \/ SP!Publish(t) \/ SP!PublishFails(t)
      PROVE  EditInv'
  BY <1>1, <1>7 DEF SP!SubmitCustom, SP!Lookup, SP!Publish, SP!PublishFails
<1>8. ASSUME NEW s \in Slots, SP!Charge(s) \/ SP!Compare(s) \/ SP!Generate(s) \/ SP!Route(s) \/ SP!Retry(s) \/ SP!Bury(s)
      PROVE  EditInv'
  BY <1>1, <1>8 DEF SP!Charge, SP!Compare, SP!Generate, SP!Route, SP!Retry, SP!Bury
<1>9. ASSUME NEW s \in Slots, SP!Ack(s) \/ \E m \in SP!BagToSet(ai) : SP!Deliver(s, m)
      PROVE  EditInv'
  BY <1>1, <1>9 DEF SP!Ack, SP!Deliver
<1>10. CASE SP!Disconnect \/ SP!BrokerCrash \/ SP!Crash \/ \E s \in Slots : SP!Throw(s)
  BY <1>1, <1>10 DEF SP!Disconnect, SP!BrokerCrash, SP!Crash, SP!Throw
<1>11. ASSUME NEW x \in SP!BagToSet(fresh), SP!Persist(x)
       PROVE  EditInv'
  BY <1>1, <1>11 DEF SP!Persist
<1> QED BY <1>3, <1>4, <1>5, <1>6, <1>7, <1>8, <1>9, <1>10, <1>11, ScriptSteps

\* A message of a test with description 'd' that is to be compared first.
Comparing(d, m) ==
    m.cached # SP!NoText /\ d # SP!NoDesc /\ m.cachedDesc # SP!NoDesc /\ d # m.cachedDesc
LEMMA StartCompares ==
    ASSUME NEW m \in TestMessages
    PROVE  LET d == want[m.t].desc IN
           /\ SP!Start(m).pc = "chargeCompare" <=> Comparing(d, m)
           /\ SP!Start(m).pc = "charge" => ~Comparing(d, SP!Start(m).m)
           /\ ~Comparing(d, SP!Cleared(m))
           /\ Comparing(d, SP!Blank(m.t)) => FALSE
           /\ \A n : Comparing(d, [m EXCEPT !.tries = n]) <=> Comparing(d, m)
<1>1. ~Comparing(want[m.t].desc, SP!Cleared(m))  BY DEF Comparing, SP!Cleared, TestMessages
<1>2. ~Comparing(want[m.t].desc, SP!Blank(m.t))  BY DEF Comparing, SP!Blank
<1>3. \A n : Comparing(want[m.t].desc, [m EXCEPT !.tries = n]) <=> Comparing(want[m.t].desc, m)
  BY DEF Comparing, TestMessages
<1>4. SP!Start(m).pc = "chargeCompare" <=> Comparing(want[m.t].desc, m)  BY DEF Comparing, SP!Start
<1>5. SP!Start(m).pc = "charge" => SP!Start(m).m = SP!Cleared(m) \/ SP!Start(m).m = m  BY DEF SP!Start
<1>6. SP!Start(m).pc = "charge" => ~Comparing(want[m.t].desc, SP!Start(m).m)  BY <1>1, <1>4, <1>5
<1> QED BY <1>1, <1>2, <1>3, <1>4, <1>6

\* Where a comparison of a test can still come from: its request, a message, or a
\* delivery that is not acknowledged.  There is only one of them at a time.
Early(t)   == request[t].pc \in {"new", "send"}
ToCompare(t) == {m \in DOMAIN ai : m.t = t /\ Comparing(want[t].desc, m)}
Taken(t)   == {s \in Slots : job[s].live /\ job[s].from.t = t /\ Comparing(want[t].desc, job[s].from)}
OneSource(t) ==
    /\ \A m, n \in ToCompare(t) : m = n /\ ai[m] = 1
    /\ \A s, x \in Taken(t) : s = x
    /\ ToCompare(t) = {} \/ Taken(t) = {}
    /\ Early(t) => ToCompare(t) = {} /\ Taken(t) = {}

\* What is on its way back to ai-requests is past its comparison.
Past == \A x \in DOMAIN fresh : x.to = "ai" => ~Comparing(want[x.m.t].desc, x.m)

\* Who is about to compare was given a message to compare, and who is past it has
\* one that is not compared again.
Deciding(s) == job[s].pc \in {"chargeCompare", "compare"}
Decided(s) ==
    /\ Deciding(s) => Comparing(want[job[s].m.t].desc, job[s].from)
    /\ job[s].pc \in {"charge", "generate", "retry"} => ~Comparing(want[job[s].m.t].desc, job[s].m)

\* The comparisons of a test that are still possible without another fault: one
\* for its source, one for every handler left behind, and one more when such a
\* handler ends the process.
Orphans(t) == {s \in Slots : ~job[s].live /\ Deciding(s) /\ job[s].m.t = t}
Coming(t)  == IF Early(t) \/ ToCompare(t) # {} \/ \E s \in Slots : job[s].live /\ Deciding(s) /\ job[s].m.t = t THEN 1 ELSE 0
LeftBehind == IF \E s \in Slots : ~job[s].live /\ job[s].pc # "idle" THEN 1 ELSE 0
WithinBudget(t) ==
    IsFiniteSet(Orphans(t)) /\ compares[t] + Cardinality(Orphans(t)) + Coming(t) + LeftBehind <= 1 + 2 * faults
ComparedInv ==
    (\A t \in Tests : OneSource(t) /\ WithinBudget(t)) /\ (\A s \in Slots : Decided(s)) /\ Past

\* Fewer of everything, and no more comparisons or fewer faults, is within the budget.
LEMMA BudgetKept ==
    ASSUME ScriptsTyped, ScriptsTyped', NEW t \in Tests, WithinBudget(t),
           Orphans(t)' \subseteq Orphans(t), Coming(t)' <= Coming(t), LeftBehind' <= LeftBehind,
           compares'[t] = compares[t], faults' >= faults
    PROVE  WithinBudget(t)'
<1>1. IsFiniteSet(Orphans(t)') /\ Cardinality(Orphans(t)') <= Cardinality(Orphans(t))
  BY FS_Subset DEF WithinBudget
<1>2. Cardinality(Orphans(t)) \in Nat /\ Cardinality(Orphans(t)') \in Nat
  BY <1>1, FS_CardinalityType DEF WithinBudget
<1>3. Coming(t) \in Nat /\ Coming(t)' \in Nat /\ LeftBehind \in Nat /\ LeftBehind' \in Nat
  BY DEF Coming, LeftBehind
<1>4. compares[t] \in Nat /\ faults \in Nat /\ faults' \in Nat  BY DEF ScriptsTyped
<1> QED BY <1>1, <1>2, <1>3, <1>4 DEF WithinBudget

\* What POST /tests publishes is the first message of its test.
LEMMA SubmitCompares ==
    ASSUME ScriptsTyped, ScriptsTyped', ComparedInv, NEW x \in Tests,
           SP!SubmitCustom(x) \/ SP!Lookup(x) \/ SP!Publish(x) \/ SP!PublishFails(x)
    PROVE  ComparedInv'
<1>1. UNCHANGED <<want, job, compares, faults, fresh>>
  BY DEF SP!SubmitCustom, SP!Lookup, SP!Publish, SP!PublishFails
<1>2. Early(x) /\ \A t \in Tests \ {x} : request'[t] = request[t]
  BY DEF SP!SubmitCustom, SP!Lookup, SP!Publish, SP!PublishFails, Early, ScriptsTyped
<1>3. /\ request[x].m \in TestMessages /\ request[x].m.t = x  
  BY DEF ScriptsTyped, Requests
<1>4. \/ UNCHANGED ai
      \/ ai' = SP!Put(ai, request[x].m) /\ request'[x].pc \in {"accepted", "refused"}
  <2>1. SP!Publish(x) \/ SP!PublishFails(x) => request'[x].pc \in {"accepted", "refused"}
    BY DEF SP!Publish, SP!PublishFails, SP!Answered, ScriptsTyped
  <2> QED BY <2>1 DEF SP!SubmitCustom, SP!Lookup, SP!Publish, SP!PublishFails, SP!Sent
<1>5. \A t \in Tests : Taken(t)' = Taken(t) /\ Orphans(t)' = Orphans(t)
  BY <1>1 DEF Taken, Orphans, Deciding
<1>6. LeftBehind' = LeftBehind  BY <1>1 DEF LeftBehind
<1>7. /\ DOMAIN ai' \subseteq DOMAIN ai \cup {request[x].m} /\ \A n \in DOMAIN ai' \ {request[x].m} : ai'[n] = ai[n]
      /\ DOMAIN ai \subseteq DOMAIN ai'
      /\ request[x].m \notin DOMAIN ai => request[x].m \notin DOMAIN ai' \/ ai'[request[x].m] = 1
  <2> DEFINE m2 == request[x].m
  <2>1. CASE UNCHANGED ai  BY <2>1
  <2>2. CASE ai' = SP!Put(ai, m2)
    <3>1. m2 \in TestMessages /\ Queued(ai)  BY <1>3 DEF ScriptsTyped
    <3> HIDE DEF m2
    <3>2. /\ DOMAIN ai' = DOMAIN ai \cup {m2} /\ \A n \in DOMAIN ai \ {m2} : ai'[n] = ai[n]
          /\ m2 \notin DOMAIN ai => ai'[m2] = 1
      BY <2>2, <3>1, PutOne
    <3> QED BY <3>2 DEF m2
  <2> QED BY <1>4, <2>1, <2>2
<1>8. \A t \in Tests \ {x} : ToCompare(t)' = ToCompare(t) /\ Early(t)' = Early(t)
  <2> TAKE t \in Tests \ {x}
  <2>1. Early(t)' = Early(t)  BY <1>2 DEF Early
  <2>2. \A m : m \in DOMAIN ai' /\ m.t = t <=> m \in DOMAIN ai /\ m.t = t  BY <1>3, <1>7
  <2> QED BY <1>1, <2>1, <2>2 DEF ToCompare
<1>9. ToCompare(x) = {} /\ Taken(x) = {}  BY <1>2 DEF ComparedInv, OneSource
<1>10. ToCompare(x)' \subseteq {request[x].m} /\ (Early(x)' => ToCompare(x)' = {})
  <2>1. ToCompare(x)' \subseteq {request[x].m}  BY <1>1, <1>7, <1>9 DEF ToCompare
  <2>2. CASE UNCHANGED ai  BY <1>1, <1>9, <2>1, <2>2 DEF ToCompare
  <2>3. CASE request'[x].pc \in {"accepted", "refused"}  BY <2>1, <2>3 DEF Early
  <2> QED BY <1>4, <2>2, <2>3
<1>11. \A m \in ToCompare(x)' : ai'[m] = 1
  <2>1. request[x].m \in ToCompare(x)' => request[x].m \notin DOMAIN ai
    BY <1>1, <1>3, <1>9 DEF ToCompare
  <2>2. ToCompare(x)' \subseteq DOMAIN ai'  BY DEF ToCompare
  <2> QED BY <1>7, <1>10, <2>1, <2>2
<1>12. \A t \in Tests : OneSource(t)'
  <2>1. ASSUME NEW t \in Tests \ {x} PROVE OneSource(t)'
    <3>1. OneSource(t)  BY DEF ComparedInv
    <3>2. \A m \in ToCompare(t) : ai'[m] = ai[m]  
      <4> TAKE m \in ToCompare(t)
      <4>1. m # request[x].m /\ m \in DOMAIN ai  BY <1>3 DEF ToCompare
      <4> QED BY <1>7, <4>1
    <3> QED BY <1>5, <1>8, <3>1, <3>2 DEF OneSource
  <2>2. OneSource(x)'  BY <1>5, <1>9, <1>10, <1>11 DEF OneSource
  <2> QED BY <2>1, <2>2
<1>13. \A t \in Tests : Coming(t)' <= Coming(t)
  BY <1>1, <1>2, <1>8 DEF Coming, Deciding
<1>14. \A t \in Tests : WithinBudget(t)'
  <2> TAKE t \in Tests
  <2>1. WithinBudget(t)  BY DEF ComparedInv
  <2>2. compares'[t] = compares[t] /\ faults' >= faults  BY <1>1 DEF ScriptsTyped
  <2> QED BY <1>5, <1>6, <1>13, <2>1, <2>2, BudgetKept DEF LeftBehind
<1>15. (\A s \in Slots : Decided(s)') /\ Past'  BY <1>1 DEF ComparedInv, Decided, Deciding, Past
<1> QED BY <1>12, <1>14, <1>15 DEF ComparedInv

\* A handler decides once about the message it was given, and does not put it back.
LEMMA HandlerCompares ==
    ASSUME ScriptsTyped, ScriptsTyped', ComparedInv, NEW s \in Slots,
           SP!Charge(s) \/ SP!Compare(s) \/ SP!Generate(s) \/ SP!Route(s) \/ SP!Retry(s) \/ SP!Bury(s)
    PROVE  ComparedInv'
<1>1. UNCHANGED <<want, request, faults>>
  BY DEF SP!Charge, SP!Compare, SP!Generate, SP!Route, SP!Retry, SP!Bury
<1>2. job[s].pc # "idle"
  BY DEF SP!Charge, SP!Compare, SP!Generate, SP!Route, SP!Retry, SP!Bury, SP!At
<1>3. job[s].m \in TestMessages /\ job[s].m.t \in Tests  BY <1>2, JobTypes DEF TestMessages
<1>4. /\ \A x \in Slots : /\ job'[x].live = job[x].live /\ job'[x].from = job[x].from
                          /\ job'[x].m.t = job[x].m.t /\ (job'[x].pc = "idle" <=> job[x].pc = "idle")
      /\ \A x \in Slots \ {s} : job'[x] = job[x]
  BY HandlerTyped
<1>5. \A t \in Tests : ToCompare(t)' = ToCompare(t) /\ \A m \in ToCompare(t) : ai'[m] = ai[m]
  <2>1. UNCHANGED ai  BY DEF SP!Charge, SP!Compare, SP!Generate, SP!Route, SP!Retry, SP!Bury
  <2> QED BY <1>1, <2>1 DEF ToCompare
<1>15. Past'
  <2>1. CASE SP!Retry(s)
    <3> DEFINE m2 == SP!Retried(job[s])
    <3>1. m2 \in TestMessages /\ m2.t = job[s].m.t  BY <1>3, MessageTypes DEF SP!Retried, About
    <3>2. ~Comparing(want[job[s].m.t].desc, job[s].m)  BY <2>1 DEF SP!Retry, SP!At, ComparedInv, Decided
    <3>3. ~Comparing(want[job[s].m.t].desc, m2)  BY <1>3, <3>2, StartCompares DEF SP!Retried
    <3>4. fresh' = SP!Put(fresh, [to |-> "ai", m |-> m2])  BY <2>1 DEF SP!Retry, SP!Sends
    <3> HIDE DEF m2
    <3>5. DOMAIN fresh' = DOMAIN fresh \cup {[to |-> "ai", m |-> m2]}
      <4>1. Carried(fresh) /\ [to |-> "ai", m |-> m2] \in OnTheWay  BY <3>1 DEF ScriptsTyped, OnTheWay
      <4> QED BY <3>4, <4>1, SendOne
    <3> QED BY <1>1, <3>1, <3>3, <3>5 DEF ComparedInv, Past
  <2>2. ASSUME NEW to \in {"work", "dlq"}, fresh' = SP!Put(fresh, [to |-> to, m |-> job[s].m])
        PROVE  Past'
    <3>1. Carried(fresh) /\ [to |-> to, m |-> job[s].m] \in OnTheWay  BY <1>3 DEF ScriptsTyped, OnTheWay
    <3>2. DOMAIN fresh' = DOMAIN fresh \cup {[to |-> to, m |-> job[s].m]}  BY <2>2, <3>1, SendOne
    <3>3. [to |-> to, m |-> job[s].m].to # "ai"  OBVIOUS
    <3> QED BY <1>1, <3>2, <3>3 DEF ComparedInv, Past
  <2>3. CASE SP!Route(s)  BY <2>2, <2>3 DEF SP!Route, SP!Sends
  <2>4. CASE SP!Bury(s)   BY <2>2, <2>4 DEF SP!Bury, SP!Sends
  <2>5. CASE UNCHANGED fresh  BY <1>1, <2>5 DEF ComparedInv, Past
  <2> QED BY <2>1, <2>3, <2>4, <2>5 DEF SP!Charge, SP!Compare, SP!Generate
<1>6. \A t \in Tests : Taken(t)' = Taken(t) /\ Early(t)' = Early(t)
  BY <1>1, <1>4 DEF Taken, Early
<1>7. \A t \in Tests : OneSource(t)'
  BY <1>5, <1>6 DEF ComparedInv, OneSource
<1>8. LeftBehind' = LeftBehind  BY <1>4 DEF LeftBehind
<1>9. /\ SP!Charge(s) \/ SP!Generate(s) \/ SP!Route(s) \/ SP!Retry(s) \/ SP!Bury(s) =>
            /\ Deciding(s)' => Deciding(s)
            /\ job'[s].pc \in {"charge", "generate", "retry"} =>
                  job'[s].m = job[s].m /\ job[s].pc \in {"charge", "generate", "retry"}
      /\ SP!Compare(s) => /\ Deciding(s) /\ ~Deciding(s)'
                          /\ job'[s].pc \in {"charge", "generate", "retry"} => job'[s].m = SP!Cleared(job[s].m)
  <2>1. CASE SP!Charge(s)
    <3>1. \/ job[s].pc = "chargeCompare" /\ job'[s].pc = "compare"
          \/ job[s].pc = "charge" /\ job'[s].pc = "generate" /\ job'[s].m = job[s].m
          \/ job'[s].pc = "bury"
      <4>1. PICK m2 : /\ m2 = job[s].m
                      /\ \/ job[s].pc = "chargeCompare" /\ Handled(s, "compare", m2)
                         \/ job[s].pc = "charge" /\ Handled(s, "generate", m2)
                         \/ Handled(s, "bury", m2)
        BY <2>1, HandlerMoves
      <4> QED BY <4>1, HandledIs
    <3> QED BY <2>1, <3>1 DEF Deciding, SP!Charge, SP!Compare, SP!At
  <2>2. CASE SP!Compare(s)
    <3>1. job[s].pc = "compare" /\ (job'[s].pc = "send" \/ (job'[s].pc = "charge" /\ job'[s].m = SP!Cleared(job[s].m)))
      <4>1. PICK m2 : Handled(s, "send", m2) \/ (Handled(s, "charge", m2) /\ m2 = SP!Cleared(job[s].m))
        BY <2>2, HandlerMoves
      <4> QED BY <2>2, <4>1, HandledIs, HandlerMoves
    <3> QED BY <2>2, <3>1 DEF Deciding, SP!Charge, SP!Generate, SP!Route, SP!Retry, SP!Bury, SP!At
  <2>3. CASE SP!Generate(s)
    <3>1. job[s].pc = "generate" /\ (job'[s].pc \in {"send", "bury"} \/ (job'[s].pc = "retry" /\ job'[s].m = job[s].m))
      <4>1. PICK m2 : Handled(s, "send", m2) \/ (Handled(s, "retry", m2) /\ m2 = job[s].m) \/ Handled(s, "bury", m2)
        BY <2>3, HandlerMoves
      <4> QED BY <2>3, <4>1, HandledIs, HandlerMoves
    <3> QED BY <2>3, <3>1 DEF Deciding, SP!Compare, SP!At
  <2>4. CASE SP!Route(s) \/ SP!Retry(s) \/ SP!Bury(s)
    <3>1. Handled(s, "ack", job[s].m)  BY <2>4, HandlerMoves
    <3>2. job'[s].pc = "ack"  BY <3>1, HandledIs
    <3> QED BY <2>4, <3>2 DEF Deciding, SP!Route, SP!Retry, SP!Bury, SP!Compare, SP!At
  <2> QED BY <2>1, <2>2, <2>3, <2>4
<1>10. \A x \in Slots : Decided(x)'
  <2> TAKE x \in Slots
  <2>1. Decided(x)  BY DEF ComparedInv
  <2>2. CASE x # s  BY <1>1, <1>4, <2>1, <2>2 DEF Decided, Deciding
  <2>3. CASE x = s
    <3>1. ~Comparing(want[job[s].m.t].desc, SP!Cleared(job[s].m))  BY <1>3, StartCompares
    <3> QED BY <1>1, <1>4, <1>9, <2>1, <2>3, <3>1 DEF Decided
  <2> QED BY <2>2, <2>3
<1>11. \A t \in Tests : Orphans(t)' \subseteq Orphans(t) /\ Coming(t)' <= Coming(t)
  <2>1. \A x \in Slots : Deciding(x)' => Deciding(x)  BY <1>4, <1>9 DEF Deciding
  <2> HIDE DEF Deciding
  <2> QED BY <1>1, <1>4, <1>5, <1>6, <2>1 DEF Orphans, Coming
<1>12. ASSUME NEW t \in Tests, compares'[t] = compares[t]
       PROVE  WithinBudget(t)'
  <2>1. WithinBudget(t)  BY DEF ComparedInv
  <2>2. faults' >= faults /\ LeftBehind' <= LeftBehind  BY <1>1, <1>8 DEF ScriptsTyped, LeftBehind
  <2> QED BY <1>11, <1>12, <2>1, <2>2, BudgetKept
<1>13. CASE ~SP!Compare(s)
  <2>1. \A t \in Tests : compares'[t] = compares[t]
    BY <1>13 DEF SP!Charge, SP!Generate, SP!Route, SP!Retry, SP!Bury
  <2> QED BY <1>7, <1>10, <1>12, <1>15, <2>1 DEF ComparedInv
<1>14. CASE SP!Compare(s)
  <2>2. PICK t \in Tests : t = job[s].m.t  BY <1>3
  <2>1. compares' = [compares EXCEPT ![t] = @ + 1]  BY <1>14, <2>2 DEF SP!Compare
  <2>3. job[s].from.t = t /\ Comparing(want[t].desc, job[s].from)
    BY <1>2, <1>9, <1>14, <2>2 DEF ScriptsTyped, ComparedInv, Decided
  <2>4. \A x \in Tests \ {t} : compares'[x] = compares[x]  BY <2>1 DEF ScriptsTyped
  <2>5. compares'[t] = compares[t] + 1  BY <2>1, <2>2 DEF ScriptsTyped
  <2>6. WithinBudget(t) /\ OneSource(t)  BY <2>2 DEF ComparedInv
  <2>7. IsFiniteSet(Orphans(t)') /\ Cardinality(Orphans(t)') <= Cardinality(Orphans(t))
    BY <1>11, <2>2, <2>6, FS_Subset DEF WithinBudget
  <2>8. Cardinality(Orphans(t)) \in Nat /\ Cardinality(Orphans(t)') \in Nat
    BY <2>6, <2>7, FS_CardinalityType DEF WithinBudget
  <2>9. compares[t] \in Nat /\ faults \in Nat  BY <2>2 DEF ScriptsTyped
  <2>10. Cardinality(Orphans(t)') + Coming(t)' + 1 <= Cardinality(Orphans(t)) + Coming(t)
    <3>1. CASE ~job[s].live
      <4>1. s \in Orphans(t) /\ s \notin Orphans(t)'
        BY <1>4, <1>9, <1>14, <2>2, <3>1 DEF Orphans
      <4>2. Orphans(t)' \subseteq Orphans(t) \ {s} /\ Coming(t)' <= Coming(t)  BY <1>11, <2>2, <4>1
      <4>3. /\ IsFiniteSet(Orphans(t) \ {s}) /\ Cardinality(Orphans(t) \ {s}) = Cardinality(Orphans(t)) - 1
        BY <2>6, <4>1, FS_RemoveElement DEF WithinBudget
      <4>4. Cardinality(Orphans(t)') <= Cardinality(Orphans(t) \ {s})  BY <4>2, <4>3, FS_Subset
      <4>5. Coming(t) \in Nat /\ Coming(t)' \in Nat  BY DEF Coming
      <4> QED BY <2>8, <4>2, <4>3, <4>4, <4>5
    <3>2. CASE job[s].live
      <4>1. s \in Taken(t)  BY <2>3, <3>2 DEF Taken
      <4>2. ToCompare(t) = {} /\ ~Early(t)  BY <2>6, <4>1 DEF OneSource
      <4>3. ToCompare(t)' = {} /\ ~Early(t)'  BY <1>5, <1>6, <2>2, <4>2
      <4>4. Deciding(s) /\ ~Deciding(s)'  BY <1>9, <1>14
      <4>5. Coming(t) = 1  BY <2>2, <3>2, <4>4 DEF Coming
      <4>6. ASSUME NEW x \in Slots, job'[x].live, Deciding(x)', job'[x].m.t = t
            PROVE  FALSE
        <5>1. x # s  BY <4>4, <4>6
        <5>2. job[x].live /\ Deciding(x) /\ job[x].m.t = t  BY <1>4, <4>6, <5>1 DEF Deciding
        <5>3. Comparing(want[t].desc, job[x].from) /\ job[x].from.t = t
          BY <5>2 DEF ComparedInv, Decided, ScriptsTyped, Deciding
        <5>4. x \in Taken(t)  BY <5>2, <5>3 DEF Taken
        <5> QED BY <2>6, <4>1, <5>1, <5>4 DEF OneSource
      <4>7. Coming(t)' = 0  BY <4>3, <4>6 DEF Coming
      <4> QED BY <2>7, <2>8, <4>5, <4>7
    <3> QED BY <3>1, <3>2
  <2>11. Coming(t) \in Nat /\ Coming(t)' \in Nat /\ LeftBehind \in Nat  BY DEF Coming, LeftBehind
  <2>12. WithinBudget(t)'
    BY <1>1, <1>8, <2>5, <2>6, <2>7, <2>8, <2>9, <2>10, <2>11 DEF WithinBudget
  <2> QED BY <1>7, <1>10, <1>12, <1>15, <2>4, <2>12 DEF ComparedInv
<1> QED BY <1>13, <1>14

\* A delivery that is taken takes its message along, and is dropped once acknowledged.
LEMMA IdleIs ==
    ASSUME ScriptsTyped, NEW s \in Slots, job[s].pc = "idle"
    PROVE  job[s] = SP!Idle /\ ~job[s].live
<1>1. job[s] = SP!Idle  BY DEF ScriptsTyped, Jobs, JobPcs
<1> QED BY <1>1 DEF SP!Idle
LEMMA AckCompares ==
    ASSUME ScriptsTyped, ScriptsTyped', ComparedInv, NEW s \in Slots, SP!Ack(s)
    PROVE  ComparedInv'
<1>1. UNCHANGED <<want, request, ai, compares, faults, fresh>> /\ job[s].pc = "ack" /\ job[s].live
  BY DEF SP!Ack, SP!At
<1>2. job'[s] = SP!Idle /\ \A x \in Slots \ {s} : job'[x] = job[x]  BY DEF SP!Ack, ScriptsTyped
<1>3. job'[s].pc = "idle" /\ ~job'[s].live  BY <1>2 DEF SP!Idle
<1>4. \A t \in Tests : /\ ToCompare(t)' = ToCompare(t) /\ Taken(t)' \subseteq Taken(t) /\ Early(t)' = Early(t)
                       /\ Orphans(t)' \subseteq Orphans(t)
  BY <1>1, <1>2, <1>3 DEF ToCompare, Taken, Early, Orphans, Deciding
<1>5. \A t \in Tests : OneSource(t)'  BY <1>1, <1>4 DEF ComparedInv, OneSource
<1>6. (\A x \in Slots : Decided(x)') /\ Past'  BY <1>1, <1>2, <1>3 DEF ComparedInv, Decided, Deciding, Past
<1>7. \A t \in Tests : Coming(t)' <= Coming(t)  BY <1>2, <1>3, <1>4 DEF Coming, Deciding
<1>8. LeftBehind' <= LeftBehind  BY <1>2, <1>3 DEF LeftBehind
<1>9. \A t \in Tests : WithinBudget(t)'
  BY <1>1, <1>4, <1>7, <1>8, BudgetKept DEF ComparedInv, ScriptsTyped
<1> QED BY <1>5, <1>6, <1>9 DEF ComparedInv
LEMMA DeliverCompares ==
    ASSUME ScriptsTyped, ScriptsTyped', ComparedInv, NEW s \in Slots, NEW m \in SP!BagToSet(ai), SP!Deliver(s, m)
    PROVE  ComparedInv'
<1>1. UNCHANGED <<want, request, compares, faults, fresh>> /\ job[s].pc = "idle"
  BY DEF SP!Deliver, SP!At
<1>2. ~job[s].live  BY <1>1, IdleIs
<1>3. m \in TestMessages /\ m.t \in Tests /\ m \in DOMAIN ai
  BY DEF SP!BagToSet, ScriptsTyped, Queued, TestMessages
<1>4. /\ DOMAIN ai' \subseteq DOMAIN ai /\ \A n \in DOMAIN ai \ {m} : ai'[n] = ai[n]
      /\ ai[m] = 1 => m \notin DOMAIN ai'
  BY <1>3, DropOne DEF SP!Deliver, ScriptsTyped
<1>5. /\ job'[s].pc = SP!Start(m).pc /\ job'[s].m = SP!Start(m).m /\ job'[s].from = m /\ job'[s].live
      /\ job'[s].m.t = m.t /\ job'[s].pc \in {"charge", "send", "chargeCompare"}
      /\ \A x \in Slots \ {s} : job'[x] = job[x]
  BY Delivered
<1>6. /\ SP!Start(m).pc = "chargeCompare" <=> Comparing(want[m.t].desc, m)
      /\ SP!Start(m).pc = "charge" => ~Comparing(want[m.t].desc, SP!Start(m).m)
  BY <1>3, StartCompares
<1>7. \A x \in Slots : Decided(x)'
  <2> TAKE x \in Slots
  <2>1. CASE x # s  BY <1>1, <1>5, <2>1 DEF ComparedInv, Decided, Deciding
  <2>2. CASE x = s  BY <1>1, <1>5, <1>6, <2>2 DEF Decided, Deciding
  <2> QED BY <2>1, <2>2
<1>8. \A t \in Tests : ToCompare(t)' \subseteq ToCompare(t) /\ Early(t)' = Early(t) /\ Orphans(t)' \subseteq Orphans(t)
  BY <1>1, <1>2, <1>4, <1>5 DEF ToCompare, Early, Orphans, Deciding
<1>9. ASSUME NEW t \in Tests, m \notin ToCompare(t)
      PROVE  OneSource(t)' /\ Coming(t)' <= Coming(t)
  <2>1. m.t = t => ~Comparing(want[t].desc, m)  BY <1>3, <1>9 DEF ToCompare
  <2>2. Taken(t)' \subseteq Taken(t)  BY <1>1, <1>5, <2>1 DEF Taken
  <2>3. \A n \in ToCompare(t) : ai'[n] = ai[n]  BY <1>4, <1>9 DEF ToCompare
  <2>4. OneSource(t)'  BY <1>8, <2>2, <2>3 DEF ComparedInv, OneSource
  <2>5. job'[s].m.t = t => ~Deciding(s)'  BY <1>5, <1>6, <2>1 DEF Deciding
  <2>6. Coming(t)' <= Coming(t)  BY <1>5, <1>8, <2>5 DEF Coming, Deciding
  <2> QED BY <2>4, <2>6
<1>10. ASSUME NEW t \in Tests, m \in ToCompare(t)
       PROVE  OneSource(t)' /\ Coming(t)' <= Coming(t)
  <2>1. OneSource(t)  BY DEF ComparedInv
  <2>2. ai[m] = 1 /\ ToCompare(t) = {m} /\ Taken(t) = {} /\ ~Early(t)  BY <1>10, <2>1 DEF OneSource
  <2>3. m \notin ToCompare(t)'  BY <1>4, <2>2 DEF ToCompare
  <2>4. ToCompare(t)' = {} /\ ~Early(t)'  BY <1>8, <2>2, <2>3
  <2>5. Taken(t)' \subseteq {s}  BY <1>1, <1>5, <2>2 DEF Taken
  <2>6. OneSource(t)'  BY <2>4, <2>5 DEF OneSource
  <2>7. Coming(t) = 1 /\ Coming(t)' \in {0, 1}  BY <2>2 DEF Coming
  <2> QED BY <2>6, <2>7
<1>11. LeftBehind' <= LeftBehind  BY <1>5 DEF LeftBehind
<1>12. \A t \in Tests : WithinBudget(t)'
  BY <1>1, <1>8, <1>9, <1>10, <1>11, BudgetKept DEF ComparedInv, ScriptsTyped
<1>13. Past'  BY <1>1 DEF ComparedInv, Past
<1> QED BY <1>7, <1>9, <1>10, <1>12, <1>13 DEF ComparedInv

\* What a fault puts back is what was taken.
LEMMA FaultSources ==
    ASSUME ScriptsTyped, ComparedInv, NEW t \in Tests, ai' = SP!(+)(ai, SP!Requeued), UNCHANGED <<want, request>>,
           \A s \in Slots : ~job'[s].live
    PROVE  OneSource(t)' /\ Taken(t)' = {}
<1>1. OneSource(t)  BY DEF ComparedInv
<1>2. /\ DOMAIN ai' = DOMAIN ai \cup {job[s].from : s \in SP!Unacked}
      /\ \A n \in DOMAIN ai' : n \notin {job[s].from : s \in SP!Unacked} => ai'[n] = ai[n]
      /\ \A n \in DOMAIN ai' : n \notin DOMAIN ai => ai'[n] = 1
  BY PutBack DEF ScriptsTyped
<1>3. Taken(t)' = {}  BY DEF Taken
<1>4. ToCompare(t)' = ToCompare(t) \cup {job[s].from : s \in Taken(t)}
  BY <1>2 DEF ToCompare, Taken, SP!Unacked
<1>5. Early(t)' = Early(t)  BY DEF Early
<1>6. CASE Taken(t) = {}
  <2>1. ToCompare(t)' = ToCompare(t)  BY <1>4, <1>6
  <2>2. \A n \in ToCompare(t) : n \in DOMAIN ai' /\ n \notin {job[s].from : s \in SP!Unacked}
    BY <1>2, <1>6 DEF ToCompare, Taken, SP!Unacked
  <2>3. \A n \in ToCompare(t) : ai'[n] = ai[n]  BY <1>2, <2>2
  <2> QED BY <1>1, <1>3, <1>5, <2>1, <2>3 DEF OneSource
<1>7. CASE Taken(t) # {}
  <2>1. PICK s \in Taken(t) : TRUE  BY <1>7
  <2>2. Taken(t) = {s} /\ ToCompare(t) = {} /\ ~Early(t)  BY <1>1, <2>1 DEF OneSource
  <2>3. ToCompare(t)' = {job[s].from}  BY <1>4, <2>2
  <2>4. job[s].from \in DOMAIN ai' /\ job[s].from \notin DOMAIN ai
    BY <1>2, <2>1, <2>2 DEF Taken, SP!Unacked, ToCompare
  <2>5. ai'[job[s].from] = 1  BY <1>2, <2>4
  <2> QED BY <1>3, <1>5, <2>2, <2>3, <2>5 DEF OneSource
<1> QED BY <1>3, <1>6, <1>7

\* A restart leaves nothing behind, and a lost connection one handler of a test at most.
LEMMA RestartCompares ==
    ASSUME ScriptsTyped, ScriptsTyped', ComparedInv, SP!Crash \/ \E s \in Slots : SP!Throw(s)
    PROVE  ComparedInv'
<1>1. /\ ai' = SP!(+)(ai, SP!Requeued) /\ UNCHANGED <<want, request, compares, fresh>>
      /\ job' = [s \in Slots |-> SP!Idle]
  BY DEF SP!Crash, SP!Throw, SP!Restarted
<1>2. \A s \in Slots : job'[s].pc = "idle" /\ ~job'[s].live
  BY <1>1 DEF SP!Idle
<1>3. \A t \in Tests : OneSource(t)'  BY <1>1, <1>2, FaultSources
<1>4. \A s \in Slots : Decided(s)'  BY <1>2 DEF Decided, Deciding
<1>5. \A t \in Tests : Orphans(t)' = {}  BY <1>2 DEF Orphans, Deciding
<1>6. LeftBehind' = 0  BY <1>2 DEF LeftBehind
<1>7. faults' = faults + 1 \/ (faults' = faults /\ LeftBehind = 1)
  <2>1. ASSUME NEW s \in Slots, SP!Throw(s)
        PROVE  LeftBehind = 1 /\ faults' = faults
    BY <2>1 DEF SP!Throw, LeftBehind
  <2> QED BY <2>1 DEF SP!Crash
<1>8. \A t \in Tests : WithinBudget(t)'
  <2> TAKE t \in Tests
  <2>1. WithinBudget(t)  BY DEF ComparedInv
  <2>2. Cardinality(Orphans(t)) \in Nat  BY <2>1, FS_CardinalityType DEF WithinBudget
  <2>3. IsFiniteSet(Orphans(t)') /\ Cardinality(Orphans(t)') = 0  BY <1>5, FS_EmptySet
  <2>4. Coming(t) \in Nat /\ Coming(t)' \in {0, 1} /\ LeftBehind \in {0, 1}  BY DEF Coming, LeftBehind
  <2>5. compares[t] \in Nat /\ faults \in Nat /\ compares'[t] = compares[t]  BY <1>1 DEF ScriptsTyped
  <2> QED BY <1>6, <1>7, <2>1, <2>2, <2>3, <2>4, <2>5 DEF WithinBudget
<1>9. Past'  BY <1>1 DEF ComparedInv, Past
<1> QED BY <1>3, <1>4, <1>8, <1>9 DEF ComparedInv
LEMMA DisconnectCompares ==
    ASSUME ScriptsTyped, ScriptsTyped', ComparedInv, SP!Disconnect \/ SP!BrokerCrash
    PROVE  ComparedInv'
<1>1. ai' = SP!(+)(ai, SP!Requeued) /\ UNCHANGED <<want, request, compares>> /\ faults' = faults + 1
  BY DEF SP!Disconnect, SP!BrokerCrash, SP!Severed
<1>2. \A s \in Slots : /\ job'[s].pc = job[s].pc /\ job'[s].m = job[s].m /\ job'[s].from = job[s].from /\ ~job'[s].live
  <2> TAKE s \in Slots
  <2>1. job' = [x \in Slots |-> [job[x] EXCEPT !.live = FALSE]]  BY DEF SP!Disconnect, SP!BrokerCrash, SP!Severed
  <2>2. CASE job[s].pc # "idle"
    <3>1. job[s] \in [pc : JobPcs, m : TestMessages, from : TestMessages, live : BOOLEAN]  BY <2>2, JobTypes
    <3> QED BY <2>1, <3>1
  <2>3. CASE job[s].pc = "idle"
    <3>1. job[s] \in [pc : {"idle"}, m : {SP!NoText}, from : {SP!NoText}, live : {FALSE}]
      <4>1. job[s] = SP!Idle  BY <2>3, IdleIs
      <4> QED BY <4>1 DEF SP!Idle
    <3> QED BY <2>1, <3>1
  <2> QED BY <2>2, <2>3
<1>3. \A t \in Tests : OneSource(t)'  BY <1>1, <1>2, FaultSources
<1>4. \A s \in Slots : Decided(s)'  BY <1>1, <1>2 DEF ComparedInv, Decided, Deciding
<1>5. \A t \in Tests : WithinBudget(t)'
  <2> TAKE t \in Tests
  <2>1. WithinBudget(t) /\ OneSource(t)  BY DEF ComparedInv
  <2>2. Cardinality(Orphans(t)) \in Nat  BY <2>1, FS_CardinalityType DEF WithinBudget
  <2>3. Coming(t)' \in {0, 1} /\ LeftBehind \in {0, 1} /\ LeftBehind' \in {0, 1}  BY DEF Coming, LeftBehind
  <2>4. compares[t] \in Nat /\ faults \in Nat /\ compares'[t] = compares[t]  BY <1>1 DEF ScriptsTyped
  <2> DEFINE News == {s \in Slots : job[s].live /\ Deciding(s) /\ job[s].m.t = t}
  <2>5. Orphans(t)' = Orphans(t) \cup News  BY <1>2 DEF Orphans, Deciding
  <2>6. News \subseteq Taken(t)
    BY DEF ComparedInv, Decided, Deciding, Taken, ScriptsTyped
  <2>7. Coming(t) \in {0, 1} /\ (News # {} => Coming(t) = 1)  BY DEF Coming
  <2> HIDE DEF News
  <2>8. CASE News = {}
    <3>1. Orphans(t)' = Orphans(t)  BY <2>5, <2>8
    <3> QED BY <1>1, <2>1, <2>2, <2>3, <2>4, <2>7, <3>1 DEF WithinBudget
  <2>9. CASE News # {}
    <3>1. PICK s \in News : News = {s}  BY <2>1, <2>6, <2>9 DEF OneSource
    <3>2. Orphans(t)' = Orphans(t) \cup {s}  BY <2>5, <3>1
    <3>3. s \notin Orphans(t)  BY <3>1 DEF News, Orphans
    <3>4. IsFiniteSet(Orphans(t)') /\ Cardinality(Orphans(t)') = Cardinality(Orphans(t)) + 1
      BY <2>1, <3>2, <3>3, FS_AddElement DEF WithinBudget
    <3> QED BY <1>1, <2>1, <2>2, <2>3, <2>4, <2>7, <2>9, <3>4 DEF WithinBudget
  <2> QED BY <2>8, <2>9
<1>6. Past'
  <2>1. DOMAIN fresh' \subseteq DOMAIN fresh  BY DEF SP!Disconnect, SP!BrokerCrash, SP!EmptyBag, SP!SetToBag
  <2> QED BY <1>1, <2>1 DEF ComparedInv, Past
<1> QED BY <1>3, <1>4, <1>5, <1>6 DEF ComparedInv

\* The steps that leave ai-service alone.
LEMMA ElsewhereCompares ==
    ASSUME ScriptsTyped, ScriptsTyped', ComparedInv, UNCHANGED <<want, request, ai, job, compares>>, faults' >= faults,
           DOMAIN fresh' \subseteq DOMAIN fresh
    PROVE  ComparedInv'
<1>1. \A t \in Tests : /\ ToCompare(t)' = ToCompare(t) /\ Taken(t)' = Taken(t) /\ Early(t)' = Early(t)
                       /\ Orphans(t)' = Orphans(t) /\ Coming(t)' = Coming(t) /\ LeftBehind' = LeftBehind
  BY DEF ToCompare, Taken, Early, Orphans, Coming, LeftBehind, Deciding
<1>2. \A t \in Tests : OneSource(t)'  BY <1>1 DEF ComparedInv, OneSource
<1>3. \A t \in Tests : WithinBudget(t)'
  <2> TAKE t \in Tests
  <2>1. WithinBudget(t)  BY DEF ComparedInv
  <2>2. Coming(t) \in Nat /\ LeftBehind \in Nat  BY DEF Coming, LeftBehind
  <2> QED BY <1>1, <2>1, <2>2, BudgetKept
<1>4. \A s \in Slots : Decided(s)'  BY DEF ComparedInv, Decided, Deciding
<1>5. Past'  BY DEF ComparedInv, Past
<1> QED BY <1>2, <1>3, <1>4, <1>5 DEF ComparedInv

\* What arrives in ai-requests again is not compared again.
LEMMA PersistCompares ==
    ASSUME ScriptsTyped, ScriptsTyped', ComparedInv, NEW x \in SP!BagToSet(fresh), SP!Persist(x)
    PROVE  ComparedInv'
<1>1. UNCHANGED <<want, request, job, compares, faults>>  BY DEF SP!Persist
<1>2. x \in DOMAIN fresh /\ x.m \in TestMessages
  BY DEF SP!BagToSet, ScriptsTyped, Carried, OnTheWay
<1>3. DOMAIN fresh' \subseteq DOMAIN fresh  BY <1>2, ArriveOne DEF SP!Persist, ScriptsTyped
<1>4. faults' >= faults  BY <1>1 DEF ScriptsTyped
<1>5. CASE UNCHANGED ai  BY <1>1, <1>3, <1>4, <1>5, ElsewhereCompares
<1>6. CASE x.to = "ai" /\ ai' = SP!Put(ai, x.m)
  <2>1. ~Comparing(want[x.m.t].desc, x.m)  BY <1>2, <1>6 DEF ComparedInv, Past
  <2>2. DOMAIN ai' = DOMAIN ai \cup {x.m} /\ \A n \in DOMAIN ai \ {x.m} : ai'[n] = ai[n]
    <3> DEFINE m2 == x.m
    <3>1. Queued(ai) /\ m2 \in TestMessages /\ ai' = SP!Put(ai, m2)  BY <1>2, <1>6 DEF ScriptsTyped
    <3> HIDE DEF m2
    <3>2. DOMAIN ai' = DOMAIN ai \cup {m2} /\ \A n \in DOMAIN ai \ {m2} : ai'[n] = ai[n]  BY <3>1, PutOne
    <3> QED BY <3>2 DEF m2
  <2>3. ASSUME NEW t \in Tests
        PROVE  ToCompare(t)' = ToCompare(t) /\ \A m \in ToCompare(t) : ai'[m] = ai[m]
    <3>1. x.m \notin ToCompare(t) /\ x.m \notin ToCompare(t)'  BY <1>1, <2>1 DEF ToCompare
    <3>2. \A m : m \in ToCompare(t)' <=> m \in ToCompare(t)  BY <1>1, <2>2, <3>1 DEF ToCompare
    <3>3. \A m \in ToCompare(t) : ai'[m] = ai[m]  BY <2>2, <3>1 DEF ToCompare
    <3> QED BY <3>2, <3>3
  <2>4. \A t \in Tests : Taken(t)' = Taken(t) /\ Early(t)' = Early(t) /\ Orphans(t)' = Orphans(t) /\ LeftBehind' = LeftBehind
    BY <1>1 DEF Taken, Early, Orphans, LeftBehind, Deciding
  <2>5. \A t \in Tests : Coming(t)' = Coming(t)  BY <1>1, <2>3, <2>4 DEF Coming, Deciding
  <2>6. \A t \in Tests : OneSource(t)'  BY <2>3, <2>4 DEF ComparedInv, OneSource
  <2>7. \A t \in Tests : WithinBudget(t)'
    <3> TAKE t \in Tests
    <3>1. WithinBudget(t)  BY DEF ComparedInv
    <3>2. Coming(t) \in Nat /\ LeftBehind \in Nat  BY DEF Coming, LeftBehind
    <3>3. Orphans(t)' \subseteq Orphans(t) /\ Coming(t)' <= Coming(t) /\ LeftBehind' <= LeftBehind
      BY <2>4, <2>5, <3>2
    <3>4. compares'[t] = compares[t]  BY <1>1
    <3> QED BY <1>4, <3>1, <3>3, <3>4, BudgetKept
  <2>8. (\A s \in Slots : Decided(s)') /\ Past'  BY <1>1, <1>3 DEF ComparedInv, Decided, Deciding, Past
  <2> QED BY <2>6, <2>7, <2>8 DEF ComparedInv
<1> QED BY <1>5, <1>6 DEF SP!Persist
LEMMA ComparedStep ==
    ASSUME ScriptsTyped, ScriptsTyped', ComparedInv, SP!ScriptsNext
    PROVE  ComparedInv'
<1>1. ASSUME NEW m \in SP!BagToSet(work), SP!SaveScript(m) \/ SP!NotRun(m)
      PROVE  ComparedInv'
  BY <1>1, ElsewhereCompares DEF SP!SaveScript, SP!NotRun, ScriptsTyped
<1>2. CASE SP!Delete \/ \E u \in Editors : Editing(u)
  <2>1. UNCHANGED <<want, request, ai, job, compares, faults, fresh>>
    BY <1>2 DEF SP!Delete, Editing, SP!BeginEdit, SP!LockRow, SP!Archive, SP!Overwrite, SP!Rollback
  <2>2. faults' >= faults  BY <2>1 DEF ScriptsTyped
  <2> QED BY <2>1, <2>2, ElsewhereCompares
<1> QED BY <1>1, <1>2, ScriptSteps, SubmitCompares, HandlerCompares, AckCompares, DeliverCompares, RestartCompares,
           DisconnectCompares, PersistCompares

\* The script pipeline at first.
LEMMA ComparedStart ==
    ASSUME Init, ScriptsTyped
    PROVE  AccountedInv /\ EditInv /\ ComparedInv
<1>1. SP!ScriptsInit  BY DEF Init
<1>2. /\ \A t \in Tests : request[t].pc = "new" /\ compares[t] = 0
      /\ DOMAIN ai = {} /\ DOMAIN fresh = {} /\ faults = 0
      /\ \A s \in Slots : job[s].pc = "idle" /\ ~job[s].live
      /\ \A u \in Editors : edit[u].pc = "idle"
  BY <1>1 DEF SP!ScriptsInit, SP!EmptyBag, SP!SetToBag, SP!Idle, SP!NoEdit
<1>3. AccountedInv /\ EditInv  BY <1>2 DEF AccountedInv, EditInv, Holds
<1>4. \A t \in Tests : ToCompare(t) = {} /\ Taken(t) = {} /\ Orphans(t) = {}
  BY <1>2 DEF ToCompare, Taken, Orphans, Deciding
<1>5. \A t \in Tests : OneSource(t)  BY <1>4 DEF OneSource
<1>6. (\A s \in Slots : Decided(s)) /\ Past  BY <1>2 DEF Decided, Deciding, Past
<1>7. \A t \in Tests : WithinBudget(t)
  <2> TAKE t \in Tests
  <2>1. IsFiniteSet(Orphans(t)) /\ Cardinality(Orphans(t)) = 0  BY <1>4, FS_EmptySet
  <2>2. Coming(t) \in {0, 1} /\ LeftBehind = 0  BY <1>2 DEF Coming, LeftBehind
  <2> QED BY <1>2, <2>1, <2>2 DEF WithinBudget
<1> QED BY <1>3, <1>5, <1>6, <1>7 DEF ComparedInv

\* What is true of the script pipeline in every state, and what follows from it.
PipelineInv == ScriptsTyped /\ AccountedInv /\ EditInv /\ ComparedInv
LEMMA PipelineCorrect == Spec => [](part \in {"scripts", "edits"} => PipelineInv)
<1>1. Init => (part \in {"scripts", "edits"} => PipelineInv)
  BY ScriptsStart, ComparedStart DEF PipelineInv
<1>2. (part \in {"scripts", "edits"} => PipelineInv) /\ [Next]_allvars => (part \in {"scripts", "edits"} => PipelineInv)'
  <2> SUFFICES ASSUME part \in {"scripts", "edits"}, PipelineInv, [Next]_allvars PROVE PipelineInv'  BY Frame
  <2>1. CASE Scripts \/ Edits
    <3>1. SP!ScriptsNext  BY <2>1, ScriptFrame
    <3> QED BY <3>1, ScriptsTypedStep, AccountedStep, EditInvStep, ComparedStep DEF PipelineInv
  <2>2. CASE UNCHANGED spvars
    <3>1. ScriptsTyped' /\ AccountedInv' /\ EditInv'
      BY <2>2 DEF PipelineInv, spvars, ScriptsTyped, Queued, Carried, AccountedInv, Located, EditInv, Holds
    <3>2. faults' >= faults  BY <2>2 DEF PipelineInv, ScriptsTyped, spvars
    <3>3. ScriptsTyped /\ ComparedInv /\ ScriptsTyped' /\ UNCHANGED <<want, request, ai, job, compares, fresh>>
      BY <2>2, <3>1 DEF PipelineInv, spvars
    <3> QED BY <3>1, <3>2, <3>3, ElsewhereCompares DEF PipelineInv
  <2> QED BY <2>1, <2>2, Frame
<1> QED BY <1>1, <1>2, PTL DEF Spec

\* A test that POST /tests accepted is somewhere until it has ended, unless the broker
\* lost what ai-service sent without a confirm (ScriptPipeline).
THEOREM AccountedCorrect == Spec => []Accounted
<1>1. (part \in {"scripts", "edits"} => PipelineInv) => Accounted
  BY DEF PipelineInv, AccountedInv, Located, Accounted, SP!Accounted, SP!LostUnconfirmed, SP!BagToSet
<1> QED BY <1>1, PipelineCorrect, PTL

\* The descriptions of a test are compared once, and twice more for every fault (ScriptPipeline).
THEOREM ComparedCorrect == Spec => []ComparedOnce
<1>1. (part \in {"scripts", "edits"} => PipelineInv) => ComparedOnce
  <2> SUFFICES ASSUME PipelineInv, NEW t \in Tests PROVE compares[t] <= 1 + 2 * faults
    BY DEF ComparedOnce, SP!ComparedOnce
  <2>1. WithinBudget(t)  BY DEF PipelineInv, ComparedInv
  <2>2. Cardinality(Orphans(t)) \in Nat  BY <2>1, FS_CardinalityType DEF WithinBudget
  <2>3. Coming(t) \in Nat /\ LeftBehind \in Nat  BY DEF Coming, LeftBehind
  <2>4. compares[t] \in Nat /\ faults \in Nat  BY DEF PipelineInv, ScriptsTyped
  <2> QED BY <2>1, <2>2, <2>3, <2>4 DEF WithinBudget
<1> QED BY <1>1, PipelineCorrect, PTL

\* An edit overwrites the very text it archived (ScriptPipeline).
THEOREM ArchiveCorrect == Spec => []ArchivesWhatItOverwrites
<1>1. (part \in {"scripts", "edits"} => PipelineInv) => ArchivesWhatItOverwrites
  BY DEF PipelineInv, EditInv, Holds, ArchivesWhatItOverwrites, SP!ArchivesWhatItOverwrites
<1> QED BY <1>1, PipelineCorrect, PTL
=============================================================================
