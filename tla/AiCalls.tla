------------------------------- MODULE AiCalls -------------------------------
(***************************************************************************)
(* Which AI provider a call goes to.  The setting is in two rows of        *)
(* results-service, the platform's and a team's own; ai-service,           *)
(* analyser-service and recorder-service each keep the one of a team for   *)
(* CacheTicks, the routes of results-service read the rows.  A call tries  *)
(* the providers of its setting in turn, some calls try more than once.    *)
(*                                                                         *)
(* One service with a cache, and the calls of one team: nothing is shared  *)
(* between services or between the teams of a cache.                       *)
(***************************************************************************)
EXTENDS Naturals, Sequences, FiniteSets, Functions

CONSTANTS
    Slots,      \* calls under way at a time
    Settings,   \* settings: sequences of providers, the fallbacks last
    Default,    \* DEFAULT_AI_PROVIDER_SETTING
    Configured, \* providers with an API key
    NoRow,
    CacheTicks, \* PROVIDER_CACHE_MS
    FetchTicks, \* the timeout of the request for the setting
    MaxPuts,    \* bound on the changes of the rows
    MaxFailing  \* bound on the calls under way when a provider fails

AiCallsAssumption ==
    /\ Default \in Settings /\ NoRow \notin Settings /\ {FetchTicks, MaxPuts, MaxFailing} \subseteq Nat
    /\ CacheTicks \in Nat \ {0}
    /\ \A v \in Settings : v \in Seq(STRING) /\ Len(v) > 0

VARIABLES
    row,   \* "team" and "global": the setting, or NoRow
    left,  \* row -> value -> the ticks since the row had it last, up to Window
    cache, \* providerCache: the setting and its age
    call,  \* the calls
    puts

avars == <<row, left, cache, call, puts>>

Window == CacheTicks + FetchTicks
Rows   == {"team", "global"}
Kinds  == {"script", "insights", "recording", "route", "chat"}
Empty  == [setting |-> NoRow, age |-> 0]
Idle   == [kind |-> "script", pc |-> "idle", held |-> NoRow, setting |-> NoRow, took |-> 0, late |-> FALSE,
           at |-> 1, limited |-> FALSE, tries |-> 1, answered |-> FALSE]

AiCallsTypeOK ==
    /\ row \in [Rows -> Settings \cup {NoRow}]
    /\ left \in [Rows -> [Settings \cup {NoRow} -> 0..Window]]
    /\ cache \in [setting : Settings \cup {NoRow}, age : 0..CacheTicks]
    /\ \A s \in Slots :
          /\ call[s].kind \in Kinds /\ {call[s].held, call[s].setting} \subseteq Settings \cup {NoRow}
          /\ call[s].pc \in {"idle", "asked", "inherits", "replied", "calling", "waiting"}
          /\ call[s].took \in 0..FetchTicks /\ call[s].at \in Nat /\ call[s].tries \in 1..3
          /\ {call[s].late, call[s].limited, call[s].answered} \subseteq BOOLEAN
    /\ puts \in 0..MaxPuts

AiCallsInit ==
    /\ row = [r \in Rows |-> NoRow]
    /\ left = [r \in Rows |-> [v \in Settings \cup {NoRow} |-> IF v = NoRow THEN 0 ELSE Window]]
    /\ cache = Empty
    /\ call = [s \in Slots |-> Idle]
    /\ puts = 0

Is(s, at) == call[s].pc = at
Becomes(s, c) == call' = [call EXCEPT ![s] = c]
OrDefault(v) == IF v = NoRow THEN Default ELSE v

-----------------------------------------------------------------------------
\* PUT and DELETE /teams/:id/ai-provider, PUT /system/ai-provider; the global
\* row is never removed.
Put(r, v) ==
    /\ puts < MaxPuts /\ v # row[r] /\ (r = "global" => v # NoRow)
    /\ row' = [row EXCEPT ![r] = v]
    /\ left' = [left EXCEPT ![r][v] = 0]
    /\ puts' = puts + 1
    /\ UNCHANGED <<cache, call>>

\* A fetch ends in time, one way or the other.
Tick ==
    /\ \A s \in Slots : call[s].pc \in {"asked", "inherits", "replied"} => call[s].took < FetchTicks
    /\ left' = [r \in Rows |-> [v \in Settings \cup {NoRow} |->
                  IF v = row[r] THEN 0 ELSE IF left[r][v] < Window THEN left[r][v] + 1 ELSE Window]]
    /\ cache' = [cache EXCEPT !.age = IF cache.setting # NoRow /\ @ < CacheTicks THEN @ + 1 ELSE @]
    /\ call' = [s \in Slots |-> IF call[s].pc \in {"asked", "inherits", "replied"}
                                THEN [call[s] EXCEPT !.took = @ + 1] ELSE call[s]]
    /\ UNCHANGED <<row, puts>>

\* The setting was the team's, or the team had none and it was the platform's,
\* less than Window ago.  Most routes go by the platform's alone.
Had(r, v) == left[r][v] < Window
HadDefault(v) == Had("global", v) \/ (v = Default /\ Had("global", NoRow))
InForce(kind, v) ==
    IF kind = "route" THEN HadDefault(v) ELSE Had("team", v) \/ (Had("team", NoRow) /\ HadDefault(v))

\* The setting a call is made with; without a configured provider there is none.
Made(c, v) == IF Range(v) \cap Configured = {} THEN Idle
              ELSE [c EXCEPT !.pc = "calling", !.held = NoRow, !.setting = v, !.took = 0,
                             !.late = ~InForce(c.kind, v)]
Asked(kind, to) == [Idle EXCEPT !.kind = kind, !.pc = to]

\* Mutant: whoever uses the cached setting keeps it alive.
HitRenewing == [cache EXCEPT !.age = 0]

\* getProviderSetting: a fresh setting is used.  What the cache has when a fetch
\* begins is held for the case that it fails.
Hit == cache
Ask(s, kind) ==
    /\ Is(s, "idle") /\ kind \in {"script", "insights", "recording"}
    /\ IF cache.setting # NoRow /\ cache.age < CacheTicks
       THEN Becomes(s, Made(Asked(kind, "idle"), cache.setting)) /\ cache' = Hit
       ELSE Becomes(s, [Asked(kind, "asked") EXCEPT !.held = cache.setting]) /\ UNCHANGED cache
    /\ UNCHANGED <<row, left, puts>>

\* GET /system/ai-provider, and the chat routes: getEffectiveAiProviderSetting
\* reads the team's row ...
ReadTeam(s) ==
    /\ Is(s, "asked")
    /\ Becomes(s, IF row["team"] = NoRow THEN [call[s] EXCEPT !.pc = "inherits"]
                  ELSE IF call[s].kind = "chat" THEN Made(call[s], row["team"])
                  ELSE [call[s] EXCEPT !.pc = "replied", !.setting = row["team"]])
    /\ UNCHANGED <<row, left, cache, puts>>

\* ... and the platform's when there is none.  getAiCapability reads that alone.
ReadGlobal(s) ==
    LET v == IF row["global"] = NoRow THEN Default ELSE row["global"] IN
    /\ Is(s, "inherits")
    /\ Becomes(s, IF call[s].kind \in {"chat", "route"} THEN Made(call[s], v)
                  ELSE [call[s] EXCEPT !.pc = "replied", !.setting = v])
    /\ UNCHANGED <<row, left, cache, puts>>

AskRoute(s) ==
    /\ Is(s, "idle")
    /\ \/ Becomes(s, Asked("route", "inherits")) \/ Becomes(s, Asked("chat", "asked"))
    /\ UNCHANGED <<row, left, cache, puts>>

\* The answer is cached as of now, whatever was cached meanwhile.
Fetched(s) ==
    /\ Is(s, "replied")
    /\ cache' = [setting |-> call[s].setting, age |-> 0]
    /\ Becomes(s, Made(call[s], call[s].setting))
    /\ UNCHANGED <<row, left, puts>>

\* results-service cannot be reached, or not in time: the old setting, however old,
\* or the default.
FetchFails(s) ==
    /\ call[s].pc \in {"asked", "inherits", "replied"} /\ call[s].kind \notin {"route", "chat"}
    /\ LET v == IF call[s].held = NoRow THEN Default ELSE call[s].held IN
       Becomes(s, [Made(call[s], v) EXCEPT !.late = FALSE])
    /\ UNCHANGED <<row, left, cache, puts>>

-----------------------------------------------------------------------------
\* generateAIText: the next provider answers, or fails; one without a key fails.
Provider(s) == call[s].setting[call[s].at]
Provides(s) ==
    /\ Is(s, "calling") /\ call[s].at <= Len(call[s].setting) /\ Provider(s) \in Configured
    /\ Becomes(s, Idle)
    /\ UNCHANGED <<row, left, cache, puts>>
ProviderFails(s) ==
    /\ Is(s, "calling") /\ call[s].at <= Len(call[s].setting)
    /\ Cardinality({t \in Slots \ {s} : call[t].pc # "idle"}) < MaxFailing
    /\ \E limited \in {FALSE, Provider(s) \in Configured} :
          Becomes(s, [call[s] EXCEPT !.at = @ + 1, !.limited = limited])
    /\ UNCHANGED <<row, left, cache, puts>>

\* The last error counts: scripts wait and try again after a rate limit, twice;
\* insights after any other error, once.
TriesAgain(c) == \/ c.kind = "script" /\ c.limited /\ c.tries < 3
                 \/ c.kind = "insights" /\ ~c.limited /\ c.tries < 2
Failed(s) ==
    /\ Is(s, "calling") /\ call[s].at > Len(call[s].setting)
    /\ Becomes(s, IF TriesAgain(call[s]) THEN [call[s] EXCEPT !.pc = "waiting", !.at = 1, !.tries = @ + 1]
                  ELSE Idle)
    /\ UNCHANGED <<row, left, cache, puts>>
Retry(s) ==
    /\ Is(s, "waiting")
    /\ Becomes(s, [call[s] EXCEPT !.pc = "calling"])
    /\ UNCHANGED <<row, left, cache, puts>>

\* Insights are answered without an AI text after ten seconds; the attempts go on.
Deadline(s) ==
    /\ call[s].pc \in {"calling", "waiting"} /\ call[s].kind = "insights" /\ ~call[s].answered
    /\ Becomes(s, [call[s] EXCEPT !.answered = TRUE])
    /\ UNCHANGED <<row, left, cache, puts>>

AiCallsNext ==
    \/ \E s \in Slots :
          \/ \E kind \in Kinds : Ask(s, kind)
          \/ AskRoute(s) \/ ReadTeam(s) \/ ReadGlobal(s) \/ Fetched(s) \/ FetchFails(s)
          \/ Provides(s) \/ ProviderFails(s) \/ Failed(s) \/ Retry(s) \/ Deadline(s)
    \/ \E r \in Rows, v \in Settings \cup {NoRow} : Put(r, v)
    \/ Tick

AiCallsSpec == AiCallsInit /\ [][AiCallsNext]_avars

-----------------------------------------------------------------------------
\* Of however many concurrent calls fill the cache, and in whatever order their
\* requests are answered: unless results-service could not be reached, a call is
\* made with a setting that was in force less than Window ago.
FreshSetting == \A s \in Slots : ~call[s].late
=============================================================================
