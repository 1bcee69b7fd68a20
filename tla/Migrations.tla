----------------------------- MODULE Migrations -----------------------------
(***************************************************************************)
(* The schema of results-service.  Every replica that starts brings it up  *)
(* to date under an advisory lock, one committed statement at a time, and  *)
(* may end between any two of them; the lock goes with its connection.     *)
(*                                                                         *)
(* An object is the tuple of its names: a table, a table and a column it   *)
(* was given later, an index or a constraint.  The columns a table is      *)
(* created with come with it.                                              *)
(***************************************************************************)
EXTENDS Naturals, SequencesExt

CONSTANTS
    Replicas,
    Nobody,
    Legacy,    \* the tables there can be from before the registry
    MaxEnds    \* bound on the replicas that end in the middle

MigrationsAssumption ==
    /\ Nobody \notin Replicas /\ MaxEnds \in Nat
    /\ \A old \in Legacy : old \subseteq {<<"test_scripts">>, <<"test_results">>, <<"test_templates">>}

VARIABLES
    schema,  \* the objects there are
    applied, \* schema_migrations: the versions; or NoTable
    locked,  \* who holds the advisory lock
    replica, \* where every replica is: [pc, todo, at]
    ends

mvars == <<schema, applied, locked, replica, ends>>

\* A statement: what must be there, what is there afterwards, what is not.
\* IF NOT EXISTS and IF EXISTS make it find either; Constraint has neither.
Create(t, refs)   == [needs |-> {<<r>> : r \in refs}, makes |-> <<t>>, drops |-> {}, guarded |-> TRUE]
Column(t, c, refs) == [needs |-> {<<t>>} \cup {<<r>> : r \in refs}, makes |-> <<t, c>>, drops |-> {}, guarded |-> TRUE]
Index(i, t, cols) == [needs |-> {<<t>>} \cup {<<t, c>> : c \in cols}, makes |-> <<"index", i>>, drops |-> {},
                      guarded |-> TRUE]
DropIndex(i)      == [needs |-> {}, makes |-> <<>>, drops |-> {<<"index", i>>}, guarded |-> TRUE]
DropKey(t, c)     == [needs |-> {<<t>>}, makes |-> <<>>, drops |-> {<<t, "key", c>>}, guarded |-> TRUE]
AddKey(t, c, ref) == [needs |-> {<<t>>, <<ref>>}, makes |-> <<t, "key", c>>, drops |-> {}, guarded |-> FALSE]
Rename(old, new)  == [needs |-> {<<old>>}, makes |-> <<new>>, drops |-> {<<old>>}, guarded |-> FALSE]
Columns(ts, c, ref) == [n \in 1..Len(ts) |-> Column(ts[n], c, {ref})]

InitialSchema ==
    << Create("test_scripts", {}), Create("test_results", {"test_scripts"}), Create("schedules", {}),
       Rename("test_templates", "test_presets"), Create("test_presets", {}), Create("webhooks", {}),
       Create("log_sources", {}), Create("live_metrics", {}),
       Index("live_metrics_test_id_idx", "live_metrics", {}),
       Index("idx_test_results_status", "test_results", {}),
       Index("idx_test_results_url_type_status", "test_results", {}),
       Index("idx_test_results_active", "test_results", {}) >>
ColumnExtensions ==
    << Column("test_results", "is_baseline", {}), Column("test_results", "duration_seconds", {}),
       Column("live_metrics", "step_metrics", {}), Column("test_scripts", "description", {}),
       Column("test_results", "status_message", {}), Column("test_results", "steps", {}),
       Column("test_results", "test_data", {}) >>
LogSourcesMetrics ==
    << Column("log_sources", "metrics_endpoint_template", {}), Column("log_sources", "auth_header", {}) >>
WebhooksFormat == << Column("webhooks", "format", {}) >>
Projects ==
    << Create("projects", {}) >>
    \o Columns(<<"test_results", "test_scripts", "test_presets", "schedules", "webhooks", "log_sources">>,
               "project_id", "projects")
    \o << Index("idx_test_results_project_id", "test_results", {"project_id"}),
          Index("idx_test_scripts_project_id", "test_scripts", {"project_id"}) >>
UsersAndSessions ==
    << Create("users", {}), Create("team_members", {"projects", "users"}),
       Create("sessions", {"users", "projects"}),
       Index("sessions_user_id_idx", "sessions", {}), Index("sessions_token_hash_idx", "sessions", {}) >>
Quotas == << Create("team_quotas", {"projects"}), Create("gemini_usage", {"projects"}) >>
Organizations ==
    << Create("organizations", {}), Create("org_members", {"organizations", "users"}),
       Column("projects", "org_id", {"organizations"}), Create("team_api_keys", {"projects"}),
       Index("team_api_keys_hash_idx", "team_api_keys", {}) >>
AuditLog ==
    << Create("audit_log", {"projects", "users"}), Index("audit_log_team_id_idx", "audit_log", {}) >>
\* The setting is inserted ON CONFLICT DO NOTHING.
AppSettings == << Create("app_settings", {}), Column("app_settings", "ai_provider", {}) >>
AiProviders == << Create("team_ai_providers", {"projects"}) >>
ExecutionLog == << Column("test_results", "execution_log", {}) >>
ScriptSetNull ==
    << DropKey("test_results", "script_id"), AddKey("test_results", "script_id", "test_scripts") >>
Workspaces ==
    << Create("workspaces", {"projects"}), Index("workspaces_team_id_idx", "workspaces", {}) >>
    \o Columns(<<"test_results", "test_scripts", "test_presets", "schedules", "webhooks">>,
               "workspace_id", "workspaces")
ErrorBreakdown ==
    << Column("live_metrics", "client_error_rate", {}), Column("live_metrics", "server_error_rate", {}) >>
PerfIndexes ==
    << Index("idx_team_members_user_id", "team_members", {}), Index("idx_org_members_user_id", "org_members", {}),
       Index("idx_test_results_project_created", "test_results", {"project_id"}),
       Index("idx_test_results_workspace_created", "test_results", {"workspace_id"}),
       DropIndex("idx_test_results_project_id"),
       Index("idx_test_results_url_type_status_created", "test_results", {"is_baseline"}),
       DropIndex("idx_test_results_url_type_status") >>
IdleTimeout == << Column("sessions", "last_seen_at", {}) >>
ScriptVersions ==
    << Create("test_script_versions", {"test_scripts"}),
       Index("idx_test_script_versions_script_id", "test_script_versions", {}) >>

MIGRATIONS == << InitialSchema, ColumnExtensions, LogSourcesMetrics, WebhooksFormat, Projects,
                 UsersAndSessions, Quotas, Organizations, AuditLog, AppSettings, AiProviders, ExecutionLog,
                 ScriptSetNull, Workspaces, ErrorBreakdown, PerfIndexes, IdleTimeout, ScriptVersions >>
Versions == 1..Len(MIGRATIONS)

\* The reference of the results to the scripts comes with the table, and the old
\* table is renamed if there is one.
Skipped(db, s) == s = Rename("test_templates", "test_presets") /\ <<"test_templates">> \notin db
Result(db, s) ==
    IF Skipped(db, s) THEN db
    ELSE (db \ s.drops) \cup (IF s.makes = <<>> THEN {} ELSE {s.makes})
         \cup (IF s.makes = <<"test_results">> THEN {<<"test_results", "key", "script_id">>} ELSE {})
\* A statement fails without what it refers to, or without a guard when what it
\* makes is there.
Fails(db, s) == ~Skipped(db, s) /\ (~ (s.needs \subseteq db) \/ (~s.guarded /\ s.makes \in db))

\* What the code of this version reads and writes: an empty database migrated.
WholeSchema == FoldLeft(Result, {}, FlattenSeq(MIGRATIONS))

\* The old tables are as their own code left them: the results refer to the
\* scripts without ON DELETE.
OldSchema(old) == old \cup IF <<"test_results">> \in old THEN {<<"test_results", "key", "script_id">>} ELSE {}

-----------------------------------------------------------------------------
(* Nobody else: one replica at a time brings the schema up to date and may end *)
(* anywhere.  A place is a migration, a statement of it and the schema there.  *)

Place(v, at, db) == [v |-> v, at |-> at, db |-> db]

\* This migration again after an end, its next statement, or the next migration.
Further(p) ==
    LET body == MIGRATIONS[p.v] IN
    {Place(p.v, 1, p.db)}
    \cup (IF p.at <= Len(body) THEN {Place(p.v, p.at + 1, Result(p.db, body[p.at]))} ELSE {})
    \cup (IF p.at > Len(body) /\ p.v < Len(MIGRATIONS) THEN {Place(p.v + 1, 1, p.db)} ELSE {})

\* What is reached when a migration is ended after k statements and started again.
Ran(db, statements) == FoldLeft(Result, db, statements)
Before(v, db) == Ran(db, FlattenSeq(SubSeq(MIGRATIONS, 1, v - 1)))
Places ==
    UNION {LET body  == MIGRATIONS[v]
               found == Before(v, OldSchema(old))
               ended == {Ran(found, SubSeq(body, 1, k)) : k \in 0..Len(body)}
           IN  {Place(v, n + 1, Ran(db, SubSeq(body, 1, n))) : db \in ended, n \in 0..Len(body)} :
           v \in Versions, old \in Legacy}

\* Those are all the places there are; no statement fails at one of them, and the
\* last leaves the whole schema.
Replayable ==
    LET places == Places IN
    /\ \A old \in Legacy : Place(1, 1, OldSchema(old)) \in places
    /\ \A p \in places :
          /\ Further(p) \subseteq places
          /\ p.at <= Len(MIGRATIONS[p.v]) => ~Fails(p.db, MIGRATIONS[p.v][p.at])
          /\ p.v = Len(MIGRATIONS) /\ p.at > Len(MIGRATIONS[p.v]) => p.db = WholeSchema

-----------------------------------------------------------------------------
At(r, pc) == replica[r].pc = pc
Goes(r, pc) == replica' = [replica EXCEPT ![r].pc = pc]

SchemaTypeOK ==
    /\ applied \subseteq 0..Len(MIGRATIONS)
    /\ locked \in Replicas \cup {Nobody}
    /\ \A r \in Replicas :
          /\ replica[r].pc \in {"down", "connected", "locked", "migrating", "serving", "broken"}
          /\ replica[r].todo \subseteq Versions /\ replica[r].at \in Nat
    /\ ends \in 0..MaxEnds

SchemaInit ==
    /\ \E old \in Legacy : schema = OldSchema(old)
    /\ applied = {}
    /\ locked = Nobody
    /\ replica = [r \in Replicas |-> [pc |-> "down", todo |-> {}, at |-> 1]]
    /\ ends = 0

-----------------------------------------------------------------------------
\* schema_migrations is created, up to five attempts.
StartUp(r) ==
    /\ At(r, "down")
    /\ applied' = applied \cup {0}
    /\ replica' = [replica EXCEPT ![r] = [pc |-> "connected", todo |-> {}, at |-> 1]]
    /\ UNCHANGED <<schema, locked, ends>>

\* pg_advisory_lock waits until it has the lock ...
Acquire(r) ==
    /\ At(r, "connected") /\ locked = Nobody
    /\ locked' = r
    /\ Goes(r, "locked")
    /\ UNCHANGED <<schema, applied, ends>>

\* Mutant: the versions are read while waiting for the lock.
MayReadEarly(r) == At(r, "locked") \/ At(r, "connected")

\* ... and the versions are read then.
MayRead(r) == At(r, "locked")
ReadApplied(r) ==
    /\ MayRead(r)
    /\ replica' = [replica EXCEPT ![r] = [pc |-> "migrating", todo |-> Versions \ applied, at |-> 1]]
    /\ UNCHANGED <<schema, applied, locked, ends>>

Version(r) == CHOOSE v \in replica[r].todo : \A w \in replica[r].todo : v <= w
Body(r)    == MIGRATIONS[Version(r)]

\* The next statement of a migration, committed by itself; an error ends the start.
Execute(r) ==
    /\ At(r, "migrating") /\ replica[r].todo # {} /\ replica[r].at <= Len(Body(r))
    /\ LET s == Body(r)[replica[r].at] IN
       IF Fails(schema, s)
       THEN Goes(r, "broken") /\ UNCHANGED schema
       ELSE /\ schema' = Result(schema, s)
            /\ replica' = [replica EXCEPT ![r].at = @ + 1]
    /\ UNCHANGED <<applied, locked, ends>>

\* The version is recorded, in a statement of its own.
Record(r) ==
    /\ At(r, "migrating") /\ replica[r].todo # {} /\ replica[r].at > Len(Body(r))
    /\ IF Version(r) \in applied
       THEN Goes(r, "broken") /\ UNCHANGED applied
       ELSE /\ applied' = applied \cup {Version(r)}
            /\ replica' = [replica EXCEPT ![r].todo = @ \ {Version(r)}, ![r].at = 1]
    /\ UNCHANGED <<schema, locked, ends>>

\* Unlocked, whatever happened; then the consumer, the scheduler, the cleanup
\* and the API start.
Unlock(r) ==
    /\ At(r, "migrating") /\ replica[r].todo = {}
    /\ locked' = IF locked = r THEN Nobody ELSE locked
    /\ Goes(r, "serving")
    /\ UNCHANGED <<schema, applied, ends>>

\* The process ends, its connections with it: exit(1) after an error, a deploy,
\* a crash.
End(r) ==
    /\ ~At(r, "down") /\ ends < MaxEnds
    /\ locked' = IF locked = r THEN Nobody ELSE locked
    /\ Goes(r, "down")
    /\ ends' = ends + 1
    /\ UNCHANGED <<schema, applied>>

SchemaNext ==
    \E r \in Replicas : StartUp(r) \/ Acquire(r) \/ ReadApplied(r) \/ Execute(r) \/ Record(r)
                        \/ Unlock(r) \/ End(r)

SchemaSpec == SchemaInit /\ [][SchemaNext]_mvars

-----------------------------------------------------------------------------
\* However many replicas start together and wherever one ended, no statement of
\* the migrations fails, and a replica serves requests with the whole schema.
StartsAndServes ==
    \A r \in Replicas : ~At(r, "broken") /\ (At(r, "serving") => schema = WholeSchema /\ Versions \subseteq applied)
=============================================================================
