------------------------------- MODULE Schema --------------------------------
(***************************************************************************)
(* The database schema as the migrations of backend/alembic make it, and   *)
(* what the deletions of the services take with them.                      *)
(*                                                                         *)
(* A revision is a script of DDL statements.  PostgreSQL runs the script   *)
(* as a transaction: one statement it refuses undoes all of them.  What it *)
(* refuses depends on the order of the statements (a reference needs its   *)
(* target and the unique key it points to, a dropped table must not be     *)
(* referenced) and on the rows that are there.  Several revisions run in   *)
(* one transaction leave what the single steps leave, or nothing.          *)
(*                                                                         *)
(* Of columns, only references and those the scripts test are kept; of     *)
(* rows, at most one per table: those of its columns that are set.         *)
(***************************************************************************)
EXTENDS Integers, Sequences, SequencesExt, TLC

HeadRevision == 10
LocalKey == "local_capability_key"

-----------------------------------------------------------------------------
(* References, and the statements of the scripts *)

\* A reference by id.  "nulls" is what ON DELETE SET NULL sets.
Ref(column, to, on, nullable) ==
    [column |-> column, to |-> to, key |-> "id", on |-> on, nullable |-> nullable,
     nulls |-> IF on = "set null" THEN {column} ELSE {}]

Cascades(column, to) == Ref(column, to, "cascade", FALSE)
Restricts(column, to) == Ref(column, to, "restrict", FALSE)
Nulls(column, to) == Ref(column, to, "set null", TRUE)
Optional(ref) == [ref EXCEPT !.nullable = TRUE]

\* A reference to a composite unique key, which holds the tenant's column too.
ByKey(ref, key) == [ref EXCEPT !.key = key]

Owner == Cascades("profile_id", "user_profiles")

Create(table, refs, keys) == [op |-> "create", table |-> table, refs |-> refs, keys |-> keys]
Table(table, refs) == Create(table, refs, {})
Drop(table) == [op |-> "drop", table |-> table]
AddKey(table, key) == [op |-> "add key", table |-> table, key |-> key]
DropKey(table, key) == [op |-> "drop key", table |-> table, key |-> key]
AddRef(table, ref) == [op |-> "add ref", table |-> table, ref |-> ref]
DropRef(table, column) == [op |-> "drop ref", table |-> table, column |-> column]
AddColumn(table, fits) == [op |-> "add column", table |-> table, fits |-> fits]
SetNullable(table, column, nullable) ==
    [op |-> "alter", table |-> table, column |-> column, nullable |-> nullable]
RefuseIfSet(table, column) == [op |-> "refuse", table |-> table, column |-> column]

-----------------------------------------------------------------------------
(* 0001, in the order of the script *)

InitialRoots == <<
    Table("companies", {}), Table("question_tags", {}), Table("user_profiles", {}),
    Table("background_jobs", {Optional(Owner)}),
    Table("company_style_packs", {Cascades("company_id", "companies")})>>

InitialOwned == <<
    Table("memory_items", {Owner}), Table("model_connections", {Owner}),
    Table("question_banks", {Owner}), Table("resumes", {Owner})>>

InitialParts == <<
    Table("evidence_items", {Cascades("style_pack_id", "company_style_packs")}),
    Table("memory_conflicts", {Cascades("conflicting_memory_id", "memory_items"),
                               Cascades("memory_id", "memory_items")}),
    Table("model_role_bindings", {Restricts("connection_id", "model_connections"), Owner}),
    Table("questions", {Cascades("bank_id", "question_banks")})>>

InitialConfigs == <<
    Table("resume_sections", {Cascades("resume_id", "resumes")}),
    Table("round_profiles", {Cascades("style_pack_id", "company_style_packs")}),
    Table("interview_configs", {Restricts("company_id", "companies"), Owner,
                                Nulls("resume_id", "resumes"),
                                Restricts("round_profile_id", "round_profiles")}),
    Table("question_tag_links", {Cascades("question_id", "questions"),
                                 Cascades("tag_id", "question_tags")}),
    Table("question_variants", {Cascades("question_id", "questions")})>>

InitialPlans == <<
    Table("resume_claims", {Cascades("resume_id", "resumes"),
                            Nulls("section_id", "resume_sections")}),
    Table("interview_plans", {Restricts("config_id", "interview_configs"),
                              Restricts("style_pack_id", "company_style_packs")}),
    Table("interview_sessions", {Restricts("plan_id", "interview_plans"), Owner}),
    Table("plan_questions", {Cascades("plan_id", "interview_plans"),
                             Optional(Restricts("question_id", "questions"))})>>

OfSession == Cascades("session_id", "interview_sessions")

\* Bug: a report goes with the connection that wrote it.
Bug_ReportsFollowConnection == <<
    Table("context_snapshots", {Nulls("model_connection_id", "model_connections"), OfSession}),
    Table("conversation_segments", {Nulls("plan_question_id", "plan_questions"), OfSession}),
    Table("evaluation_reports",
          {Optional(Cascades("evaluator_model_connection_id", "model_connections")), OfSession})>>

InitialContext == <<
    Table("context_snapshots", {Nulls("model_connection_id", "model_connections"), OfSession}),
    Table("conversation_segments", {Nulls("plan_question_id", "plan_questions"), OfSession}),
    Table("evaluation_reports",
          {Nulls("evaluator_model_connection_id", "model_connections"), OfSession})>>

InitialSummaries == <<
    Table("interview_context_states",
          {Nulls("current_plan_question_id", "plan_questions"), OfSession}),
    Table("summary_bundles", {OfSession}),
    Table("context_summaries",
          {Cascades("segment_id", "conversation_segments"),
           Nulls("summarizer_model_connection_id", "model_connections")}),
    Table("dimension_evaluations", {Cascades("report_id", "evaluation_reports")})>>

InitialTranscript == <<
    Table("interview_messages", {Nulls("plan_question_id", "plan_questions"),
                                 Nulls("segment_id", "conversation_segments"), OfSession}),
    Table("memory_usages", {Nulls("context_snapshot_id", "context_snapshots"),
                            Cascades("memory_id", "memory_items"), OfSession}),
    Table("question_evaluations", {Restricts("plan_question_id", "plan_questions"),
                                   Cascades("report_id", "evaluation_reports")})>>

InitialSources == <<
    Table("answer_attachments", {Cascades("message_id", "interview_messages")}),
    Table("memory_sources", {Cascades("memory_id", "memory_items"),
                             Optional(Cascades("message_id", "interview_messages")),
                             Optional(OfSession)})>>

DropInitial == <<
    Drop("memory_sources"), Drop("answer_attachments"), Drop("question_evaluations"),
    Drop("memory_usages"), Drop("interview_messages"), Drop("dimension_evaluations"),
    Drop("context_summaries"), Drop("summary_bundles"), Drop("interview_context_states"),
    Drop("evaluation_reports"), Drop("conversation_segments"), Drop("context_snapshots"),
    Drop("plan_questions"), Drop("interview_sessions"), Drop("interview_plans"),
    Drop("resume_claims"), Drop("question_variants"), Drop("question_tag_links"),
    Drop("interview_configs"), Drop("round_profiles"), Drop("resume_sections"),
    Drop("questions"), Drop("model_role_bindings"), Drop("memory_conflicts"),
    Drop("evidence_items"), Drop("resumes"), Drop("question_banks"),
    Drop("model_connections"), Drop("memory_items"), Drop("company_style_packs"),
    Drop("background_jobs"), Drop("user_profiles"), Drop("question_tags"), Drop("companies")>>

-----------------------------------------------------------------------------
(* 0002 to 0005: companies of a user, realtime events, heartbeats, discovery *)

CompanyOwner == <<
    AddColumn("companies", TRUE), AddRef("companies", Optional(Owner))>>

DropCompanyOwner == <<DropRef("companies", "profile_id")>>

RealtimeEvents == <<Table("interview_realtime_events", {OfSession})>>

Heartbeats == <<Table("worker_heartbeats", {})>>

OfRun == ByKey(Cascades("run_id", "question_discovery_runs"), "profile")

DiscoveryRuns == <<
    Create("discovery_connectors", {Owner}, {"profile"}),
    Create("question_discovery_runs",
           {Owner, ByKey(Restricts("connector_id", "discovery_connectors"), "profile")},
           {"profile"})>>

DiscoverySources == <<Create("question_discovery_sources", {Owner, OfRun}, {"run"})>>

DiscoveryCandidates == <<
    Create("question_discovery_candidates",
           {Owner, OfRun, Nulls("researcher_connection_id", "model_connections")},
           {"profile", "run"})>>

DiscoveryEvidence == <<
    Table("question_discovery_candidate_evidence",
          {Owner, OfRun,
           ByKey(Cascades("candidate_id", "question_discovery_candidates"), "run"),
           ByKey(Cascades("source_id", "question_discovery_sources"), "run")})>>

\* Bug: SET NULL without its list of columns takes the tenant's column as well.
Bug_NullsWholeKey == <<
    Table("question_discovery_imports",
          {Owner, Restricts("bank_id", "question_banks"), Nulls("question_id", "questions"),
           [ByKey(Nulls("candidate_id", "question_discovery_candidates"), "profile")
               EXCEPT !.nulls = {"candidate_id", "profile_id"}]})>>

DiscoveryImports == <<
    Table("question_discovery_imports",
          {Owner, Restricts("bank_id", "question_banks"), Nulls("question_id", "questions"),
           ByKey(Nulls("candidate_id", "question_discovery_candidates"), "profile")})>>

\* Two references share candidate_id, by different keys.
DiscoveryProvenance == <<
    Table("question_source_provenance",
          {Owner, Cascades("question_id", "questions"),
           ByKey(Nulls("discovery_run_id", "question_discovery_runs"), "profile"),
           ByKey(Nulls("candidate_id", "question_discovery_candidates"), "profile"),
           ByKey(Nulls("candidate_id", "question_discovery_candidates"), "run")})>>

DropDiscovery == <<
    Drop("question_source_provenance"), Drop("question_discovery_imports"),
    Drop("question_discovery_candidate_evidence"), Drop("question_discovery_candidates"),
    Drop("question_discovery_sources"), Drop("question_discovery_runs"),
    Drop("discovery_connectors")>>

-----------------------------------------------------------------------------
(* 0007 to 0010: local bindings, vectors, practice *)

LocalBindings == <<
    SetNullable("model_role_bindings", "connection_id", TRUE),
    AddColumn("model_role_bindings", TRUE)>>

\* Bug: the column stays as the upgrade left it.
Bug_LeavesConnectionNullable == <<
    RefuseIfSet("model_role_bindings", LocalKey)>>

\* A RAISE EXCEPTION comes first: a local route is not discarded silently.
DropLocalBindings == <<
    RefuseIfSet("model_role_bindings", LocalKey),
    SetNullable("model_role_bindings", "connection_id", FALSE)>>

EmbeddingProfiles == <<
    AddKey("memory_items", "profile"), AddKey("plan_questions", "plan"),
    Create("embedding_profiles",
           {Owner, Optional(Restricts("model_connection_id", "model_connections"))},
           {"profile"})>>

MemoryEmbeddings == <<
    Table("memory_embeddings",
          {Nulls("company_id", "companies"),
           ByKey(Cascades("embedding_profile_id", "embedding_profiles"), "profile"),
           ByKey(Cascades("memory_id", "memory_items"), "profile")})>>

PlanQuestionEmbeddings == <<
    Table("plan_question_embeddings",
          {Restricts("company_id", "companies"),
           ByKey(Cascades("embedding_profile_id", "embedding_profiles"), "profile"),
           ByKey(Cascades("plan_question_id", "plan_questions"), "plan")})>>

DropEmbeddings == <<
    Drop("plan_question_embeddings"), Drop("memory_embeddings"), Drop("embedding_profiles"),
    DropKey("plan_questions", "plan"), DropKey("memory_items", "profile")>>

PracticeTasks == <<
    Table("practice_tasks", {Owner, Cascades("source_report_id", "evaluation_reports"),
                             Nulls("last_session_id", "interview_sessions")}),
    AddColumn("interview_configs", TRUE),
    AddRef("interview_configs", Nulls("practice_task_id", "practice_tasks")),
    AddColumn("interview_sessions", TRUE)>>

DropPracticeTasks == <<
    DropRef("interview_configs", "practice_task_id"), Drop("practice_tasks")>>

-----------------------------------------------------------------------------
(* The chain of revisions.  0006 is an index and 0008 an extension. *)

Upgrades == <<
    InitialRoots \o InitialOwned \o InitialParts \o InitialConfigs \o InitialPlans
        \o InitialContext \o InitialSummaries \o InitialTranscript \o InitialSources,
    CompanyOwner, RealtimeEvents, Heartbeats,
    DiscoveryRuns \o DiscoverySources \o DiscoveryCandidates \o DiscoveryEvidence
        \o DiscoveryImports \o DiscoveryProvenance,
    <<>>, LocalBindings, <<>>,
    EmbeddingProfiles \o MemoryEmbeddings \o PlanQuestionEmbeddings,
    PracticeTasks>>

Downgrades == <<
    DropInitial, DropCompanyOwner, <<Drop("interview_realtime_events")>>,
    <<Drop("worker_heartbeats")>>, DropDiscovery, <<>>, DropLocalBindings, <<>>,
    DropEmbeddings, DropPracticeTasks>>

Script(revision, to) == IF to > revision THEN Upgrades[to] ELSE Downgrades[revision]

\* A schema: the references of each table, and the composite keys.
Empty == [refs |-> << >>, keys |-> {}]

Targets(s, ref) ==
    ref.to \in DOMAIN s.refs /\ (ref.key = "id" \/ <<ref.to, ref.key>> \in s.keys)

Referenced(s, table) == \E t \in DOMAIN s.refs : \E ref \in s.refs[t] : ref.to = table

\* What PostgreSQL accepts in schema s, with r the rows there are.
Legal(s, r, x) ==
    CASE x.op = "create" ->
            x.table \notin DOMAIN s.refs /\ \A ref \in x.refs : Targets(s, ref)
      [] x.op = "drop" -> x.table \in DOMAIN s.refs /\ ~Referenced(s, x.table)
      [] x.op = "add key" -> x.table \in DOMAIN s.refs
      [] x.op = "drop key" ->
            ~\E t \in DOMAIN s.refs : \E ref \in s.refs[t] :
                ref.to = x.table /\ ref.key = x.key
      [] x.op = "add ref" -> x.table \in DOMAIN s.refs /\ Targets(s, x.ref)
      [] x.op = "drop ref" -> \E ref \in s.refs[x.table] : ref.column = x.column
      [] x.op = "add column" -> x.fits \/ x.table \notin DOMAIN r
      [] x.op = "alter" -> x.nullable \/ x.table \notin DOMAIN r \/ x.column \in r[x.table]
      [] x.op = "refuse" -> x.table \notin DOMAIN r \/ x.column \notin r[x.table]

Applied(s, x) ==
    CASE x.op = "create" ->
            [refs |-> (x.table :> x.refs) @@ s.refs,
             keys |-> s.keys \cup {<<x.table, key>> : key \in x.keys}]
      [] x.op = "drop" ->
            [refs |-> [t \in DOMAIN s.refs \ {x.table} |-> s.refs[t]],
             keys |-> {k \in s.keys : k[1] # x.table}]
      [] x.op = "add key" -> [s EXCEPT !.keys = @ \cup {<<x.table, x.key>>}]
      [] x.op = "drop key" -> [s EXCEPT !.keys = @ \ {<<x.table, x.key>>}]
      [] x.op = "add ref" -> [s EXCEPT !.refs[x.table] = @ \cup {x.ref}]
      [] x.op = "drop ref" ->
            [s EXCEPT !.refs[x.table] = {ref \in @ : ref.column # x.column}]
      [] x.op = "alter" ->
            [s EXCEPT !.refs[x.table] = {IF ref.column = x.column
                                         THEN [ref EXCEPT !.nullable = x.nullable]
                                         ELSE ref : ref \in @}]
      [] OTHER -> s

\* A script, run to its end or to the first statement that is refused.
Ran(s, r, script) ==
    FoldLeft(LAMBDA acc, x : IF acc.ok /\ Legal(acc.schema, r, x)
                             THEN [acc EXCEPT !.schema = Applied(acc.schema, x)]
                             ELSE [acc EXCEPT !.ok = FALSE],
             [ok |-> TRUE, schema |-> s], script)

\* The columns of a row that can be null, and those this model follows.
NullableColumns(s, table) ==
    {ref.column : ref \in {ref \in s.refs[table] : ref.nullable}}
        \cup (IF table = "model_role_bindings" THEN {LocalKey} ELSE {})

Columns(s, table) == {ref.column : ref \in s.refs[table]} \cup {LocalKey}

\* The rows that remain: dropped tables and columns take theirs with them.
Remaining(s, r) ==
    [t \in DOMAIN r \cap DOMAIN s.refs |-> r[t] \cap Columns(s, t)]
=============================================================================
