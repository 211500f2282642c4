------------------------------ MODULE Database -------------------------------
(***************************************************************************)
(* A database of the application over its migrations: alembic moves it up  *)
(* and down the revisions of Schema with whatever rows it holds, and at    *)
(* the head revision the services write rows and delete them.  Deletions   *)
(* with session.delete() reach as far as the ON DELETE clauses carry them. *)
(* Soft deletions, and deletions of rows that nothing refers to (tags of a *)
(* question, its provenance, the evaluations a new report replaces), are   *)
(* left out.                                                               *)
(***************************************************************************)
EXTENDS Models, FiniteSets

CONSTANT MaxDepth  \* how far a deletion cascades

ASSUME DatabaseAssumption == MaxDepth \in Nat

VARIABLES
    revision,   \* alembic_version: 0 is the empty database
    schema,     \* its tables, references and unique keys
    rows        \* per table with a row: its columns that are set

vars == <<revision, schema, rows>>

Present(table) == table \in DOMAIN rows
IsSet(table, column) == Present(table) /\ column \in rows[table]

Init ==
    /\ revision = 0
    /\ schema = Empty
    /\ rows = << >>

-----------------------------------------------------------------------------
(* Migrations *)

LocalBinding == IsSet("model_role_bindings", LocalKey)

Neighbours == {revision - 1, revision + 1} \cap (0..HeadRevision)

\* alembic upgrade and downgrade: the script and the version in one transaction.
Migrate(to) ==
    LET run == Ran(schema, rows, Script(revision, to))
    IN  /\ run.ok
        /\ revision' = to
        /\ schema' = run.schema
        /\ rows' = Remaining(run.schema, rows)

-----------------------------------------------------------------------------
(* What the services write, at the head revision *)

\* The row of a table refers to the row of another.
Refers(r, table, ref) ==
    table \in DOMAIN r /\ (ref.nullable => ref.column \in r[table])

Consistent(r) ==
    \A t \in DOMAIN r : \A ref \in schema.refs[t] : Refers(r, t, ref) => ref.to \in DOMAIN r

\* One row in each of the tables, with the same nullable columns set.
Rows(tables, columns) ==
    [t \in tables |-> columns \cap NullableColumns(schema, t)]

Write(new) ==
    /\ revision = HeadRevision
    /\ DOMAIN new \cap DOMAIN rows = {}
    /\ rows' = [t \in DOMAIN rows \cup DOMAIN new |-> IF t \in DOMAIN new THEN new[t] ELSE rows[t]]
    /\ Consistent(rows')
    /\ UNCHANGED <<revision, schema>>

\* The seeds of companies and the profile, which nothing deletes.
Seed ==
    Write(Rows({"user_profiles", "companies", "company_style_packs", "round_profiles",
                "question_banks"}, {}))

SaveConnection == Write(Rows({"model_connections"}, {}))

BindRole ==
    \E target \in {"connection_id", LocalKey} : Write(Rows({"model_role_bindings"}, {target}))

UploadResume == Write(Rows({"resumes", "resume_sections", "resume_claims"}, {"section_id"}))

WriteQuestion == Write(Rows({"questions", "question_tags", "question_tag_links"}, {}))

\* The connection that serves a call, if the role is bound to one.
Served(column) == IF IsSet("model_role_bindings", "connection_id") THEN {column} ELSE {}

\* With the resume and the questions of the bank, if there are any.
GeneratePlan ==
    Write(Rows({"interview_configs", "interview_plans", "plan_questions"},
               (IF Present("resumes") THEN {"resume_id"} ELSE {})
                   \cup (IF Present("questions") THEN {"question_id"} ELSE {})))

\* A session and what its turns leave behind.
Interview ==
    Write(Rows({"interview_sessions", "interview_context_states", "conversation_segments",
                "interview_messages", "interview_realtime_events", "context_snapshots"},
               Served("model_connection_id")
                   \cup {"current_plan_question_id", "plan_question_id", "segment_id"}))

\* The report, its evaluations and the practice task drawn from it.
Evaluate ==
    Write(Rows({"evaluation_reports", "dimension_evaluations", "question_evaluations",
                "practice_tasks"}, Served("evaluator_model_connection_id")))

Remember ==
    Write(Rows({"memory_items", "memory_sources", "memory_usages"},
               {"message_id", "session_id", "context_snapshot_id"}))

Discover ==
    Write(Rows({"discovery_connectors", "question_discovery_runs",
                "question_discovery_sources", "question_discovery_candidates",
                "question_discovery_candidate_evidence"}, Served("researcher_connection_id")))

ImportCandidate ==
    Write(Rows({"question_discovery_imports", "question_source_provenance"},
               {"candidate_id", "question_id", "discovery_run_id"}))

\* A semantic index, local or of a connection, over what there is to index.
BuildIndex ==
    Write(Rows({"embedding_profiles"}
                   \cup (IF Present("memory_items") THEN {"memory_embeddings"} ELSE {})
                   \cup (IF Present("plan_questions") THEN {"plan_question_embeddings"} ELSE {}),
               Served("model_connection_id") \cup {"company_id"}))

-----------------------------------------------------------------------------
(* Deletions *)

\* The rows that go: those of the tables, and what refers to them by CASCADE.
Taken(r, tables) ==
    LET reach[n \in 0..MaxDepth] ==
            IF n = 0 THEN tables \cap DOMAIN r
            ELSE LET gone == reach[n - 1]
                 IN  gone \cup {t \in DOMAIN r \ gone : \E ref \in schema.refs[t] :
                         ref.on = "cascade" /\ ref.to \in gone /\ Refers(r, t, ref)}
    IN  reach[MaxDepth]

\* The references of a row to what goes.
Hit(r, table, taken) == {ref \in schema.refs[table] : ref.to \in taken /\ Refers(r, table, ref)}

\* RESTRICT refuses, and so does a column that may not be null.
Refused(r, tables) ==
    LET taken == Taken(r, tables)
    IN  \E t \in DOMAIN r \ taken : \E ref \in Hit(r, t, taken) :
            ref.on = "restrict" \/ ~(ref.nulls \subseteq NullableColumns(schema, t))

Without(r, tables) ==
    LET taken == Taken(r, tables)
    IN  [t \in DOMAIN r \ taken |-> r[t] \ UNION {ref.nulls : ref \in Hit(r, t, taken)}]

\* delete_connection: the bindings to it first, in a statement of their own.
OwnBindings == IF IsSet("model_role_bindings", "connection_id") THEN {"model_role_bindings"} ELSE {}

\* Its guard: no embedding profile, whatever its status.
MayDeleteConnection ==
    /\ Present("model_connections")
    /\ ~IsSet("embedding_profiles", "model_connection_id")

\* What a request deletes: by name, if the service lets it, from which rows.
Deletion(allowed, from, tables) == [allowed |-> allowed, from |-> from, tables |-> tables]

DeleteConnection ==
    Deletion(MayDeleteConnection, Without(rows, OwnBindings), {"model_connections"})
UnbindRole == Deletion(Present("model_role_bindings"), rows, {"model_role_bindings"})
DeleteResume == Deletion(Present("resumes"), rows, {"resumes"})
DeleteMemory == Deletion(Present("memory_items"), rows, {"memory_items"})

\* forget_session: the memory's sources and usages, then the memory itself.
ForgetSession ==
    Deletion(Present("memory_sources"), Without(rows, {"memory_sources", "memory_usages"}),
             {"memory_items"})

DeleteRun ==
    Deletion(Present("question_discovery_runs"), rows, {"question_discovery_runs"})

Deletions ==
    {DeleteConnection, UnbindRole, DeleteResume, DeleteMemory, ForgetSession, DeleteRun}

Delete(d) ==
    /\ revision = HeadRevision
    /\ d.allowed
    /\ ~Refused(d.from, d.tables)
    /\ rows' = Without(d.from, d.tables)
    /\ UNCHANGED <<revision, schema>>

-----------------------------------------------------------------------------

Next ==
    \/ \E to \in Neighbours : Migrate(to)
    \/ Seed
    \/ SaveConnection
    \/ BindRole
    \/ UploadResume
    \/ WriteQuestion
    \/ GeneratePlan
    \/ Interview
    \/ Evaluate
    \/ Remember
    \/ Discover
    \/ ImportCandidate
    \/ BuildIndex
    \/ \E d \in Deletions : Delete(d)

Spec == Init /\ [][Next]_vars

-----------------------------------------------------------------------------
(***************************************************************************)
(* Properties                                                              *)
(***************************************************************************)

SchemaAt[n \in 0..HeadRevision] ==
    IF n = 0 THEN Empty ELSE Ran(SchemaAt[n - 1], << >>, Upgrades[n]).schema

\* Up and down again is where one was: the schema depends on the revision only,
\* not on the way the database came to it, and that of the head revision is the
\* one the ORM classes declare.
SchemaMatchesRevision ==
    /\ schema = SchemaAt[revision]
    /\ revision = HeadRevision => schema.refs = Declared

\* Every migration runs on every database the application can have filled, in
\* both directions, except the one that would discard a local route.
MigrationsSucceed ==
    \A to \in Neighbours :
        Ran(schema, rows, Script(revision, to)).ok <=> ~(revision = 7 /\ to = 6 /\ LocalBinding)

\* No deletion that a service allows is refused by the database, and what it
\* leaves is consistent.
DeletionsSucceed ==
    revision = HeadRevision =>
        \A d \in Deletions : d.allowed => /\ ~Refused(d.from, d.tables)
                                          /\ Consistent(Without(d.from, d.tables))

\* Whatever the application has stored, the database refuses none of the statements
\* that its services and its migrations have checked to be allowed.
StatementsSucceed == MigrationsSucceed /\ DeletionsSucceed

\* What the application keeps for good: no deletion of something else reaches it.
Records ==
    {"interview_plans", "plan_questions", "interview_sessions", "interview_messages",
     "conversation_segments", "context_snapshots", "evaluation_reports", "practice_tasks",
     "questions", "question_discovery_imports", "embedding_profiles"}

RecordsOutliveDeletions ==
    [][revision' = revision => Records \cap DOMAIN rows \subseteq DOMAIN rows']_vars
=============================================================================
