------------------------------- MODULE Models --------------------------------
(***************************************************************************)
(* The tables and references that the ORM classes of app/db/models declare *)
(* and the services rely on.  The migrations are written apart from them:  *)
(* the head revision of Schema has to come to the same.                    *)
(***************************************************************************)
EXTENDS Schema

Declares(table, refs) == table :> refs

-----------------------------------------------------------------------------

ProfileModel == Declares("user_profiles", {})
WorkerModel == Declares("worker_heartbeats", {})
JobModel == Declares("background_jobs", {Optional(Owner)})

CompanyModels ==
    Declares("companies", {Optional(Owner)})
    @@ Declares("company_style_packs", {Cascades("company_id", "companies")})
    @@ [t \in {"round_profiles", "evidence_items"} |->
            {Cascades("style_pack_id", "company_style_packs")}]

ConnectionModels ==
    Declares("model_connections", {Owner})
    @@ Declares("model_role_bindings",
                {Owner, Optional(Restricts("connection_id", "model_connections"))})

ResumeModels ==
    Declares("resumes", {Owner})
    @@ Declares("resume_sections", {Cascades("resume_id", "resumes")})
    @@ Declares("resume_claims", {Cascades("resume_id", "resumes"),
                                  Nulls("section_id", "resume_sections")})

QuestionModels ==
    Declares("question_banks", {Owner})
    @@ Declares("questions", {Cascades("bank_id", "question_banks")})
    @@ Declares("question_variants", {Cascades("question_id", "questions")})
    @@ Declares("question_tags", {})
    @@ Declares("question_tag_links", {Cascades("question_id", "questions"),
                                       Cascades("tag_id", "question_tags")})

PlanModels ==
    Declares("interview_configs", {Owner, Restricts("company_id", "companies"),
                                   Restricts("round_profile_id", "round_profiles"),
                                   Nulls("resume_id", "resumes"),
                                   Nulls("practice_task_id", "practice_tasks")})
    @@ Declares("interview_plans", {Restricts("config_id", "interview_configs"),
                                    Restricts("style_pack_id", "company_style_packs")})
    @@ Declares("plan_questions", {Cascades("plan_id", "interview_plans"),
                                   Optional(Restricts("question_id", "questions"))})

SessionModels ==
    Declares("interview_sessions", {Owner, Restricts("plan_id", "interview_plans")})
    @@ Declares("interview_messages", {OfSession, Nulls("plan_question_id", "plan_questions"),
                                       Nulls("segment_id", "conversation_segments")})
    @@ Declares("interview_realtime_events", {OfSession})
    @@ Declares("answer_attachments", {Cascades("message_id", "interview_messages")})

ContextModels ==
    Declares("interview_context_states",
             {OfSession, Nulls("current_plan_question_id", "plan_questions")})
    @@ Declares("conversation_segments",
                {OfSession, Nulls("plan_question_id", "plan_questions")})
    @@ Declares("context_summaries",
                {Cascades("segment_id", "conversation_segments"),
                 Nulls("summarizer_model_connection_id", "model_connections")})
    @@ Declares("summary_bundles", {OfSession})
    @@ Declares("context_snapshots",
                {OfSession, Nulls("model_connection_id", "model_connections")})

ReportModels ==
    Declares("evaluation_reports",
             {OfSession, Nulls("evaluator_model_connection_id", "model_connections")})
    @@ Declares("question_evaluations", {Cascades("report_id", "evaluation_reports"),
                                         Restricts("plan_question_id", "plan_questions")})
    @@ Declares("dimension_evaluations", {Cascades("report_id", "evaluation_reports")})

PracticeModel ==
    Declares("practice_tasks", {Owner, Cascades("source_report_id", "evaluation_reports"),
                                Nulls("last_session_id", "interview_sessions")})

MemoryModels ==
    Declares("memory_items", {Owner})
    @@ Declares("memory_sources", {Cascades("memory_id", "memory_items"), Optional(OfSession),
                                   Optional(Cascades("message_id", "interview_messages"))})
    @@ Declares("memory_conflicts", {Cascades("memory_id", "memory_items"),
                                     Cascades("conflicting_memory_id", "memory_items")})
    @@ Declares("memory_usages", {Cascades("memory_id", "memory_items"), OfSession,
                                  Nulls("context_snapshot_id", "context_snapshots")})

-----------------------------------------------------------------------------
(* Discovery and vectors: composite keys *)

DiscoveryRunModels ==
    Declares("discovery_connectors", {Owner})
    @@ Declares("question_discovery_runs",
                {Owner, ByKey(Restricts("connector_id", "discovery_connectors"), "profile")})

DiscoveryResultModels ==
    Declares("question_discovery_sources", {Owner, OfRun})
    @@ Declares("question_discovery_candidates",
                {Owner, OfRun, Nulls("researcher_connection_id", "model_connections")})

DiscoveryEvidenceModel ==
    Declares("question_discovery_candidate_evidence",
             {Owner, OfRun,
              ByKey(Cascades("candidate_id", "question_discovery_candidates"), "run"),
              ByKey(Cascades("source_id", "question_discovery_sources"), "run")})

DiscoveryImportModels ==
    Declares("question_discovery_imports",
             {Owner, Restricts("bank_id", "question_banks"), Nulls("question_id", "questions"),
              ByKey(Nulls("candidate_id", "question_discovery_candidates"), "profile")})
    @@ Declares("question_source_provenance",
                {Owner, Cascades("question_id", "questions"),
                 ByKey(Nulls("discovery_run_id", "question_discovery_runs"), "profile"),
                 ByKey(Nulls("candidate_id", "question_discovery_candidates"), "profile"),
                 ByKey(Nulls("candidate_id", "question_discovery_candidates"), "run")})

EmbeddedBy == ByKey(Cascades("embedding_profile_id", "embedding_profiles"), "profile")

EmbeddingModels ==
    Declares("embedding_profiles",
             {Owner, Optional(Restricts("model_connection_id", "model_connections"))})
    @@ Declares("memory_embeddings",
                {Nulls("company_id", "companies"), EmbeddedBy,
                 ByKey(Cascades("memory_id", "memory_items"), "profile")})

QuestionVectorModel ==
    Declares("plan_question_embeddings",
             {Restricts("company_id", "companies"), EmbeddedBy,
              ByKey(Cascades("plan_question_id", "plan_questions"), "plan")})

Declared ==
    ProfileModel @@ WorkerModel @@ JobModel @@ CompanyModels @@ ConnectionModels @@ ResumeModels
    @@ QuestionModels @@ PlanModels @@ SessionModels @@ ContextModels @@ ReportModels
    @@ PracticeModel @@ MemoryModels @@ DiscoveryRunModels @@ DiscoveryResultModels
    @@ DiscoveryEvidenceModel @@ DiscoveryImportModels @@ EmbeddingModels @@ QuestionVectorModel
=============================================================================
