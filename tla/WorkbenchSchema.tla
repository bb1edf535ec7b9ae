--------------------------- MODULE WorkbenchSchema ---------------------------
(* The migrations of the workbench database, in the order of their versions   *)
(* (scripts/workbench_schema.py, MIGRATIONS): of each its name, the tables,   *)
(* columns, indexes and triggers it creates, what must exist for it, and the  *)
(* rows it moves.  Column types and row contents are left out.                *)
EXTENDS Sequences

\* Tables are pairs <<table, "">>, columns <<table, column>>, the rest <<"", name>>.
\* A migration: what it creates, what must exist, which rows it moves.
M(name, creates, needs, moves) ==
    [name |-> name, creates |-> creates, needs |-> needs, moves |-> moves]
Columns(table, columns) == {<<table, column>> : column \in columns}
Creates(name, objects) == M(name, objects, {}, {})
AddsColumns(name, table, columns) ==
    M(name, Columns(table, columns), {<<table, "">>}, {})
Tables(names) == {<<name, "">> : name \in names}
Indexes(names) == {<<"", name>> : name \in names}

InitialSchema == <<
    Creates("initial workbench schema",
        Tables({"workspaces", "scans", "scan_progress", "scan_artifacts", "findings",
                "finding_occurrences", "finding_locations"})
        \cup Columns("scans", {"target_snapshot_digest"})
        \cup Indexes({"scans_one_running_per_workspace"}))>>

FindingManagement == <<
    AddsColumns("persist capability preflight summaries", "workspaces", {"capability_preflight_json"}),
    Creates("finding management schema",
        Tables({"finding_triage", "finding_remediation_attempts"})
        \cup Indexes({"finding_remediation_attempts_by_occurrence"})
        \cup Columns("finding_occurrences", {"details_json"})),
    AddsColumns("scan handoff delivery claims", "scans", {"handoff_claimed_at", "handoff_claim_token"}),
    AddsColumns("finding remediation action claims", "finding_remediation_attempts",
        {"pending_action_claimed_at", "pending_action_claim_token"}),
    Creates("thread-scoped workspaces",
        Columns("workspaces", {"thread_id"}) \cup Indexes({"workspaces_by_thread_and_updated_at"})),
    AddsColumns("remediation host delivery state", "finding_remediation_attempts",
        {"pending_action_delivered_at"}),
    AddsColumns("sealed manifest digests", "scans", {"seal_manifest_digest"}),
    AddsColumns("scan target filesystem identity", "scans", {"target_device", "target_inode"}),
    AddsColumns("scan cancellation state", "scans", {"canceled_at"})>>

DeepScanOwner == Columns("scans", {"deep_scan_owner_thread_id"})
DeepScanObjects ==
    Tables({"deep_scan_runs", "deep_scan_workers", "deep_scan_dedup_inputs"})
    \cup Indexes({"scans_one_running_deep_per_owner_target", "deep_scan_workers_completion_sequence",
                  "deep_scan_workers_by_scan_status"})
DeepScanOrchestration == <<
    M("deep scan orchestration state", DeepScanOwner \cup DeepScanObjects,
      Columns("workspaces", {"thread_id"}), {"owner"})>>

TriageAndDecisions == <<
    AddsColumns("scan continuation threads", "scans", {"continuation_thread_id"}),
    AddsColumns("scan scope file counts", "scan_progress", {"scope_file_count"}),
    Creates("imported triage results",
        Tables({"triage_results"}) \cup Indexes({"triage_results_by_updated_at"})),
    M("append-only finding decisions",
      Tables({"finding_decisions"}) \cup Indexes({"finding_decisions_by_occurrence"}),
      Tables({"finding_triage"}), {"decisions"})>>

TargetObjects == Tables({"security_targets"}) \cup Indexes({"scans_by_target"})
TargetColumns == Columns("workspaces", {"target_id"}) \cup Columns("scans", {"target_id"})
PhaseProgress == Columns("scan_progress", {"phase_items_total", "phase_items_completed", "phase_progress_unit"})
PreflightProgress ==
    Columns("scan_progress", {"preflight_issues_json", "preflight_checks_total", "preflight_checks_completed"})
Recipes == Columns("scans", {"recipe_json", "parent_scan_id"})
TargetsAndProgress == <<
    Creates("stable repository targets", TargetObjects \cup TargetColumns),
    AddsColumns("scan target summaries", "scans", {"target_summary"}),
    M("clear legacy delivered handoff claims", {},
      Columns("scans", {"handoff_claimed_at", "handoff_claim_token"}), {"claims"}),
    Creates("persist setup workspace preference", Tables({"setup_preferences"})),
    Creates("phase-specific scan progress", PhaseProgress),
    Creates("current scan preflight state", PreflightProgress),
    Creates("replayable scan launch recipes", Recipes),
    Creates("semantic scan comparison matches",
        Tables({"scan_comparisons", "scan_comparison_matches"})
        \cup Indexes({"scan_comparison_matches_by_before_occurrence",
                      "scan_comparison_matches_by_after_occurrence"})),
    AddsColumns("persist scan cost estimates", "scans", {"cost_json"})>>

ModelSettings == Columns("scans", {"model", "reasoning_effort"})
Warnings == Columns("scans", {"completion_warnings_json"})
FailureThreshold == Columns("deep_scan_runs", {"stop_after_consecutive_errors"})
FailureStreak == Columns("deep_scan_runs", {"consecutive_errors"})
TimeLimit == Columns("deep_scan_runs", {"max_time_hours"})
SourceDigests == Columns("scans", {"retained_source_digests_json"})
PublicationFailure == Columns("deep_scan_runs", {"publication_error_message"})
SettingsAndPublications == <<
    Creates("persist scan model settings", ModelSettings),
    Creates("persist scan completion warnings", Warnings),
    M("persist deep scan consecutive discovery failures", FailureThreshold \cup FailureStreak,
      Tables({"deep_scan_runs"}), {"threshold"}),
    M("persist deep scan discovery time limit", TimeLimit, Tables({"deep_scan_runs"}), {}),
    Creates("persist finding publication associations",
        Tables({"finding_publications"})
        \cup Indexes({"finding_publications_by_scan", "finding_publications_by_finding"})),
    M("preserve team-only finding publication associations",
      Indexes({"finding_publications_team_only_occurrence", "finding_publications_team_only_external_issue"}),
      Tables({"finding_publications"}), {}),
    Creates("freeze stopped scan source digests", SourceDigests),
    M("separate deep scan publication failures", PublicationFailure, Tables({"deep_scan_runs"}), {})>>

ComparisonIndexes == Indexes({"finding_occurrences_by_finding", "scan_comparisons_by_after_scan"})
FindingsWorkflows == <<
    M("store complete findings and embeddings without a scan",
      Columns("findings", {"details_json"}) \cup Tables({"finding_embeddings"})
      \cup Indexes({"invalidate_finding_embedding"}),
      Columns("finding_occurrences", {"details_json"}), {"details"}),
    M("associate findings with repositories", Tables({"finding_repositories"}),
      Columns("scans", {"target_id"}), {"repositories"}),
    Creates("persist finding dedupe groups",
        Tables({"finding_dedupe_groups", "finding_dedupe_group_members"})
        \cup Indexes({"finding_dedupe_groups_by_finding"})),
    Creates("persist local findings workflows", Tables({"finding_workflows"})),
    M("checkpoint validated dedupe reviews", Tables({"finding_workflow_reviews"}),
      Tables({"finding_workflows"}), {}),
    M("store findings workflow metadata in columns",
      Columns("finding_workflows",
        {"results_json", "repository_path", "scan_request_digest", "scan_id", "scan_dir", "artifact_digest",
         "destination", "scope_repository_id", "scope_all_repositories", "scan_status", "scan_error",
         "publish_status", "publish_error", "dedupe_status", "dedupe_error"}),
      Tables({"finding_workflows"}), {"workflows"}),
    M("store dedupe checkpoint bindings in columns",
      Columns("finding_workflow_reviews",
        {"prompt_digest", "review_contract_version", "codex_version", "source_repository_path",
         "source_revision", "source_refs_digest", "source_content_digest", "scope_repository_id",
         "scope_all_repositories", "model", "effort", "settings_digest", "contract_digest"}),
      Tables({"finding_workflow_reviews"}), {"reviews"}),
    M("index finding identity and comparison history", ComparisonIndexes,
      Tables({"scan_comparisons"}), {})>>

Migrations ==
    InitialSchema \o FindingManagement \o DeepScanOrchestration \o TriageAndDecisions
    \o TargetsAndProgress \o SettingsAndPublications \o FindingsWorkflows
==============================================================================
