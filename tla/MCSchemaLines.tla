---------------------------- MODULE MCSchemaLines ----------------------------
(* The databases that releases left behind, for TLC: the line of today cut    *)
(* off after each version, and the lines that the migration tests build       *)
(* (tests/test_workbench_setup_and_migrations.py), each cut off after every   *)
(* version that it can have ended at.                                         *)
EXTENDS Naturals, TLC, WorkbenchSchema

MainLine ==
    [own |-> <<>>, last |-> 0, extra |-> {}, lacks |-> {}, unmoved |-> {}, never |-> {"models"}, supported |-> TRUE]
\* A line with migrations of its own that ended at any of the versions.  When it ended
\* before targets were stored, the findings of its scans get no repository.
Own(own, first, last) ==
    {[MainLine EXCEPT !.own = own, !.last = n, !.never = @ \cup (IF n < 16 THEN {"repositories"} ELSE {})] :
        n \in first..last}
Lacking(lines, objects, unmoved) == {[l EXCEPT !.lacks = objects, !.unmoved = unmoved] : l \in lines}
Unsupported(lines) == {[l EXCEPT !.supported = FALSE] : l \in lines}
With(lines, objects) == {[l EXCEPT !.extra = @ \cup objects] : l \in lines}

Entry(name) == Creates(name, {})
Skipped == Entry("")
Shadowing(v, names, first, last) == UNION {Own(v :> Entry(name), first, last) : name \in names}

ShadowLines ==
    Shadowing(2, {"add MCP-managed staging directories", "scoped scan artifact persistence"}, 2, 40)
    \cup Own((2 :> Entry("thread-scoped workspaces")) @@ (6 :> Skipped), 2, 10)
    \cup Own((11 :> Creates("background Codex scan workers", Tables({"scan_workers"})))
             @@ (12 :> Creates("managed repositories and local automations", Tables({"local_automations"}))), 11, 12)
    \cup Own(11 :> Creates("stable scan target identities", Columns("scans", {"target_id"})), 11, 15)
    \cup Shadowing(13, {"linear scan phase enforcement"}, 13, 24)
    \cup Shadowing(18, {"scan target summaries"}, 18, 24)
    \cup Shadowing(19, {"structured scan guidance context", "idempotent scan lifecycle requests"}, 19, 24)
    \cup Shadowing(20, {"retain superseded scan lifecycle requests", "threat model publication receipts"}, 20, 24)
    \cup Shadowing(21, {"scan progress projection and activity", "deep coordinator manifest receipts"}, 21, 24)
    \cup Shadowing(22, {"dynamic scan execution profiles"}, 22, 24)
    \cup Shadowing(26, {"recoverable scan attention"}, 26, 28)
    \cup Shadowing(27, {"durable deep scan coordinator ownership", "repair deep scan orchestration state"}, 27, 32)
    \cup Shadowing(28, {"persist deep scan discovery time limit"}, 28, 32)

Phase == Creates("phase-specific scan progress", PhaseProgress)
Warn == Creates("persist scan completion warnings", Warnings)
Freeze == Creates("freeze stopped scan source digests", SourceDigests)
Separate == Creates("separate deep scan publication failures", PublicationFailure)
RenumberedLines ==
    Own((12 :> Phase) @@ (13 :> Creates("current scan preflight state", PreflightProgress)), 12, 13)
    \cup Own(25 :> Warn, 25, 25)
    \cup Own((29 :> Freeze) @@ (30 :> Separate), 30, 30)
    \cup Own(33 :> Creates("index finding identity and comparison history", ComparisonIndexes), 33, 33)
    \cup Own((2 :> FindingManagement[2]) @@ (3 :> FindingManagement[3]) @@ (4 :> FindingManagement[4])
             @@ (5 :> Entry("scan target snapshot digests")), 2, 40)

\* Recorded, and since then dropped.
OwnerIndex == Indexes({"scans_one_running_deep_per_owner_target"})
WorkerIndex == Indexes({"deep_scan_workers_by_scan_status"})
BrokenLines ==
    Lacking(Own(<<>>, 26, 26), DeepScanObjects \cup DeepScanOwner, {"owner"})
    \cup Lacking(Own(<<>>, 26, 26), DeepScanOwner \cup OwnerIndex, {"owner"})
    \cup Lacking(Own(<<>>, 26, 28), WorkerIndex, {})

Static == Entry("scan execution profiles")
Dynamic == Entry("dynamic scan execution profiles")
Continue == Creates("scan continuation threads", Columns("scans", {"continuation_thread_id"}))
ProfileColumns ==
    UNION {Columns(table, {"execution_model", "reasoning_effort"}) : table \in {"scans", "workspaces"}}
Model == Columns("scans", {"model"})
ProfileHistories ==
    Own(11 :> Static, 11, 24) \cup Own(12 :> Static, 12, 24) \cup Own(12 :> Dynamic, 12, 24)
    \cup Own(22 :> Dynamic, 22, 24) \cup Own(25 :> Dynamic, 25, 25)
    \cup Own((11 :> Static) @@ (12 :> Dynamic), 12, 12)
    \cup Own((11 :> Static) @@ (12 :> Continue), 12, 12)
    \cup Own((11 :> Static) @@ (12 :> Phase), 12, 12)
    \cup With(Own(13 :> Dynamic, 13, 24), Model)
    \cup With(Own((25 :> Entry("persist scan model settings")) @@ (26 :> Warn), 26, 26), Model)
ProfileLines == {[l EXCEPT !.never = @ \ {"models"}] : l \in With(ProfileHistories, ProfileColumns)}

Lines ==
    Own(<<>>, 0, 40)
    \cup ShadowLines \cup RenumberedLines \cup BrokenLines \cup ProfileLines
    \cup Unsupported(Own(29 :> Freeze, 29, 29)
                     \cup With(Own(11 :> Entry("unknown execution profile migration"), 11, 12), ProfileColumns))
=============================================================================
