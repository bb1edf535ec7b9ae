---------------------------- MODULE ScanLifecycle ----------------------------
(***************************************************************************)
(* How one scan ends and what becomes of its results: complete-scan,         *)
(* prepare-scan-completion, complete-budget-exhausted-scan, fail-scan,       *)
(* cancel-scan, fail-deep-scan, write-scan-draft, preserve-scan-results and  *)
(* recover-scan-results (workbench_db.py, workbench_saved_results.py,        *)
(* finalize_scan_contract.py, deep_scan_workbench.py).                       *)
(*                                                                           *)
(* Each of these commands holds the completion lock of its scan and works in *)
(* several steps: transactions of the database between writes of files, each *)
(* file replaced atomically.  op is the command that holds the lock and how  *)
(* far it is.  Handoff commands, Deep Scan commands, workers and agents do   *)
(* not take the lock and come between any two steps.  A process may die at   *)
(* any step; the operating system then releases the lock.                    *)
(*                                                                           *)
(* A finding is a value.  findings.json is the set of its findings,          *)
(* coverage.json says who wrote it, the manifest seals both by their         *)
(* contents.  A digest stands for what it was taken of.                      *)
(***************************************************************************)
EXTENDS ScanHandoff, Sequences, FiniteSets

CONSTANTS
    Finding,
    Worker,             \* discovery workers of a Deep Scan, which save results
    MaxCrashes,         \* bound of the model: deaths of a process that holds the lock
    Incidents           \* which of "disk" (a write fails), "invalid" (documents that
                        \* do not validate), "restart" may befall the commands

ASSUME LifecycleAssumption ==
    /\ MaxCrashes \in Nat
    /\ Incidents \subseteq {"disk", "invalid", "restart"}
    /\ "root" \notin Worker

VARIABLES
    scanStatus,         \* scans.status
    canceled,           \* canceled_at IS NOT NULL
    sealDigest,         \* seal_manifest_digest: the manifest it was taken of
    frozen,             \* retained_source_digests_json: a set of sources
    followUp,           \* completion_warnings_json says publication needs follow-up
    indexed,            \* finding_occurrences of the scan
    runStatus,          \* deep_scan_runs.status; "succeeded" with its manifest
    publicationError,   \* deep_scan_runs.publication_error_message IS NOT NULL
    findingsFile,       \* findings.json
    coverageFile,       \* coverage.json
    manifestFile,       \* scan-manifest.json
    checkpoints,        \* checkpoints/<digest>.json: sets of findings
    workerResult,       \* result.json of each worker; {} is no result
    op,                 \* the command that holds the completion lock
    evidence,           \* history: the findings on disk when the scan stopped
    crashes

rowVars == <<scanStatus, canceled, sealDigest, frozen, followUp, indexed>>
runVars == <<runStatus, publicationError>>
fileVars == <<findingsFile, coverageFile, manifestFile, checkpoints, workerResult>>
vars == <<handoffVars, rowVars, runVars, fileVars, op, evidence, crashes>>

Source == [owner : Worker \cup {"root"}, findings : SUBSET Finding]
Outcome == {"failed", "canceled", "interrupted"}

Draft(complete) ==
    [kind |-> "draft", complete |-> complete, status |-> "none",
     sources |-> {}, findings |-> {}, coverage |-> "draft"]

\* scan.artifacts of a sealed manifest records the contents of both documents.
Sealed(status, sources, findings) ==
    [kind |-> "sealed", complete |-> TRUE, status |-> status,
     sources |-> sources, findings |-> findings, coverage |-> status]

Manifest ==
    {Draft(b) : b \in BOOLEAN}
    \cup [kind : {"sealed"}, complete : {TRUE}, status : Outcome \cup {"completed"},
          sources : SUBSET Source, findings : SUBSET Finding,
          coverage : Outcome \cup {"completed"}]

\* NULL, or a document that is not there, is no value of a column and no contents.
ASSUME NullAssumption ==
    /\ None \notin Outcome \cup {"draft", "completed"}
    /\ \A findings \in SUBSET Finding : findings # None
    /\ \A sources \in SUBSET Source : sources # None
    /\ \A manifest \in Manifest : manifest # None

NoOp == [cmd |-> "none", pc |-> "idle", by |-> None, queue |-> <<>>, doc |-> None]
Idle == op.pc = "idle"

Command == {"none", "draft", "complete", "prepare", "budget", "fail", "cancel", "failDeep",
            "preserve", "recover"}
Step == {"idle", "write", "merge", "commit", "stop", "preserve", "freeze", "publish",
         "record", "restore", "warn", "clear"}

TypeOK ==
    /\ HandoffTypeOK
    /\ scanStatus \in {"running", "failed", "complete"}
    /\ canceled \in BOOLEAN /\ followUp \in BOOLEAN /\ publicationError \in BOOLEAN
    /\ sealDigest # None => sealDigest.kind = "sealed"
    /\ frozen # None => frozen \subseteq Source
    /\ indexed \subseteq Finding
    /\ runStatus \in {"none", "running", "succeeded", "failed", "canceled", "interrupted"}
    /\ findingsFile # None => findingsFile \subseteq Finding
    /\ coverageFile \in Outcome \cup {None, "draft", "completed"}
    /\ manifestFile # None => manifestFile.kind \in {"draft", "sealed"}
    /\ checkpoints \subseteq SUBSET Finding
    /\ workerResult \in [Worker -> SUBSET Finding]
    /\ op.cmd \in Command /\ op.pc \in Step
    /\ evidence \subseteq Finding
    /\ crashes \in 0 .. MaxCrashes

LifecycleInit ==
    /\ HandoffInit
    /\ scanStatus = "running" /\ canceled = FALSE
    /\ sealDigest = None /\ frozen = None /\ followUp = FALSE /\ indexed = {}
    /\ runStatus = "none" /\ publicationError = FALSE
    /\ findingsFile = None /\ coverageFile = None /\ manifestFile = None
    /\ checkpoints = {} /\ workerResult = [w \in Worker |-> {}]
    /\ op = NoOp /\ evidence = {} /\ crashes = 0

-----------------------------------------------------------------------------
(* Reading what is on disk. *)

\* A plausible mistake: any manifest counts as sealed.
BugIsSealed == manifestFile # None

IsSealed == manifestFile # None /\ manifestFile.kind = "sealed"

\* _validate_existing_seal
SealHolds == IsSealed /\ manifestFile.findings = findingsFile
                      /\ manifestFile.coverage = coverageFile

\* require_recorded_manifest_digest
DigestMatches == sealDigest = None \/ sealDigest = manifestFile

\* _read_saved_parent_result
ParentReadable == manifestFile # None /\ findingsFile # None /\ coverageFile # None

\* _saved_result_paths with their digests, as merge_saved_results reads them.
SourcesIn(roots) ==
    {[owner |-> "root", findings |-> s] : s \in roots}
    \cup {[owner |-> w, findings |-> workerResult[w]] :
            w \in {v \in Worker : workerResult[v] # {}}}
OnDisk == SourcesIn(checkpoints)

FindingsOf(sources) == UNION {s.findings : s \in sources}

EvidenceOnDisk ==
    FindingsOf(OnDisk) \cup (IF ParentReadable THEN findingsFile ELSE {})

\* preserve_scan_results_locked: why the scan stopped.
StopOutcome ==
    IF canceled THEN "canceled"
    ELSE IF runStatus = "interrupted" THEN "interrupted" ELSE "failed"

\* require_deep_scan_ready_for_parent_completion
DeepScanReady == mode = "deep" => runStatus = "succeeded"

\* _saved_results_changed
SavedResultsChanged ==
    IF manifestFile = None
    THEN IF frozen # None THEN frozen # {} ELSE OnDisk # {}
    ELSE IF sealDigest = None THEN ParentReadable \/ OnDisk # {}
    ELSE ~(OnDisk \subseteq manifestFile.sources)

\* scan_results_recovery_needed
RecoveryNeeded ==
    /\ scanStatus = "failed" /\ ~canceled
    /\ followUp \/ publicationError \/ SavedResultsChanged

\* _recovery_source_digests: what is published or frozen, and whether the parent
\* draft is to be read again.
PublishedSources == IF IsSealed THEN manifestFile.sources ELSE {}
RecoveryIncludesParent == IF IsSealed THEN PublishedSources = {} ELSE frozen = None
RecoveryBase ==
    IF PublishedSources # {} THEN PublishedSources ELSE IF frozen # None THEN frozen ELSE {}
RecoveryPossible ==
    /\ PublishedSources # {} /\ frozen # None => frozen = PublishedSources
    /\ RecoveryBase \subseteq OnDisk
RecoverySources == RecoveryBase \cup OnDisk

-----------------------------------------------------------------------------
(* Steps that every command shares. *)

Files == <<findingsFile, coverageFile, manifestFile>>
ThreeFiles(findings, coverage, manifest) ==
    << <<"findings", findings>>, <<"coverage", coverage>>, <<"manifest", manifest>> >>

Acquire(cmd, by, pc) == Idle /\ op' = [NoOp EXCEPT !.cmd = cmd, !.by = by, !.pc = pc]
Goto(pc) == op' = [op EXCEPT !.pc = pc]
Release == op' = NoOp
WriteThenGoto(pc, queue, doc) == op' = [op EXCEPT !.pc = pc, !.queue = queue, !.doc = doc]

\* What to do when the files of this command are written.
AfterWriting ==
    CASE op.cmd = "draft" -> "idle"
      [] op.cmd = "budget" -> "merge"
      [] op.cmd \in {"complete", "prepare"} -> "commit"
      [] op.pc = "publish" -> "record"
      [] op.pc = "restore" -> "warn"

\* write_scan_local_bytes: one file, replaced atomically.  "None" removes it.
\* The last write of a draft ends the command.
WriteFile ==
    /\ op.pc \in {"write", "publish", "restore"} /\ op.queue # <<>>
    /\ LET file == Head(op.queue)[1]
           contents == Head(op.queue)[2]
       IN /\ findingsFile' = IF file = "findings" THEN contents ELSE findingsFile
          /\ coverageFile' = IF file = "coverage" THEN contents ELSE coverageFile
          /\ manifestFile' = IF file = "manifest" THEN contents ELSE manifestFile
    /\ op' = IF Len(op.queue) > 1 THEN [op EXCEPT !.queue = Tail(@)]
             ELSE IF AfterWriting = "idle" THEN NoOp
             ELSE [op EXCEPT !.queue = <<>>, !.pc = AfterWriting,
                             !.cmd = IF @ = "budget" THEN "complete" ELSE @]
    /\ UNCHANGED <<handoffVars, rowVars, runVars, checkpoints, workerResult, evidence, crashes>>

\* A write fails: a draft or a budget draft is abandoned, a completion fails the
\* scan, a publication puts the files back it had read before.
WriteFails ==
    /\ "disk" \in Incidents
    /\ op.pc \in {"write", "publish"} /\ op.queue # <<>>
    /\ \/ op.cmd \in {"draft", "budget"} /\ Release
       \/ op.cmd \in {"complete", "prepare"} /\ op.pc = "write" /\ Goto("stop")
       \/ op.pc = "publish" /\ WriteThenGoto("restore", op.doc, None)
    /\ UNCHANGED <<handoffVars, rowVars, runVars, fileVars, evidence, crashes>>

\* The process dies.  What is on disk and in the database stays.
Crash ==
    /\ "restart" \in Incidents /\ ~Idle /\ crashes < MaxCrashes
    /\ crashes' = crashes + 1 /\ Release
    /\ UNCHANGED <<handoffVars, rowVars, runVars, fileVars, evidence>>

-----------------------------------------------------------------------------
(* Drafts. *)

\* A plausible mistake: a scan that is sealed, or no longer runs, still takes drafts.
BugWriteScanDraft(t, findings, complete, keep) ==
    /\ CurrentContinuation(t)
    /\ Idle
    /\ checkpoints' = IF keep THEN checkpoints \cup {findings} ELSE checkpoints
    /\ \/ op' = NoOp
       \/ op' = [NoOp EXCEPT !.cmd = "draft", !.by = t, !.pc = "write",
                   !.queue = ThreeFiles(findings, "draft", Draft(complete))]
    /\ UNCHANGED <<handoffVars, rowVars, runVars, findingsFile, coverageFile, manifestFile,
                   workerResult, evidence, crashes>>

\* write_scan_draft: the staged checkpoint is kept even if the draft conflicts with
\* the digest its author expected, or does not validate; then nothing else is written.
WriteScanDraft(t, findings, complete, keep) ==
    /\ CurrentContinuation(t)
    /\ scanStatus = "running" /\ sealDigest = None
    /\ Idle
    /\ checkpoints' = IF keep THEN checkpoints \cup {findings} ELSE checkpoints
    /\ \/ op' = NoOp
       \/ op' = [NoOp EXCEPT !.cmd = "draft", !.by = t, !.pc = "write",
                   !.queue = ThreeFiles(findings, "draft", Draft(complete))]
    /\ UNCHANGED <<handoffVars, rowVars, runVars, findingsFile, coverageFile, manifestFile,
                   workerResult, evidence, crashes>>

\* A worker saves what it has found.  Nothing stops it at once when the scan stops.
WorkerSaves(w, findings) ==
    /\ mode = "deep" /\ runStatus # "none"
    /\ workerResult[w] \subseteq findings /\ workerResult[w] # findings
    /\ workerResult' = [workerResult EXCEPT ![w] = findings]
    /\ UNCHANGED <<handoffVars, rowVars, runVars, findingsFile, coverageFile, manifestFile,
                   checkpoints, op, evidence, crashes>>

-----------------------------------------------------------------------------
(* Completing a scan. *)

\* complete_scan_locked up to the merge.  A scan that is complete is verified again
\* and its reports are rewritten, which changes nothing here.
CompleteScan(t, prepareOnly) ==
    /\ scanStatus = "running"
    /\ CurrentContinuation(t)
    /\ DeepScanReady
    /\ manifestFile # None => manifestFile.complete
    /\ origin = "cli" => manifestFile # None /\ findingsFile # None /\ coverageFile # None
    /\ Acquire(IF prepareOnly THEN "prepare" ELSE "complete", t, "merge")
    /\ UNCHANGED <<handoffVars, rowVars, runVars, fileVars, evidence, crashes>>

\* complete_budget_exhausted_scan: the draft it finds, or an empty one, is written
\* with partial coverage.  Whether the cost limit was exceeded is the caller's.
CompleteBudgetExhaustedScan ==
    /\ scanStatus = "running" /\ origin = "cli" /\ mode = "deep"
    /\ runStatus = "succeeded"
    /\ ~IsSealed
    /\ \/ manifestFile # None /\ findingsFile # None /\ coverageFile # None
       \/ manifestFile = None /\ findingsFile = None /\ coverageFile = None
    /\ Idle
    /\ op' = [NoOp EXCEPT !.cmd = "budget", !.pc = "write",
                !.queue = ThreeFiles(IF findingsFile = None THEN {} ELSE findingsFile, "draft",
                                     IF manifestFile = None THEN Draft(TRUE) ELSE manifestFile)]
    /\ UNCHANGED <<handoffVars, rowVars, runVars, fileVars, evidence, crashes>>

\* A ContractError before anything was written: a Deep Scan fails, unless the error
\* is recoverable; any other scan may be completed again.
CannotPrepare ==
    \/ Release
    \/ mode = "deep" /\ Goto("stop")

\* merge_saved_results and _prepare_scan_finalization.  A manifest that is already
\* sealed is verified and kept; a draft is first saved as a checkpoint, then joined
\* with the current result of each worker.  Earlier checkpoints are superseded by the
\* draft, but named among its sources.
MergeForCompletion ==
    /\ op.cmd \in {"complete", "prepare"} /\ op.pc = "merge"
    /\ \/ /\ IsSealed /\ SealHolds
          /\ WriteThenGoto("commit", <<>>, None)
          /\ UNCHANGED checkpoints
       \/ /\ ~IsSealed /\ ParentReadable
          /\ checkpoints' = checkpoints \cup {findingsFile}
          /\ LET findings == findingsFile \cup UNION {workerResult[w] : w \in Worker}
             IN WriteThenGoto("write",
                  ThreeFiles(findings, "completed",
                             Sealed("completed", SourcesIn(checkpoints'), findings)), None)
       \/ /\ IF IsSealed THEN ~SealHolds ELSE "invalid" \in Incidents \/ ~ParentReadable
          /\ CannotPrepare
          /\ UNCHANGED checkpoints
    /\ UNCHANGED <<handoffVars, rowVars, runVars, findingsFile, coverageFile, manifestFile,
                   workerResult, evidence, crashes>>

\* The transaction at the end.  prepare-scan-completion leaves the scan running.
CommitCompletion ==
    /\ op.cmd \in {"complete", "prepare"} /\ op.pc = "commit"
    /\ IF op.cmd = "complete" /\ scanStatus = "running" /\ DeepScanReady
          /\ CurrentContinuation(op.by)
       THEN scanStatus' = "complete" /\ sealDigest' = manifestFile /\ indexed' = findingsFile
       ELSE UNCHANGED <<scanStatus, sealDigest, indexed>>
    /\ Release
    /\ UNCHANGED <<handoffVars, canceled, frozen, followUp, runVars, fileVars, evidence, crashes>>

-----------------------------------------------------------------------------
(* Stopping a scan.  The transaction that stops it is one step; publishing what *)
(* was saved are the steps after it, by the same command.                       *)

StopsScan ==
    /\ scanStatus' = "failed"
    /\ evidence' = EvidenceOnDisk
    /\ UNCHANGED <<handoffVars, sealDigest, frozen, followUp, indexed, publicationError,
                   fileVars, crashes>>

\* fail_scan_locked with fail_from_parent_scan; also called by a completion that
\* cannot go on ("stop").
FailScan(t) ==
    /\ scanStatus = "running" /\ CurrentContinuation(t)
    /\ Acquire("fail", t, "preserve")
    /\ runStatus' = IF runStatus = "running" THEN "failed" ELSE runStatus
    /\ StopsScan /\ UNCHANGED canceled

CompletionFailsScan ==
    /\ op.pc = "stop"
    /\ \/ /\ scanStatus = "running" /\ CurrentContinuation(op.by)
          /\ op' = [NoOp EXCEPT !.cmd = "fail", !.by = op.by, !.pc = "preserve"]
          /\ runStatus' = IF runStatus = "running" THEN "failed" ELSE runStatus
          /\ StopsScan /\ UNCHANGED canceled
       \/ /\ scanStatus # "running" \/ ~CurrentContinuation(op.by)
          /\ Release
          /\ UNCHANGED <<handoffVars, rowVars, runVars, fileVars, evidence, crashes>>

\* A plausible mistake: a scan that has ended can still be canceled.
BugCancelScan(thread) ==
    /\ thread = None \/ thread = OwningThread
    /\ ~canceled
    /\ Acquire("cancel", None, "preserve")
    /\ canceled' = TRUE
    /\ runStatus' = IF runStatus \in {"running", "succeeded"} THEN "canceled" ELSE runStatus
    /\ StopsScan

\* cancel_scan_locked with cancel_from_parent_scan, by the owning thread or from a
\* panel, which names no thread.
CancelScan(thread) ==
    /\ thread = None \/ thread = OwningThread
    /\ ~canceled /\ scanStatus = "running"
    /\ Acquire("cancel", None, "preserve")
    /\ canceled' = TRUE
    /\ runStatus' = IF runStatus \in {"running", "succeeded"} THEN "canceled" ELSE runStatus
    /\ StopsScan

\* fail_deep_scan_locked: the coordinator gives up, or was interrupted.
FailDeepScan(status) ==
    /\ runStatus = "running" /\ scanStatus = "running"
    /\ Acquire("failDeep", None, "preserve")
    /\ runStatus' = status
    /\ StopsScan /\ UNCHANGED canceled

\* begin_deep_scan_for_scan and finish_deep_scan, without the completion lock.
BeginDeepScan(t) ==
    /\ mode = "deep" /\ runStatus = "none" /\ scanStatus = "running"
    /\ CurrentContinuation(t)
    /\ runStatus' = "running"
    /\ UNCHANGED <<handoffVars, rowVars, publicationError, fileVars, op, evidence, crashes>>

FinishDeepScan ==
    /\ runStatus = "running" /\ scanStatus = "running"
    /\ runStatus' = "succeeded"
    /\ UNCHANGED <<handoffVars, rowVars, publicationError, fileVars, op, evidence, crashes>>

\* record_deep_scan_publication_failure
RecordPublicationFailure ==
    /\ Idle
    /\ runStatus \in {"failed", "canceled", "interrupted"} /\ scanStatus = "failed"
    /\ sealDigest = None
    /\ publicationError' = TRUE
    /\ UNCHANGED <<handoffVars, rowVars, runStatus, fileVars, op, evidence, crashes>>

-----------------------------------------------------------------------------
(* Publishing what a stopped scan saved: preserve_scan_results_locked. *)

\* preserve-scan-results: again, by its owner (a thread with the generation of the
\* coordinator, or the current continuation).
PreserveScanResults ==
    /\ scanStatus = "failed"
    /\ \E t \in Token \cup {None} : CurrentContinuation(t) \/ runStatus # "none"
    /\ Acquire("preserve", None, "preserve")
    /\ UNCHANGED <<handoffVars, rowVars, runVars, fileVars, evidence, crashes>>

\* recover-scan-results: what was saved after the stop may be added.
RecoverScanResults ==
    /\ scanStatus = "failed" /\ ~canceled
    /\ RecoveryPossible
    /\ Acquire("recover", None, "preserve")
    /\ UNCHANGED <<handoffVars, rowVars, runVars, fileVars, evidence, crashes>>

\* The sources the publication is limited to; None is no limit yet.
FrozenSources == IF op.cmd = "recover" THEN RecoverySources ELSE frozen
SealVerified == DigestMatches /\ SealHolds
SameOutcome == IsSealed /\ manifestFile.status = StopOutcome

\* The stop itself goes on with a warning; preserve and recover report the error.
PublicationFails ==
    IF op.cmd \in {"preserve", "recover"} THEN Release ELSE Goto("warn")

\* A manifest sealed for this outcome, of these sources: nothing to do but the row.
AlreadyPublished ==
    /\ op.pc = "preserve" /\ IsSealed /\ SealVerified /\ SameOutcome
    /\ manifestFile.sources = (IF FrozenSources = None THEN manifestFile.sources
                               ELSE FrozenSources)
    /\ IF frozen # None /\ sealDigest # None /\ ~followUp
       THEN Goto("clear") ELSE Goto("record")
    /\ UNCHANGED <<handoffVars, rowVars, runVars, fileVars, evidence, crashes>>

\* The saved files contradict their seal, the row or the frozen sources.
CannotVerify ==
    /\ op.pc = "preserve"
    /\ \/ IsSealed \/ sealDigest # None
    /\ \/ ~SealVerified
       \/ /\ SameOutcome /\ op.cmd # "recover"
          /\ frozen # None /\ manifestFile.sources # frozen
    /\ PublicationFails
    /\ UNCHANGED <<handoffVars, rowVars, runVars, fileVars, evidence, crashes>>

MayMerge ==
    \/ ~IsSealed /\ sealDigest = None
    \/ /\ SealVerified
       /\ SameOutcome => op.cmd = "recover" /\ manifestFile.sources # FrozenSources

\* A plausible mistake: only what was saved as a checkpoint counts.
BugParentIsRead == FALSE

\* The parent draft is read when nothing is frozen, or when a recovery asks for it.
ParentIsRead ==
    /\ ParentReadable
    /\ FrozenSources = None \/ (op.cmd = "recover" /\ RecoveryIncludesParent)

ParentIsSaved == ParentIsRead /\ (~IsSealed \/ (op.cmd = "recover" /\ RecoveryIncludesParent))

\* merge_saved_results for a stopped scan: the union of what was saved, limited to
\* the frozen sources, which must all be there unchanged.  Nothing saved is no error.
MergeStoppedResults ==
    /\ op.pc = "preserve" /\ MayMerge
    /\ LET roots == IF ParentIsSaved THEN checkpoints \cup {findingsFile} ELSE checkpoints
           saved == IF ParentIsSaved THEN {[owner |-> "root", findings |-> findingsFile]} ELSE {}
           limit == IF FrozenSources = None THEN SourcesIn(roots) ELSE FrozenSources \cup saved
           chosen == SourcesIn(roots) \cap limit
           named == chosen \cup (IF ParentIsRead THEN manifestFile.sources ELSE {})
           findings == FindingsOf(chosen) \cup (IF ParentIsRead THEN findingsFile ELSE {})
       IN /\ checkpoints' = roots
          /\ \/ /\ limit \subseteq chosen /\ (chosen # {} \/ ParentIsRead)
                /\ op' = [op EXCEPT !.pc = IF FrozenSources = None THEN "freeze" ELSE "publish",
                            !.queue = ThreeFiles(findings, StopOutcome,
                                                 Sealed(StopOutcome, named, findings)),
                            !.doc = ThreeFiles(findingsFile, coverageFile, manifestFile)]
             \/ limit \subseteq chosen /\ chosen = {} /\ ~ParentIsRead /\ Release
             \/ /\ ~(limit \subseteq chosen) \/ "invalid" \in Incidents
                /\ PublicationFails
    /\ UNCHANGED <<handoffVars, rowVars, runVars, findingsFile, coverageFile, manifestFile,
                   workerResult, evidence, crashes>>

\* The sources are frozen in a transaction of their own, before anything is written.
FreezeSources ==
    /\ op.pc = "freeze"
    /\ frozen' = op.queue[3][2].sources
    /\ Goto("publish")
    /\ UNCHANGED <<handoffVars, scanStatus, canceled, sealDigest, followUp, indexed, runVars,
                   fileVars, evidence, crashes>>

\* record_publication
RecordPublication ==
    /\ op.pc = "record"
    /\ sealDigest' = manifestFile /\ frozen' = manifestFile.sources
    /\ indexed' = findingsFile /\ followUp' = FALSE
    /\ Goto("clear")
    /\ UNCHANGED <<handoffVars, scanStatus, canceled, runVars, fileVars, evidence, crashes>>

\* clear_deep_scan_publication_failure, in a transaction after the publication.
ClearPublicationFailure ==
    /\ op.pc = "clear"
    /\ publicationError' = FALSE
    /\ Release
    /\ UNCHANGED <<handoffVars, rowVars, runStatus, fileVars, evidence, crashes>>

\* preserve_stopped_results_after_transition: the failure becomes a warning.
WarnOfPublication ==
    /\ op.pc = "warn"
    /\ followUp' = IF op.cmd \in {"preserve", "recover"} THEN followUp ELSE TRUE
    /\ Release
    /\ UNCHANGED <<handoffVars, scanStatus, canceled, sealDigest, frozen, indexed, runVars,
                   fileVars, evidence, crashes>>

-----------------------------------------------------------------------------
Handoff ==
    /\ HandoffNext
    /\ UNCHANGED <<rowVars, runVars, fileVars, op, evidence, crashes>>

Commands ==
    \/ \E t \in Token \cup {None} :
          \/ \E findings \in SUBSET Finding, complete \in BOOLEAN, keep \in BOOLEAN :
                WriteScanDraft(t, findings, complete, keep)
          \/ \E prepareOnly \in BOOLEAN : CompleteScan(t, prepareOnly)
          \/ FailScan(t)
          \/ BeginDeepScan(t)
    \/ \E thread \in Thread \cup {None} : CancelScan(thread)
    \/ \E status \in {"failed", "interrupted"} : FailDeepScan(status)
    \/ CompleteBudgetExhaustedScan \/ FinishDeepScan
    \/ PreserveScanResults \/ RecoverScanResults \/ RecordPublicationFailure

Steps ==
    \/ WriteFile \/ WriteFails \/ MergeForCompletion \/ CommitCompletion
    \/ CompletionFailsScan \/ AlreadyPublished \/ CannotVerify \/ MergeStoppedResults
    \/ FreezeSources \/ RecordPublication \/ ClearPublicationFailure \/ WarnOfPublication

LifecycleNext ==
    \/ Handoff \/ Commands \/ Steps \/ Crash
    \/ \E w \in Worker, findings \in SUBSET Finding : WorkerSaves(w, findings)

LifecycleSpec == LifecycleInit /\ [][LifecycleNext]_vars

-----------------------------------------------------------------------------
(* What must hold. *)

\* A completed scan is what its seal says, for ever: the files, the digest in the
\* row and the index of findings agree, whatever crashed or raced on the way.
CompletedIsSealed ==
    scanStatus = "complete" =>
        /\ SealHolds /\ manifestFile.status = "completed"
        /\ sealDigest = manifestFile /\ indexed = findingsFile

\* A completed Deep Scan is one whose discovery succeeded, although finishing,
\* failing and canceling it do not wait for the completion lock.
CompletedRunSucceeded ==
    scanStatus = "complete" /\ mode = "deep" => runStatus = "succeeded"

\* What the workers had saved when their scan was sealed is among its results.
CompletionKeepsWorkerResults ==
    IsSealed => \A s \in manifestFile.sources :
                   s.owner # "root" => s.findings \subseteq manifestFile.findings

\* A scan that is complete, or sealed to be, is what its seal, its row, its index,
\* its Deep Scan and its workers say, although only some of them wait for the
\* completion lock.
CompletionIsSound == CompletedIsSealed /\ CompletedRunSucceeded /\ CompletionKeepsWorkerResults

\* Publishing a stopped scan loses nothing: whatever was readable on disk when it
\* stopped is in its index, however often it is published again.
PublishedEvidence ==
    scanStatus = "failed" /\ sealDigest # None => evidence \subseteq indexed

\* The index of a stopped scan holds the findings of the sources the row says were
\* frozen, once they were published.
FrozenArePublished ==
    Idle /\ scanStatus = "failed" /\ sealDigest # None /\ sealDigest = manifestFile
        => FindingsOf(frozen) \subseteq indexed

\* A scan that failed and whose evidence was not published is shown as one that
\* needs recovery, even if the process died right after it stopped.
EvidenceIsNotForgotten ==
    Idle /\ scanStatus = "failed" /\ ~canceled /\ sealDigest = None /\ evidence # {}
        => RecoveryNeeded

\* The evidence itself is never destroyed: it stays on disk in some form.
EvidenceStaysOnDisk ==
    scanStatus = "failed" =>
        evidence \subseteq FindingsOf(OnDisk)
            \cup (IF findingsFile # None THEN findingsFile ELSE {})

\* Nothing that was found is lost with the scan that found it, whichever process
\* dies and whichever write fails between the stop and the publication.
EvidenceIsSafe ==
    PublishedEvidence /\ FrozenArePublished /\ EvidenceIsNotForgotten /\ EvidenceStaysOnDisk

\* A panel or thread that lost its claim while its completion was at work does not
\* complete the scan: the claim is not protected by the completion lock.
SupersededNeverCompletes ==
    [][scanStatus = "running" /\ scanStatus' = "complete" => CurrentContinuation(op.by)]_vars

\* A scan ends once.
EndsOnce ==
    [][scanStatus # "running" => scanStatus' = scanStatus /\ canceled' = canceled]_vars

\* Once frozen, the sources of a canceled scan neither grow nor shrink
\* (references/scan-contract.md:48, "it cannot admit later checkpoints").
CancellationFreezes ==
    [][canceled /\ frozen # None => frozen' = frozen]_vars

\* What is decided stays decided: who delivers, who continues, how the scan ended and
\* from which sources it is published.
DecisionsAreFinal ==
    /\ DeliverySettles /\ FreshClaimsAreSafe
    /\ EndsOnce /\ SupersededNeverCompletes /\ CancellationFreezes

-----------------------------------------------------------------------------
(* Two statements of the documentation that crashes refute. *)

\* .github/release-notes.md:17, "reports when recovery is needed and can recover
\* validated results on request".
VerifiedForRecovery ==
    (IsSealed \/ sealDigest # None) => DigestMatches /\ SealHolds
NeededRecoveryIsPossible ==
    Idle /\ RecoveryNeeded => RecoveryPossible /\ VerifiedForRecovery

\* references/scan-contract.md:48, "only from the source set frozen at cancellation":
\* what a canceled scan publishes was on disk when it was canceled.
CanceledAdmitsNothingLater ==
    canceled /\ sealDigest # None => indexed \subseteq evidence
=============================================================================
