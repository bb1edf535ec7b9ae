---------------------------- MODULE DeepScanStore ----------------------------
(***************************************************************************)
(* The durable state of one Deep Scan: the deep_scan_runs, deep_scan_workers *)
(* and deep_scan_dedup_inputs rows of the workbench database, and the parent *)
(* row in scans (plugins/codex-security/scripts/deep_scan_workbench.py).     *)
(*                                                                           *)
(* Every subcommand of the workbench runs in one BEGIN IMMEDIATE             *)
(* transaction, so it is one action here.  A caller is any process that      *)
(* believes it coordinates the run: it presents a coordinator generation     *)
(* (NoGeneration when it has none) and may be a coordinator that crashed     *)
(* over, was replaced, or never heard the answer to its last call.  Nothing  *)
(* below assumes that callers behave; the module is what the store itself    *)
(* guarantees.                                                               *)
(*                                                                           *)
(* A request the store refuses, and a replay it answers without writing,     *)
(* changes no row but updated_at: it is a stuttering step.                   *)
(* One scan, one owning thread and one continuation are modelled, so the     *)
(* checks of thread and claim token always pass.  Paths, prompts and SDK     *)
(* thread ids are left out: callers repeat the ones they first wrote.        *)
(*                                                                           *)
(* A definition whose name starts with "Bug" is a plausible mistake in the   *)
(* definition after it.  No action uses it: it shows that the property it is *)
(* paired with in PROJECT.json can be violated.                              *)
(***************************************************************************)
EXTENDS Integers, FiniteSets

CONSTANTS
    Discovery,          \* ids of discovery workers
    Reducer,            \* ids of dedup workers
    Setup,              \* ids of setup workers (earlier coordinators had one)
    MaxDiscoveryRuns,   \* config.maxDiscoveryRuns
    StopAfterNoNew,     \* config.stopAfterNoNew
    MaxGeneration,      \* bound of the model: coordinator generations
    MaxAttempt          \* bound of the model: attempts of one worker

ASSUME WorkersAssumption ==
    /\ IsFiniteSet(Discovery)
    /\ Discovery \cap Reducer = {}
    /\ Discovery \cap Setup = {}
    /\ Reducer \cap Setup = {}

\* The CHECKs of deep_scan_runs, and the bounds.
ASSUME ConfigAssumption ==
    /\ MaxDiscoveryRuns \in Nat \ {0}
    /\ StopAfterNoNew \in Nat \ {0}
    /\ MaxGeneration \in Nat \ {0}
    /\ MaxAttempt \in Nat \ {0}

VARIABLES
    generation,         \* coordinator_generation
    runStatus,          \* deep_scan_runs.status, "none" before the row exists
    phase,
    dispatched,         \* discovery_runs_dispatched
    completionSequence, \* the run's completion_sequence counter
    noNew,              \* consecutive_no_new
    errors,             \* consecutive_errors
    terminalReason,
    manifest,           \* manifest_path IS NOT NULL
    scanStatus,         \* scans.status of the parent
    canceledAt,         \* scans.canceled_at IS NOT NULL
    status,             \* worker rows: status, "none" before the row exists
    mergeState,         \* merge_state of the discovery rows
    sequence,           \* completion_sequence of the discovery rows, 0 is NULL
    error,              \* error_message, by what the code tells apart
    attempt,
    inputs,             \* deep_scan_dedup_inputs, by dedup worker; input_order is
                        \* the completion order, which claim-deep-scan-dedup enforces
    deadlineReached     \* max_time_hours have elapsed since created_at

runVars == <<generation, runStatus, phase, dispatched, completionSequence,
             noNew, errors, terminalReason, manifest>>
scanVars == <<scanStatus, canceledAt>>
workerVars == <<status, mergeState, sequence, error, attempt, inputs>>
vars == <<runVars, scanVars, workerVars, deadlineReached>>

Worker == Discovery \cup Reducer \cup Setup

NoGeneration == 0
Caller == NoGeneration .. MaxGeneration

RunStatus == {"none", "running", "succeeded", "failed", "canceled", "interrupted"}
Terminal == {"succeeded", "failed", "canceled", "interrupted"}
Phase == {"none", "setup", "discovery", "reducing", "terminal"}
TerminalReason == {"none", "saturated", "capped"}
ScanStatus == {"running", "complete", "failed"}
WorkerStatus == {"none", "queued", "running", "succeeded", "failed", "canceled"}
Active == {"queued", "running"}
MergeState == {"none", "buffered", "merging", "merged"}

\* "shutdown" is a message LIKE 'coordinator_shutdown:%', "recovered" the one
\* that recover_expired_coordinator leaves, "message" any other text.
ErrorMessage == {"none", "message", "shutdown", "recovered"}
-----------------------------------------------------------------------------
(* Helpers.                                                                *)

Buffered(ms) == {d \in Discovery : ms[d] = "buffered"}

ActiveDiscovery == \E d \in Discovery : status[d] \in Active
ActiveWorker == \E w \in Worker : status[w] \in Active
BugActiveReducer == \E r \in Reducer : status[r] = "running"
ActiveReducer == \E r \in Reducer : status[r] \in Active
SuccessfulReducer == \E r \in Reducer : status[r] = "succeeded"

\* require_current_coordinator: before the first claim the generation is 1 and
\* only callers without one are accepted; afterwards only the current one is.
CurrentCoordinator(g) ==
    IF generation = 1 THEN g = NoGeneration ELSE g = generation

\* require_running_deep_scan.  cancel_requested is set by the transactions that
\* make the run failed, interrupted or canceled, and canceled_at by the one that
\* makes the scan failed, so neither needs a conjunct of its own.
BugRunIsOpen == scanStatus = "running"
RunIsOpen == runStatus = "running" /\ scanStatus = "running"

\* The discoveries that reducers in rs hold go back to the buffer.
BugRebuffer(rs) ==
    [d \in Discovery |->
        IF \E r \in rs : d \in inputs[r] THEN "buffered" ELSE mergeState[d]]
Rebuffer(rs) ==
    [d \in Discovery |->
        IF mergeState[d] = "merging" /\ \E r \in rs : d \in inputs[r]
        THEN "buffered" ELSE mergeState[d]]

\* cancel_active_workers
BugCancelActiveWorkers ==
    status' = [w \in Worker |->
                  IF status[w] \in Active THEN "interrupted" ELSE status[w]]

CancelActiveWorkers ==
    status' = [w \in Worker |->
                  IF status[w] \in Active THEN "canceled" ELSE status[w]]
-----------------------------------------------------------------------------
(* begin-deep-scan *)

BeginDeepScan ==
    /\ runStatus = "none"
    /\ scanStatus = "running"
    /\ runStatus' = "running"
    /\ phase' = "setup"
    /\ UNCHANGED <<generation, dispatched, completionSequence, noNew, errors,
                   terminalReason, manifest, scanVars, workerVars, deadlineReached>>

\* Wall-clock time passes max_time_hours.  It never comes back.
ReachDeadline ==
    /\ runStatus # "none"
    /\ ~deadlineReached
    /\ deadlineReached' = TRUE
    /\ UNCHANGED <<runVars, scanVars, workerVars>>
-----------------------------------------------------------------------------
(* claim-deep-scan-coordinator without a generation.  With the caller's own
   current generation the claim only renews updated_at.                     *)

\* coordinator_lease_is_live.  "fresh" says whether the last write or heartbeat
\* is recent enough; before the first claim a live worker is needed as well.
LeaseIsLive(fresh) ==
    fresh /\ (generation = 1 => ActiveWorker)

\* Workers whose dispatch recover_expired_coordinator undoes.
ShutDown(w) ==
    /\ status[w] = "canceled"
    /\ \/ error[w] = "shutdown"
       \/ generation = 1 /\ error[w] = "none"
Interrupted(w) == status[w] \in Active \/ ShutDown(w)

BugRefund ==
    Cardinality({d \in Discovery : status[d] \in Active \cup {"canceled"}})

Refund == Cardinality({d \in Discovery : Interrupted(d)})

\* recover_expired_coordinator.  The messages are rewritten after the active
\* workers are canceled, so the second UPDATE sees the rows of the first.
RecoverExpiredCoordinator ==
    /\ mergeState' = Rebuffer({r \in Reducer : Interrupted(r) \/ status[r] = "failed"})
    /\ CancelActiveWorkers
    /\ error' = [w \in Worker |->
                    IF /\ status[w] \in Active \cup {"canceled"}
                       /\ \/ error[w] = "shutdown"
                          \/ generation = 1 /\ error[w] = "none"
                    THEN "recovered" ELSE error[w]]
    /\ dispatched' = dispatched - Refund
    /\ phase' = IF phase = "setup" THEN "setup" ELSE "discovery"
    /\ UNCHANGED <<sequence, attempt, inputs>>

ClaimCoordinator(fresh) ==
    /\ generation < MaxGeneration       \* bound
    /\ RunIsOpen
    /\ ~LeaseIsLive(fresh)
    /\ IF generation > 1 \/ phase # "setup"
       THEN RecoverExpiredCoordinator
       ELSE UNCHANGED <<workerVars, dispatched, phase>>
    /\ generation' = generation + 1
    /\ UNCHANGED <<runStatus, completionSequence, noNew, errors, terminalReason,
                   manifest, scanVars, deadlineReached>>
-----------------------------------------------------------------------------
(* upsert-deep-scan-worker.  A repeat of a terminal status with the same     *)
(* attempt and message changes nothing; with others it is refused.           *)

\* The UPDATE of an existing row, once the checks have passed.
AttemptIs(w, a) ==
    /\ a >= attempt[w]
    /\ attempt' = [attempt EXCEPT ![w] = a]
StatusIs(w, st) == status' = [status EXCEPT ![w] = st]
ErrorIs(w, e) ==
    error' = [error EXCEPT ![w] = IF e = "none" THEN error[w] ELSE e]

CanInsert(w) ==
    /\ w \notin Reducer
    /\ w \in Setup => \A s \in Setup : status[s] = "none"
    /\ w \in Discovery => dispatched < MaxDiscoveryRuns

InsertWorker(g, w, st, a, e) ==
    /\ CurrentCoordinator(g)
    /\ status[w] = "none"
    /\ RunIsOpen
    /\ st \in Active
    /\ st = "running" => a >= 1
    /\ CanInsert(w)
    /\ StatusIs(w, st)
    /\ attempt' = [attempt EXCEPT ![w] = a]
    /\ error' = [error EXCEPT ![w] = e]
    /\ IF w \in Discovery
       THEN dispatched' = dispatched + 1 /\ phase' = "discovery"
       ELSE UNCHANGED <<dispatched, phase>>
    /\ UNCHANGED <<generation, runStatus, completionSequence, noNew, errors,
                   terminalReason, manifest, scanVars, mergeState, sequence,
                   inputs, deadlineReached>>

\* A row that stays active: a new attempt starts, or the current one reports an
\* error it will retry.
UpdateWorker(g, w, st, a, e) ==
    /\ CurrentCoordinator(g)
    /\ RunIsOpen
    /\ status[w] \in Active /\ st \in Active
    /\ st = "queued" => status[w] = "queued"
    /\ st = "running" => a >= 1
    /\ StatusIs(w, st)
    /\ AttemptIs(w, a)
    /\ ErrorIs(w, e)
    /\ UNCHANGED <<runVars, scanVars, mergeState, sequence, inputs, deadlineReached>>

BugNextPlace == Cardinality(Buffered(mergeState)) + 1
NextPlace == completionSequence + 1

\* A discovery succeeds: it takes the next place in the completion order.
AcceptDiscovery(g, d, a) ==
    /\ CurrentCoordinator(g)
    /\ RunIsOpen
    /\ status[d] = "running"
    /\ StatusIs(d, "succeeded")
    /\ AttemptIs(d, a)
    /\ error' = [error EXCEPT ![d] = "none"]
    /\ completionSequence' = NextPlace
    /\ sequence' = [sequence EXCEPT ![d] = NextPlace]
    /\ mergeState' = [mergeState EXCEPT ![d] = "buffered"]
    /\ errors' = 0
    /\ phase' = "discovery"
    /\ UNCHANGED <<generation, runStatus, dispatched, noNew, terminalReason,
                   manifest, scanVars, inputs, deadlineReached>>

\* Setup workers of earlier coordinators succeed without an order.
FinishSetup(g, w, a) ==
    /\ CurrentCoordinator(g)
    /\ RunIsOpen
    /\ status[w] = "running"
    /\ StatusIs(w, "succeeded")
    /\ AttemptIs(w, a)
    /\ error' = [error EXCEPT ![w] = "none"]
    /\ UNCHANGED <<runVars, scanVars, mergeState, sequence, inputs, deadlineReached>>

FailWorker(g, w, a, e) ==
    /\ CurrentCoordinator(g)
    /\ RunIsOpen
    /\ status[w] \in Active
    /\ StatusIs(w, "failed")
    /\ AttemptIs(w, a)
    /\ ErrorIs(w, e)
    /\ IF w \in Reducer /\ status[w] = "running"
       THEN mergeState' = Rebuffer({w}) /\ phase' = "discovery"
       ELSE UNCHANGED <<mergeState, phase>>
    /\ UNCHANGED <<generation, runStatus, dispatched, completionSequence, noNew,
                   errors, terminalReason, manifest, scanVars, sequence, inputs,
                   deadlineReached>>

\* "replaceable" is a replaceable_failure_kind: the discovery used its dispatch
\* and another one may take its place.  Once the run is terminal the row may
\* still be canceled (cleanup_update).
CancelWorker(g, w, a, e, replaceable) ==
    /\ CurrentCoordinator(g)
    /\ RunIsOpen \/ runStatus \in Terminal
    /\ status[w] \in Active
    /\ replaceable => w \in Discovery /\ status[w] = "running" /\ e # "none"
    /\ StatusIs(w, "canceled")
    /\ AttemptIs(w, a)
    /\ ErrorIs(w, e)
    /\ errors' = IF replaceable THEN errors + 1 ELSE errors
    /\ UNCHANGED <<generation, runStatus, phase, dispatched, completionSequence,
                   noNew, terminalReason, manifest, scanVars, mergeState,
                   sequence, inputs, deadlineReached>>
-----------------------------------------------------------------------------
(* claim-deep-scan-dedup and commit-deep-scan-dedup *)

\* claimed is a prefix of the buffered discoveries in completion order.
IsBufferedPrefix(claimed) ==
    /\ claimed \subseteq Buffered(mergeState)
    /\ \A d \in claimed, later \in Buffered(mergeState) \ claimed :
          sequence[d] < sequence[later]

\* The first reduction needs two discoveries, unless no other can come.
EnoughInputs(claimed) ==
    LET cappedSingleton ==
            /\ Cardinality(claimed) = 1
            /\ dispatched >= MaxDiscoveryRuns \/ deadlineReached
            /\ ~ActiveDiscovery
    IN  Cardinality(claimed) >= IF SuccessfulReducer \/ cappedSingleton THEN 1 ELSE 2

CanClaimDedup(claimed) ==
    /\ ~ActiveReducer
    /\ IsBufferedPrefix(claimed)
    /\ EnoughInputs(claimed)

ClaimDedup(g, r, claimed) ==
    /\ RunIsOpen
    /\ CurrentCoordinator(g)
    /\ status[r] = "none"
    /\ CanClaimDedup(claimed)
    /\ StatusIs(r, "queued")
    /\ inputs' = [inputs EXCEPT ![r] = claimed]
    /\ mergeState' = [d \in Discovery |->
                         IF d \in claimed THEN "merging" ELSE mergeState[d]]
    /\ phase' = "reducing"
    /\ UNCHANGED <<generation, runStatus, dispatched, completionSequence, noNew,
                   errors, terminalReason, manifest, scanVars, sequence, error,
                   attempt, deadlineReached>>

BugNoNewAfter(r, newFindings) ==
    IF newFindings THEN 0 ELSE noNew + Cardinality({d \in Discovery : sequence[d] # 0})
NoNewAfter(r, newFindings) ==
    IF newFindings THEN 0 ELSE noNew + Cardinality(inputs[r])

CommitDedup(g, r, newFindings) ==
    /\ CurrentCoordinator(g)
    /\ RunIsOpen
    /\ status[r] \in Active
    /\ inputs[r] # {}
    /\ \A d \in inputs[r] : mergeState[d] = "merging"
    /\ mergeState' = [d \in Discovery |->
                         IF d \in inputs[r] THEN "merged" ELSE mergeState[d]]
    /\ StatusIs(r, "succeeded")
    /\ error' = [error EXCEPT ![r] = "none"]
    /\ noNew' = NoNewAfter(r, newFindings)
    /\ phase' = "discovery"
    /\ UNCHANGED <<generation, runStatus, dispatched, completionSequence, errors,
                   terminalReason, manifest, scanVars, sequence, attempt, inputs,
                   deadlineReached>>
-----------------------------------------------------------------------------
(* finish-deep-scan and fail-deep-scan *)

\* A failed worker bars success, unless it is a reducer whose every input was
\* reduced by another one since.
UnrepairedFailure ==
    \E w \in Worker :
        /\ status[w] = "failed"
        /\ w \in Reducer =>
              \/ inputs[w] = {}
              \/ \E d \in inputs[w] : \A r \in Reducer :
                    status[r] = "succeeded" => d \notin inputs[r]

\* The parent's coverage.json says that the scan stopped before completion; an
\* aggregate exists, and it may be published without what is still buffered.
FailureCapped(reason, stopped) == stopped /\ reason = "capped" /\ SuccessfulReducer

BufferedAtFinish(reason, stopped) ==
    IF FailureCapped(reason, stopped)
    THEN Rebuffer({r \in Reducer : status[r] \in {"failed", "canceled"}})
    ELSE mergeState

OmissionsMatch(reason, stopped, omitted) ==
    LET buffered == Buffered(BufferedAtFinish(reason, stopped))
    IN  IF reason = "saturated" \/ FailureCapped(reason, stopped)
        THEN omitted = buffered
        ELSE omitted = {} /\ buffered = {}

BugNothingMerging(reason, stopped) == ~ActiveReducer
NothingMerging(reason, stopped) ==
    \A d \in Discovery : BufferedAtFinish(reason, stopped)[d] # "merging"

CanFinish(reason, stopped) ==
    /\ reason = "saturated" => noNew >= StopAfterNoNew
    /\ reason = "capped" =>
          dispatched >= MaxDiscoveryRuns \/ deadlineReached \/ FailureCapped(reason, stopped)
    /\ \/ SuccessfulReducer
       \/ reason = "capped" /\ deadlineReached /\ completionSequence = 0
    /\ UnrepairedFailure => FailureCapped(reason, stopped)
    /\ ~ActiveWorker
    /\ NothingMerging(reason, stopped)

FinishDeepScan(g, reason, stopped, omitted) ==
    /\ CurrentCoordinator(g)
    /\ RunIsOpen
    /\ CanFinish(reason, stopped)
    /\ OmissionsMatch(reason, stopped, omitted)
    /\ mergeState' = BufferedAtFinish(reason, stopped)
    /\ CancelActiveWorkers
    /\ runStatus' = "succeeded"
    /\ phase' = "terminal"
    /\ terminalReason' = reason
    /\ manifest' = TRUE
    /\ UNCHANGED <<generation, dispatched, completionSequence, noNew, errors,
                   scanVars, sequence, error, attempt, inputs, deadlineReached>>

\* An exact replay supplies the manifest an earlier version left NULL.
ReplayFinish(g, reason, omitted) ==
    /\ CurrentCoordinator(g)
    /\ runStatus = "succeeded"
    /\ ~manifest
    /\ terminalReason = reason
    /\ OmissionsMatch(reason, FALSE, omitted)
    /\ manifest' = TRUE
    /\ UNCHANGED <<generation, runStatus, phase, dispatched, completionSequence,
                   noNew, errors, terminalReason, scanVars, workerVars, deadlineReached>>

\* terminal_before_manifest: a success that recorded no manifest may still fail.
BugCanFail == runStatus \in {"running", "succeeded"}
CanFail == runStatus = "running" \/ (runStatus = "succeeded" /\ ~manifest)

FailDeepScan(g, st) ==
    /\ CurrentCoordinator(g)
    /\ CanFail
    /\ scanStatus = "running"
    /\ runStatus' = st
    /\ phase' = "terminal"
    /\ scanStatus' = "failed"
    /\ CancelActiveWorkers
    /\ UNCHANGED <<generation, dispatched, completionSequence, noNew, errors,
                   terminalReason, manifest, canceledAt, mergeState, sequence,
                   error, attempt, inputs, deadlineReached>>
-----------------------------------------------------------------------------
(* The parent scan: fail-scan, cancel-scan and complete-scan.              *)

FailScan ==
    /\ scanStatus = "running"
    /\ scanStatus' = "failed"
    /\ IF runStatus = "running"
       THEN runStatus' = "failed" /\ phase' = "terminal"
       ELSE UNCHANGED <<runStatus, phase>>
    /\ CancelActiveWorkers
    /\ UNCHANGED <<generation, dispatched, completionSequence, noNew, errors,
                   terminalReason, manifest, canceledAt, mergeState, sequence,
                   error, attempt, inputs, deadlineReached>>

\* cancel_from_parent_scan: a run that succeeded is canceled with its parent.
BugCanceledWithParent == runStatus = "running"
CanceledWithParent == runStatus \in {"running", "succeeded"}

CancelScan ==
    /\ scanStatus = "running"
    /\ scanStatus' = "failed"
    /\ canceledAt' = TRUE
    /\ IF CanceledWithParent
       THEN runStatus' = "canceled" /\ phase' = "terminal"
       ELSE UNCHANGED <<runStatus, phase>>
    /\ CancelActiveWorkers
    /\ UNCHANGED <<generation, dispatched, completionSequence, noNew, errors,
                   terminalReason, manifest, mergeState, sequence, error,
                   attempt, inputs, deadlineReached>>

CompleteScan ==
    /\ scanStatus = "running"
    /\ runStatus = "succeeded"
    /\ manifest
    /\ scanStatus' = "complete"
    /\ UNCHANGED <<runVars, canceledAt, workerVars, deadlineReached>>
-----------------------------------------------------------------------------
NoWorkers ==
    /\ status = [w \in Worker |-> "none"]
    /\ mergeState = [d \in Discovery |-> "none"]
    /\ sequence = [d \in Discovery |-> 0]
    /\ error = [w \in Worker |-> "none"]
    /\ attempt = [w \in Worker |-> 0]
    /\ inputs = [r \in Reducer |-> {}]

Init ==
    /\ generation = 1
    /\ dispatched = 0 /\ completionSequence = 0 /\ noNew = 0 /\ errors = 0
    /\ manifest = FALSE
    /\ scanStatus = "running" /\ canceledAt = FALSE
    /\ NoWorkers
    /\ \/ /\ runStatus = "none" /\ phase = "none" /\ terminalReason = "none"
          /\ deadlineReached = FALSE
       \* A run that an earlier version finished at its deadline, with no
       \* discovery and before it recorded a manifest.
       \/ /\ runStatus = "succeeded" /\ phase = "terminal" /\ terminalReason = "capped"
          /\ deadlineReached = TRUE

WorkerNext(g) ==
    \/ \E w \in Worker, a \in 0 .. MaxAttempt :
          \/ \E st \in Active, e \in {"none", "message"} :
                InsertWorker(g, w, st, a, e) \/ UpdateWorker(g, w, st, a, e)
          \/ \E e \in {"none", "message"} : FailWorker(g, w, a, e)
          \/ \E e \in {"none", "message", "shutdown"}, replaceable \in BOOLEAN :
                CancelWorker(g, w, a, e, replaceable)
    \/ \E d \in Discovery, a \in 0 .. MaxAttempt : AcceptDiscovery(g, d, a)
    \/ \E s \in Setup, a \in 0 .. MaxAttempt : FinishSetup(g, s, a)

ReducerNext(g) ==
    \E r \in Reducer :
        \/ \E claimed \in SUBSET Discovery : ClaimDedup(g, r, claimed)
        \/ \E newFindings \in BOOLEAN : CommitDedup(g, r, newFindings)

TerminalNext(g) ==
    \/ \E reason \in {"saturated", "capped"}, omitted \in SUBSET Discovery :
          \/ \E stopped \in BOOLEAN : FinishDeepScan(g, reason, stopped, omitted)
          \/ ReplayFinish(g, reason, omitted)
    \/ \E st \in {"failed", "interrupted"} : FailDeepScan(g, st)

Next ==
    \/ BeginDeepScan
    \/ ReachDeadline
    \/ \E fresh \in BOOLEAN : ClaimCoordinator(fresh)
    \/ \E g \in Caller : WorkerNext(g) \/ ReducerNext(g) \/ TerminalNext(g)
    \/ FailScan \/ CancelScan \/ CompleteScan

Spec == Init /\ [][Next]_vars
-----------------------------------------------------------------------------
TypeOK ==
    /\ generation \in 1 .. MaxGeneration
    /\ runStatus \in RunStatus
    /\ phase \in Phase
    /\ dispatched \in Int
    /\ completionSequence \in Nat
    /\ noNew \in Nat
    /\ errors \in Nat
    /\ terminalReason \in TerminalReason
    /\ manifest \in BOOLEAN
    /\ scanStatus \in ScanStatus
    /\ canceledAt \in BOOLEAN
    /\ status \in [Worker -> WorkerStatus]
    /\ mergeState \in [Discovery -> MergeState]
    /\ sequence \in [Discovery -> Nat]
    /\ error \in [Worker -> ErrorMessage]
    /\ attempt \in [Worker -> 0 .. MaxAttempt]
    /\ inputs \in [Reducer -> SUBSET Discovery]
    /\ deadlineReached \in BOOLEAN
-----------------------------------------------------------------------------
(* Safety.                                                                 *)

Accepted == {d \in Discovery : status[d] = "succeeded"}
Merged == {d \in Discovery : mergeState[d] = "merged"}

\* The discoveries whose dispatch is still charged to the run.
Charged == {d \in Discovery : status[d] \in {"succeeded", "failed"} \/ Interrupted(d)}

\* Adoption gives interrupted dispatches back.  However often coordinators are
\* replaced, and whatever they left behind, no dispatch is given back twice: the
\* counter covers every discovery that counts, and never passes the maximum.
DispatchBudget ==
    /\ Cardinality(Charged) <= dispatched
    /\ dispatched <= MaxDiscoveryRuns

\* The accepted discoveries hold the places 1 .. completion_sequence, one each.
CompletionOrder ==
    /\ \A d \in Discovery : sequence[d] \in IF d \in Accepted
                                            THEN 1 .. completionSequence ELSE {0}
    /\ \A n \in 1 .. completionSequence : \E d \in Accepted : sequence[d] = n
    /\ \A d, e \in Accepted : sequence[d] = sequence[e] => d = e

\* The two tables agree: an accepted discovery is merged when exactly one
\* successful reducer lists it, it is merging while one reducer holds it, and a
\* reducer at work holds all its inputs.
MergeStateFollowsReducers ==
    /\ \A d \in Discovery : mergeState[d] = "none" <=> d \notin Accepted
    /\ \A d \in Discovery :
          mergeState[d] = "merged" <=>
            \E r \in Reducer : status[r] = "succeeded" /\ d \in inputs[r]
    /\ \A r1, r2 \in Reducer :
          status[r1] = "succeeded" /\ status[r2] = "succeeded" /\ r1 # r2
            => inputs[r1] \cap inputs[r2] = {}
    /\ \A r \in Reducer : status[r] \in Active =>
          inputs[r] # {} /\ \A d \in inputs[r] : mergeState[d] = "merging"
    /\ \A d \in Discovery : mergeState[d] = "merging" =>
          \E r \in Reducer : d \in inputs[r] /\ status[r] \notin {"none", "succeeded"}

\* At most one reducer is at work, over every replacement of the coordinator.
OneReducer ==
    \A r1, r2 \in Reducer : status[r1] \in Active /\ status[r2] \in Active => r1 = r2

\* The streaks that stop a run count each merged discovery and each replaced
\* discovery at most once: no replay and no replacement counts one again.
StreaksCountOnce ==
    /\ noNew <= Cardinality(Merged)
    /\ errors <= Cardinality({d \in Discovery : status[d] = "canceled"})

\* Once the run or its parent has stopped, no worker is left at work, whoever
\* stopped it and whatever other requests were in flight.
StoppedIsIdle ==
    (runStatus \in Terminal \/ scanStatus # "running") => ~ActiveWorker

\* The run and its parent scan never disagree about the outcome.
ParentAgrees ==
    /\ runStatus = "running" => scanStatus = "running"
    /\ runStatus \in {"failed", "interrupted", "canceled"} => scanStatus = "failed"
    /\ scanStatus = "complete" => runStatus = "succeeded" /\ manifest
    /\ canceledAt => scanStatus = "failed" /\ runStatus \in {"none", "canceled"}

\* A successful run accounts for all it accepted: nothing is held by a reducer
\* that stopped, and nothing was accepted without a successful reduction.
SuccessAccountsForAll ==
    runStatus = "succeeded" =>
        /\ \A d \in Accepted : mergeState[d] \in {"merged", "buffered"}
        /\ Accepted # {} => Merged # {}

\* A terminal state is final: a success may still be canceled with its parent,
\* and may fail only if no manifest was recorded; its results never change.
TerminalIsFinal ==
    [][(runStatus \in Terminal) =>
         /\ UNCHANGED <<dispatched, completionSequence, noNew, terminalReason,
                        status, mergeState, sequence, inputs>>
         /\ \/ runStatus' = runStatus
            \/ runStatus = "succeeded" /\ runStatus' = "canceled" /\ canceledAt'
            \/ runStatus = "succeeded" /\ ~manifest /\ scanStatus' = "failed"
      ]_vars

\* What a run has accepted keeps its place, and what it has merged stays merged,
\* also when a coordinator is replaced in the middle of a reduction.
ResultsAreKept ==
    [][\A d \in Discovery :
        /\ sequence[d] # 0 => sequence'[d] = sequence[d] /\ status'[d] = "succeeded"
        /\ mergeState[d] = "merged" => mergeState'[d] = "merged"
      ]_vars

\* No sequence of requests undoes what was decided, accepted or merged.
NothingIsUndone == TerminalIsFinal /\ ResultsAreKept
-----------------------------------------------------------------------------
(* The store implements DeepScanRun.                                       *)

Run == INSTANCE DeepScanRun WITH
    place <- sequence,
    merged <- Merged,
    outcome <- IF runStatus \in Terminal THEN runStatus ELSE "open"

\* Whatever coordinators, workers and parent commands do, and in any order, the
\* rows show one run as DeepScanRun describes it: workers, retries, replaced
\* coordinators and reducers that failed are invisible in it.
ImplementsRun == Run!Spec
=============================================================================
