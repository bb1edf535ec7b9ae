# Codex Security in TLA+

A verification project for the Codex Security plugin and its SDK: the Deep Scan
(its database, coordinators, workers and servers), the life of a scan and of its
results, the repair of findings, the database's migrations, multiscan campaigns,
and the SDK that runs scans, publishes them and compares them. The modules are
translated from the source; TLC checks them on small instances and TLAPS proves
the safety of most of them for all instances.

In this file `DW` is `src/plugins/codex-security/scripts/deep_scan_workbench.py`,
`scripts/` its directory, `mcp/` is `src/plugins/codex-security/mcp-app/`,
`deep-scan/` is `mcp/src/deep-scan/`, and `sdk/` is `src/sdk/typescript/src/`.
`PROJECT.json` maps every definition to the lines it models, and lists the
components, the runs, the mutants, the hazards and the theorems.

## 1. Inventory

| Part | Where | State it keeps | Module |
| --- | --- | --- | --- |
| Deep Scan store | `DW` | rows `deep_scan_runs`, `deep_scan_workers`, `deep_scan_dedup_inputs` | `DeepScanStore` |
| Deep Scan coordinator | `deep-scan/coordinator.ts` | active workers, reducer, buffer, FIFO of settlements, streaks, abort controllers, in memory | `DeepScanCoordinator` |
| Worker runner | `deep-scan/worker-runner.ts` | the step of each worker, its attempt, its signal | `DeepScanCoordinator` |
| Workbench client | `deep-scan/store.ts` | the write tail, the map of leases | `DeepScanCoordinator`, `DeepScanServer` |
| Registry, tools that start, join and cancel | `deep-scan/registry.ts`, `mcp/server.ts` | coordinators by scan, observers | `DeepScanServer` |
| Artifact readers, drafts, reduction | `deep-scan/artifact*.ts`, `mcp/src/artifact-*.ts` | documents, checkpoints, aggregates on disk | `ScanDrafts`, `DeepReduction` |
| Handoff | `scripts/workbench/handoff.py` | handoff columns of `scans` | `ScanHandoff` |
| Scan lifecycle, saved results | `scripts/workbench_db.py`, `workbench_saved_results.py` | row `scans`, index of findings, sealed files, frozen sources | `ScanLifecycle` |
| Finding remediation | `scripts/workbench_remediation.py` | attempts, claims, triage; the checkout | `FindingRemediation` |
| Workbench database schema | `scripts/workbench_schema.py` | tables, recorded migrations | `WorkbenchSchema`, `SchemaMigrations` |
| Multiscan supervisor | `sdk/multiscan.ts` | lock directory, receipts ledger, manifest | `MultiscanLock`, `MultiscanCampaign` |
| SDK client | `sdk/api.ts` | one operation, signals, cost limit, logins, runtime | `ScanSession` |
| Cost tracker | `sdk/cost.ts` | what was read of each session file | `ScanCost` |
| Component scans, the caller's validation | `sdk/component-scan.ts`, `custom-validation.ts` | receipts, groups; captured documents | `ComponentScan`, `CustomValidation` |
| Credential home | `sdk/runtime.ts`, `cli.ts` | lock, configuration, staged and installed plugin, credentials | `CredentialHome` |
| Publication | `sdk/publish.ts` and neighbours, `scripts/workbench_publication.py` | publication rows, handoff directory; issues in another service | `Publication` |
| Findings workflow, deduplication, comparison | `sdk/finding-workflow.ts`, `deduplication/`, `scan-comparison.ts`, `scripts/workbench_finding_workflows.py`, `workbench_scan_history.py` | workflow rows, saved reviews, groups, pairs of scans | `FindingsWorkflow`, `Deduplication`, `FindingComparison`, `FindingHistory` |
| Executor, contract, reports, targets, ranking, presentation | elsewhere | files, derived | none |
| Web application, containers, release automation | `src/app`, `src/lib`, `.github` | separate | none |

How they interact:

* A **Deep Scan** is one row of `scans` (the parent) and one of `deep_scan_runs`. A
  coordinator claims the run by raising `coordinator_generation` and shows this
  generation with every request. It dispatches discoveries, up to `workers` at a
  time and `max_discovery_runs` in all. An accepted discovery takes the next
  `completion_sequence` and is buffered; one reducer at a time claims the whole
  buffer and merges it into the aggregate. The run ends saturated, capped, failed,
  canceled or interrupted. Each request is one process of the workbench with one
  transaction; the client serves them one at a time. Runners settle into the
  coordinator's FIFO, which wakes its scheduler. Whoever polls a run whose heartbeat
  is late adopts it.
* A **scan** ends through commands that hold its completion lock and alternate
  between transactions and files; handoffs, workers, agents and the Deep Scan do
  not take that lock. Its results are sealed when it completes, and frozen and
  published when it stops.
* A **client of the SDK** takes the lock of the credential home, prepares a runtime,
  registers a scan, follows its session files for events and cost, and completes,
  recovers or fails it. A multiscan runs many of them under the lock of its output
  directory.
* Afterwards, findings are **repaired** by panels and agents, **published**, searched
  for **duplicates** and **compared** with those of other scans, each by commands that
  may be broken off and repeated.

What is hard: coordinators that do not know that they were replaced; answers that are
lost after their commit; the order of events that two memories must agree on; crashes
between a file and the row that names it; leases, locks and claims that are taken over
from owners that only seem dead; requests that write what they read before their
transaction; signals that abort any step; commands that are repeated. `PROJECT.json`
lists these hazards at their lines, with the properties that watch them.

## 2. Modules

### Deep Scan

`DeepScanStore`: a variable stands for a column, or a function from workers for a
column of worker rows. Callers are not modelled: any caller presents any generation,
at any time, with any arguments. So the properties hold for coordinators that crashed,
were replaced, or repeat themselves. A refused request is a stuttering step.

| Subcommand | Action |
| --- | --- |
| `begin-deep-scan` | `BeginDeepScan` |
| `claim-deep-scan-coordinator` | `ClaimCoordinator`, with `RecoverExpiredCoordinator` |
| `upsert-deep-scan-worker` | `InsertWorker`, `UpdateWorker`, `AcceptDiscovery`, `FinishSetup`, `FailWorker`, `CancelWorker` |
| `claim-deep-scan-dedup`, `commit-deep-scan-dedup` | `ClaimDedup`, `CommitDedup` |
| `finish-deep-scan` | `FinishDeepScan`, `ReplayFinish` |
| `fail-deep-scan` | `FailDeepScan` |
| `fail-scan`, `cancel-scan`, `complete-scan` | `FailScan`, `CancelScan`, `CompleteScan` |

`DeepScanRun` is what a Deep Scan promises (accept in order, merge, end once);
`DeepScanStore` implements it.

`DeepScanCoordinator` EXTENDS the store. A coordinator is named by its generation and
is one record `sched[g]`; a worker has one runner. JavaScript is not preempted, so what
lies between two awaits is one step. A runner that waits for the workbench stands in
`sched[g].tail`; only the head of the tail is served. `Adopt`, `Crash`, `Cancel`,
`Watch` and `Deadline` are what happens to a coordinator; `Start`, `Turn`,
`TurnAborted`, `TakeSettlement`, `Unwind`, `Reconcile`, `Publish`, `Finish`, `Catch`
and `Fail` are `run()` and `runScheduler()`; `Prepare`, `MakeRequest`, `LoseAnswer`,
`Execute` and `Wake` are a runner. Whether an executor succeeds, fails, or produces
artifacts that do not validate is a choice. `LoseAnswer` loses the answer for good: the
retries in place did not bring one either.

`DeepScanServer` has several server processes with their registries and maps of leases,
calls that start, join, observe, cancel and wait, adoption by observers, and the
`externallyFailed` path of a coordinator. What a coordinator does in between is
`DeepScanCoordinator`'s.

`ScanDrafts` records drafts by agents of a scan or of a worker, with checkpoints,
digests, archives and crashes. `DeepReduction` is the reconciliation of a reducer's
submission with the results of its workers and the aggregate before it; it is applied
by the tool that records and again by the coordinator that accepts. Coverage is modelled
by its records, as `preserveScanCoverage` joins them: what is left to do is read off the
joined surfaces and deferrals, so a reducer may settle a surface that a worker left for
follow-up, and the aggregate be complete over a partial worker; it may not leave it out.

### The life of a scan

`ScanHandoff` is the claim, release, attachment and delivery of one handoff for any
panels and threads, that present any token they ever drew. `ScanLifecycle` EXTENDS it:
`op` is the command that holds the completion lock and how far it is. `complete-scan`
and `prepare-scan-completion` check, seal, write the three files, and commit; a refused
commit is followed by a restoration; `fail-scan`, `cancel-scan` and `fail-deep-scan`
stop the row, freeze the sources and publish them; `preserve-scan-results` and
`recover-scan-results` do so later. Each replaced file and each transaction is one
step; the process can die, and writes fail, at each. A finding is a value, documents
are sets of them, a digest is what it was taken of.

`FindingRemediation` has the attempts at one finding with their claims, the checkout
with the user's edits, and commands in flight between what they read and what they
write. `WorkbenchSchema` lists all migrations by what they create, need and move;
`SchemaMigrations` opens a database that any line of releases left: renumbering,
repairs and migrations, one step each inside one transaction that may be killed.
`MCSchemaLines` holds the lines: today's, cut off after each version, and those that
`scripts`' tests build.

### Multiscan

`MultiscanLock` names the lock directory, its owner file and the recovery claim after
the supervisor that created them; each file operation is a step and ages are "fresh" or
"stale". `MultiscanCampaign` has one directory with its manifest, ledger and artifact
directories over campaigns that follow each other.

### SDK

`ScanSession` is one `CodexSecurity` instance: one scan after the other through
`#run`, with aborts from three sides, the cost limit and its raise, recovery,
follow-up, logins and `close()`. `ScanCost` is the tracker: files that appear and grow,
forks that begin with the history of their parent, polls, `refresh`, `stop`.
`CustomValidation` and `ComponentScan` are what their files do around it.
`CredentialHome` has several clients, some of earlier releases, that prepare the home under
its lock, scan again in the session they have, with an API key or with what is stored, and
ask for their account without the lock, beside logins and logouts: there are three ways to
an import (`CheckMarker`, `GoesBack`, `Ask`), and the second looks at no marker.
`Publication` is one scan and one destination, over the API and by an agent.
`FindingsWorkflow` has the three durable stages over deaths and repetitions;
`Deduplication` groups by accepted and rejected pairs with the counts that merges
maintain; `FindingGroups` is the union of groups, `FindingComparison` a comparison in
batches, and `FindingHistory` the pairs that commands save for the scans of a
repository.

### For TLC and TLAPS

`MC...` modules hold the instances of a run. A run that asks the same question of
several independent instances has a variable `instance`, chosen in the initial state;
the parts that an instance is not about do not move. `...Proofs` modules hold theorems.

## 3. Runs

| Run | Instances and bounds | What holds |
| --- | --- | --- |
| `store` | `wide` (4 workers, 1 attempt, 2 generations), `replaced` (3 workers, 4 generations), `retried` (2 workers, 2 attempts), `legacy` (rows of an earlier version); limits of 2 | types; tables, run and parent agree; one reducer; the streaks and the dispatch account; success accounts for all results; nothing is undone; `DeepScanRun` is implemented |
| `coordinator_incidents` | two workers, streaks of two, ended by shutdown, user or parent (`core`) or by the deadline (`late`), discoveries 1..4 and reducers 11..13; one worker with retries: `adoption` (crashes, shutdowns, the deadline), `stall` (a lease that expired under a live coordinator), `lost` (two lost answers), the last two without the deadline; `servers`: two servers, three calls, three generations, three coordinators | memory and rows agree and no request is refused for lack of it; failures in a row and the pool keep their limits; success is reported as such; one process holds a lease, one coordinator leads a generation, and what calls are told is true |
| `coordinator_liveness` | `coordinator` with crashes, shutdowns and three generations; `servers`: two servers, two calls (the first to server 1), three generations, three coordinators | coordinators end, runs stop within their limits; calls are answered |
| `scan` | `handoff` (two panels, two threads, a recovery), `faults` (every incident, one finding, a scan from the command line), `results` (two findings, one checkpoint, started by a prompt), `authority` (started by the application, no workers, no crash); one crash | types; handoffs; completed scans are what their seal says; evidence is not lost; decisions are final |
| `workbench` | repairs: `attempts`, `edits`, `races` (two commands in flight), two requests and two tokens; drafts: `drafts` (two authors, one candidate, three drafts, one crash, no follow-ups), `worker` (one author, three drafts, one retry); `reduction` (two workers, two identities, two texts, at most two findings), `coverage` (two workers with any coverage and no findings); `schema` (every line, opened twice, killed at every migration) | attempts exclude each other and apply what was reviewed; what is recorded is kept; requests that interleave do not collide; accepted findings persist, and review that is left is not dropped |
| `multiscan` | `lock`, `wreck` (three supervisors that die while waiting, signing or holding; or anywhere); campaigns of two tasks and two workers: `faults`, `retries`, `reruns`; `cost`, `forest`, `progress` (two or three session files); `validation`, `none` (two candidates on two surfaces, or none); `components` (three components, two workers); `batches`, `same` (two findings with two); `soon`, `later` (three scans) | the holder keeps the lock; the ledger is sound; costs, events and progress are accounted; validation, components and comparisons are sound; locks are freed; tasks get receipts |
| `sdk` | `one` (one scan: deep, limited and beside others, or with the caller's validation; with a follow-up), `two` (two scans of one client: limited and with the caller's validation, or deep with a follow-up), `api` (three attempts), `app` (one attempt by an agent), `workflow` (two faults, one change of the source), `duplicates` (every set of decisions about four findings), `home` (a client that scans twice, one that scans once, and one of an earlier release), `logins` (a client that scans twice, by key or with what is stored, and one that asks for its account; two commands) | what callers rely on when a scan is over; the home and its credentials; answers, history and handoff of publications; workflow stages; groups; everything settles |
| `coordinator_fifo`, `coordinator_retained`, `server_replaced`, `multiscan_recovery`, `workflow_any_order` | | statements of docs, comments and tests that the code does not keep: section 5 |

Every property of a passing run has a mutant in `PROJECT.json`, a plausible bug
(`Bug...` in the module) that TLC finds through that property under the same
configuration. Deadlock is not checked: all these systems come to rest.

### Bounds, and why they are enough

* Adoptions: two generations are one replacement; a second recovery is where a dispatch
  could be given back twice, so `replaced` has four. `MaxAttempt` stands for the four
  attempts of `worker-runner.ts`: two tell the first, a retry and the last one apart.
* Two workers and two or three discoveries are the fewest with which acceptances race, a
  reducer runs beside discoveries, and a batch of two can follow a batch of one. Limits
  of one and two put both sides of each comparison in reach. A step that would need one
  more worker id is not taken.
* The calls of `servers` are answered as long as there are two of them; why a third can
  hang is told in section 5. For what is said to them, three calls are the fewest with which
  a process has a claim and an adoption on the way at once.
* In `lock`, supervisors die only while they wait, sign or hold: dying elsewhere breaks
  `HolderKeepsLock`, in the way that `multiscan_recovery` shows.
* A source in `workflow` never returns to earlier contents; an agent takes its findings
  one at a time; the commands of a workflow are given in order, except in
  `workflow_any_order`.
* `ScanCost`: over-long lines make a file unreadable for good; several reads of one file
  within a poll are one step; a parent's task does not start within the second in which it
  forks. `FindingHistory`: one client at a time. `CredentialHome`: two scans of a client are
  the fewest with which it can change how it signs in; one command at a time, given at the
  command line; processes that live do not pause for 30 seconds; hard links exist; no other
  provider or command gives credentials.
* `Deduplication`: the order in which findings are met, which decides ties, is any that
  the loop over the scan's findings and their neighbours can give.

### Fairness

Weak fairness is asked of what a living process does by itself: the steps of a
coordinator, a runner (each executor and workbench process has a time limit), a call, a
supervisor, a worker of a campaign, a scan's next step (`DueStep`), the passing of a
lease, and the repetition of a workflow command that failed. Adoption is fair since a
`DeepScanRemoteCoordinator` polls, or the tool is called again; `RunEnds` therefore
speaks of runs that some process still waits for, and excepts the last generation that
the bound allows. A crashed process has no step enabled, so nothing is asked of it. No
incident and no outcome is fair: a worker may fail every time.

## 4. Proofs

TLAPS proves these for every value of the constants. What is assumed of them is either an
`ASSUME` of the module (`WorkersAssumption`, `ConfigAssumption`, `HandoffAssumption`,
`LifecycleAssumption`, `NullAssumption`, ...) or a named hypothesis of the theorems
(`ServerConstants`, `LockConstants`, `CampaignConstants`, `SessionConstants`,
`PublicationConstants`, `HomeConstants`, `FindingConstants`, `WorkflowConstants`,
`ValidationConstants`): sets of ids are finite or disjoint where the code makes them so,
limits are natural numbers. Only `LockConstants` says more (see the lock, below). Each
inductive invariant was checked by TLC before it was proved.

**The store** (`DeepScanStoreProofs`): all eleven properties of the run `store`.
`StoreInvariant` is the inductive invariant, proved layer by layer:

* `TypeOK`; then `Control` (a stopped run is idle, run and parent agree, one reducer):
  a row becomes active only while `RunIsOpen`, and every transaction that closes the run
  or its parent cancels the active workers.
* `MergeStateFollowsReducers` relative to `Control`: a commit or a recovery touches the
  inputs of one reducer only because no other one holds them. Its last conjunct, that
  whatever is merging is listed by some reducer that did not succeed, makes it inductive.
* `CompletionOrder`; `DispatchBudget`, which counts `Charged` (an interrupted worker
  stays charged until an adoption rewrites its message; the bound on `dispatched` alone is
  not inductive); the history of merges that `StreaksCountOnce` needs; and what a
  success declared.
* From these, two properties of steps: `NothingIsEverUndone`, and `StoreImplementsRun`:
  every transition maps to one step of `DeepScanRun` or to a stutter, action by action.

**The system** (`DeepScanCoordinatorProofs`): `SystemSpec => Spec`, since every step of
coordinators, runners and client is a step of the store or changes no row. So the
theorems of the store hold of the system, with any number of coordinators that overlap
and any number of lost answers (`SystemKeepsTheRowsConsistent`, `SystemKeepsTheBudget`,
`SystemCountsOnce`, `SystemImplementsRun`).

**What coordinators remember** (`DeepScanCoordinatorProofs`): `LimitsAreKept`,
`SchedulerIsDriven` and the types of everything in memory. `LimitsInv` has a part for every
coordinator, replaced or not (`Fits`: its settlements are those of the workers it holds
that settled, once each, and say what the rows say; its write tail names each waiting runner
once; no two coordinators hold the same worker), and one for the coordinator whose
generation is current (`Leads`): discoveries at work are in its pool, unless it gave them
up; from the limit on, what was counted beyond it and the discoveries that can still be replaced
are together fewer than the pool holds (`ErrorsInv`), and a reducer can fail only while
the limit leaves room for it (`FailuresInv`). What has generation 1 is `Untouched`, and an
adoption starts from the rows, which `ReadyToLead` says of the coordinator to come. Steps are sorted by what they do to one record: it `Follows`,
is emptied, takes a settlement, or a runner of its moves.

What the coordinator that has the run knows of the rows is `MemoryInv`, which gives
`BufferAgrees` (`BuffersAreKnown`) and `DispatchIsAdmitted` (`DispatchesAreAdmitted`).
`Knows` says that what is accepted and unmerged is the buffer, the outcomes not yet read and
the batch of the reducer, apart from each other; `Counts`, that the coordinator has counted
every row and, beyond them, the discoveries it started that have no row yet (`Unborn`).
`RunnersInv` keeps the row of a worker missing until its runner has asked for it, and says
that an acceptance is asked again only after an answer was lost; `Informed`, that an abort
has a cause. The transactions of a runner are
sorted by their effect on the rows (`Rewritten`, `Inserted`, `NowAccepted`, `NowClaimed`,
`NowCommitted`). `BuffersAreKnown` assumes `FewAnswersAreLost`: at most one answer was lost or
the deadline has not passed. TLC refutes more than that: when two answers to one
acceptance are lost and the deadline has aborted the discovery, its runner settles as canceled
although its row succeeded, and the coordinator drops the result.

**The servers** (`DeepScanServerProofs`): that two processes never hold the lease of the
current generation at once (`LeaseIsExclusive`), that over all processes at most one
coordinator of it is at work (`OneCoordinator`), and the types, for any number of
processes, calls, generations and crashes (`ServerConstants`: the bounds are numbers, there
is a first generation, an observer is not a call). A process that may act
for a generation has one of three tokens of it: the lease in its map, a claim on its way
that names that lease, or a coordinator. `TokensAreExclusive` says that all tokens of the
current generation are in one process; `LeasesAreLater` and `WaitsAreInOrder` that nothing
older comes after it in the map or in the queue; `CurrentIsRegistered` that the registry
knows the coordinator of that generation, since it is what `start` consults. Every
step is a granted claim, which opens a generation of which no token exists yet, or it is
`Quiet`: it makes no token that its process did not have. `OutcomesHaveCause` gives
`AnswersHaveCause`: a call told of a success or a cancellation is told of one that
happened. That what is told is also what the workbench stores, the rest of `AnswersAreTrue`,
is checked by TLC.

**The handoff** (`ScanLifecycleProofs`): its types; that delivery is final and that fresh
claims cannot be stolen, as properties of steps; and from the invariant and the first of
them `DeliveredScansKeepTheirThread`: whatever panels, threads and late callers do, the
thread of a delivered scan was attached under the claim that was delivered, owns the scan
for good, and orchestrates it if it is a Deep Scan.

**The life of a scan** (`ScanLifecycleProofs`): all five properties of the run `scan`.
`LifecycleInv` has a part for what the documents may say (`DocumentsInv`: a seal names
its sources and holds their findings), for the row (`RowInv`), for each way a scan stands
(`RunningInv`, `CompleteInv`, `FailedInv`), and for the command at work by how far it is
(`OpInv`). The last is what makes it inductive: the queue of files that a command still
has to write is what remains of one set of three documents that fit each other, with the
written ones on disk; and a publication that can be taken back holds in `op.doc` the
documents before it, from which the evidence can be restored (`Restores`). A worker or
a handoff may step between any two of these, and a crash forgets `op`.
`CanceledScansStayFrozen` has an invariant of its
own (`FreezeInv`): the seal of a canceled scan names the sources that its row froze.

**The repair of a finding** (`FindingRemediationProofs`): `AttemptsAreSound` and
`RequestsDoNotCollide`, for any number of attempts, tokens, edits and commands in flight.
`RemediationInv` says of each attempt what its state, its pending operation and its patch
have to do with each other (`GoodAttempt`), that attempts which others followed are
`Settled`, and, of each command between its read and its write, that it `Agrees` with
its row: as long as the row has the version that was read, it is in the state in which the
command was validated. Every action has one of four shapes: it writes one attempt, none,
adds one, or takes the last one away (`StepShape`); invariant and step properties follow
from the shapes.

**The lock of a multiscan** (`MultiscanProofs`): `OneSupervisor` and `HolderKeepsLock`,
for any number of supervisors, under an assumption that the code does not guarantee
(`LockConstants`): they die only while they wait for the lock, write its owner file or hold
it, and not between making the directory and writing that file, in a recovery, or in a
release. It is needed: `multiscan_recovery` lets a supervisor die at the first of these
places, and two supervisors run (section 5). So the theorem is about the protocol among
supervisors that live or die as owners, and not about every crash. Since
`recoverLock` compares nothing but owners, the invariant is about what a recovery may find:
a directory without an owner is young and in the hands of a supervisor that lives
(`OwnerlessIsYoung`), so that nobody sets out to recover one; and while the owner at the path
may be dead, whoever recovers has the claim (`RecoveryIsExclusive`), so that one supervisor
renames that directory and no other one the directory that follows.

**The campaigns of a multiscan** (`MultiscanProofs`): `LedgerIsSound`, for any number of tasks, workers, attempts, crashes and reruns. A worker at
work has a task that was taken from the list, that nobody else has and that is not finished,
and its attempt is later than every receipt (`WorkerIsSound`); what waits in the list is as
the campaign found it (`RestIsUntouched`). The result is compared with the ledger only at
the end, so `CountsAgree` says of every moment before that the counters are the ledger's
count of the tasks that are neither waiting nor at work, as long as no receipt was refused.

**The sessions of the SDK** (`ScanSessionProofs`): `SessionIsSound`, for every set of
options, limit, cost and number of scans. `StagesAgree` ties each of the stages of `#run`
to the row and the files, `LimitHolds` what was seen of the cost to the limit or to an abort
that is on its way, and `FollowUpAgrees` counts the follow-up; the row, the limit and the
outcome of an ended scan are what these leave.

**Publications** (`ScanSessionProofs`): `PublicationIsSound`, for any findings, issues and
attempts, and whatever the agent leaves out, repeats or mixes up. Every issue has left a call
or a line that names it or nothing (`IssuesAreTold`), and what is named was made
(`EvidenceIsOfIssues`). That nothing is unclear only if *every* issue is known
(`VerdictHolds`) is a count: each finding whose call is good names an issue, no two name
the same one, and there are as many issues as findings that made one.

**The credential home** (`CredentialHomeProofs`): `HomeIsSound`, for any number of scans, of
clients of earlier releases and of commands. The lock is a directory and a transaction:
`LockHolds` says who may be where while the two change hands, and that what is about to be
recovered is still nobody's. `PreparedIsOwn` follows a client through staging, registration
and installation; `AnnouncedIsComplete` excepts the plugin that is being removed, since
its manifest may go last, which is how the removal in `Clear` is modelled.
`CredentialsAreKept` says that no import follows a logout and none replaces a login, with
the two exceptions that the code has: an import under way when the logout came (`raced`),
and a client that went back from its API key to stored credentials (`returned`). TLC refutes
the statement without either; section 5 tells what the second amounts to.

**Groups, workflow and validation** (`FindingRemediationProofs`). `GroupsAreSound`, for any
number of findings: the component of a finding, which the code reaches by a recursive
walk, is stated as the least closed set that holds it, so that what is still to be grouped
is closed under accepted pairs whatever was grouped before, and the support and the
conflicts kept for clusters agree with their members (`BooksAgree`). `WorkflowIsSound`, for any pairs,
failures and changes of the source: the row names the only scan that was completed, the
service is told nothing before the stage of the scan completed, groups are written once and
only when prepared (`WrittenInv`), and a saved review was read while its source was the one
it says (`ReviewInv`). It holds for any order of the commands: what the finding of
`workflow_any_order` breaks is that the workflow gets done. `ValidationIsSound` says what each step leaves
on disk when it fails, and that the limit counts only while nothing is decided.

**Only model-checked.**

* Everything that must happen (`RunEnds`, `CallsAreAnswered`, `TasksGetReceipts`,
  `EverythingSettles` and the like): TLAPS proves no liveness under fairness and no
  `ENABLED`.
* What folds or recursive operators compute, since there is no induction over data: the
  reduction of findings, drafts and their digests, the cost of a file, comparisons and their
  history, the receipts of components, migrations (`FindingsPersist`, `ResultsAreKept`,
  `CostIsAccounted`, `MatchingIsSound`, `ComponentsAreSound`).
* Of `MemoryAgrees`, that no batch and no success is refused (`ClaimIsAdmitted`,
  `FinishIsAdmitted`), which the runs check. No theorem can say it of a claim for all constants:
  with several workers and a lost answer the first finding below refutes it.
* `SuccessIsReported`: with three lost answers (finish, its repetition, and the read of
  `catch`) a run that succeeded is reported failed. And that what calls are told is also what
  the workbench stores, the rest of `AnswersAreTrue`.

## 5. Findings

Each is a run that TLC refutes; `PROJECT.json` quotes the statement.

* **The FIFO is not always the completion order** (`coordinator_fifo`). A comment
  at `deep-scan/coordinator.ts:660-662` says that reading the FIFO preserves real
  completion order. An acceptance whose answer is lost is made again at the end of
  the write tail (`worker-runner.ts:682`, `store.ts` `enqueueWrite`) and settles
  behind discoveries that the store accepted later. A reducer that starts in
  between claims a batch that is no prefix of the order, which the store refuses.
* **An adoption does not always retain completed results** (`coordinator_retained`).
  `skills/deep-security-scan/SKILL.md:56` says that the coordinator that adopts an
  expired lease retains completed worker results. When a reducer was canceled
  because its run was failing, and the process dies before the failure is stored,
  recovery does not give its inputs back: they stay `merging`. The adopter has
  them in its buffer, and its claim of them is refused. `ClaimIsAdmitted` and
  `FinishIsAdmitted` exempt inputs stranded in this way.
* **A replaced coordinator can fail its replacement** (`server_replaced`).
  `tests/test_deep_scan_coordinator.mjs:2537` asserts that a stale coordinator never fails
  the new owner. The catch path checks ownership once and then waits for its workers; when
  the run was adopted elsewhere and back by the same process in the meantime, its `fail`
  names the generation that the process holds by then.
* **Two supervisors can recover one lock** (`multiscan_recovery`). For a lock without an
  owner file `recoverLock` compares owners only, both absent, and renames away the lock
  that another supervisor has just created (`multiscan.test.ts:1277`).
* **A workflow can get stuck** (`workflow_any_order`). Repeating scan, publish and dedupe
  finishes a workflow, the README of the SDK says; but `publish` after a scan that sealed
  and did not complete binds the incomplete scan, and then `dedupe` refuses it for good.

Seen while modelling, without a run of their own:

* `write_scan_draft` says that "its saved checkpoint was retained" (near
  `workbench_saved_results.py:1326`) on a path on which `publishDraft` saved none. A crash
  in the first draft's writing leaves some of its three documents, and every later record
  call fails.
* `renewHeartbeat` may notice a replacement while `run()` unwinds: the waiter is told that
  the scan "ended without a terminal result". A cancellation between the failure's
  persistence and `finishLocally` is reported as "canceled". A stale request that is
  refused deletes the newer lease from the map (`store.ts:419`).
* With three calls TLC refutes `CallsAreAnswered`. Two claims of one process wait in its
  tail, sent without a lease (an observer adopts, a call begins), and the heartbeat expires
  between them. The second is granted a generation of its own, but `start` finds
  the coordinator of the one before and returns it (`registry.ts:21-22`). That coordinator
  sees that it was replaced and leaves; its heartbeat had kept the new generation fresh, and
  while a call waits nobody runs it.
* A replaced coordinator that hears of a cancellation while it publishes answers "canceled"
  before the workbench has stored it (`coordinator.ts:426`): the exception in `AnswersAreTrue`.
* Two concurrent clients may replace each other's confirmed links of findings; a `related`
  pair of one batch that other batches join makes the whole comparison refused; a pair saved by
  `matchCompletedScan` compared open and false-positive findings only, and a later
  `match --all` skips it.
* A failed restoration in the caller's validation leaves edited documents, which the
  recovery after a cost limit completes; an abort between its rewrites leaves the manifest
  "custom" with provisional findings.
* `bootstrapPlugin` (`runtime.ts:2457-2470`) trusts a staged plugin by the version of its
  manifest: one that an abort or a kill cut off is not repaired by later bootstraps of that
  version (`tests-ts/runtime.test.ts:1808` "repairs an interrupted marketplace" covers the
  marketplace file). A logout that races an import, or dies before its marker, lets ambient
  credentials come back.
* "Logout disables imports until you log in again", says the README of the SDK (`228-230`).
  A client that scanned with an API key and scans again with stored credentials imports
  without a look at the marker and at what is stored (`api.ts:2290-2304`): after a logout
  in between, the ambient sign-in is back.
* A worker whose coverage is incomplete without naming work makes the aggregate partial only
  as long as no other source has work outstanding (`artifact-scan-draft.ts:874`). When a later
  reducer settles that other work, the aggregate may be called complete, and the worker's
  statement is forgotten. `CompletenessIsHonest` excepts such workers (`stoodFor`).
* "Reducers cannot resolve review by omission" (`artifact-scan-draft.ts:854`), but where one
  worker settled a surface and another left it for follow-up, the first in the list stands,
  so a surface the reducer says nothing of may count as settled.
* Migration 34 (`workbench_schema.py:728-743`) associates findings with repositories before
  the targets of scans are filled in (`1001-1002`): a database older than version 16,
  upgraded in one opening, keeps past findings without a repository; in two it does not.
* `ScanLifecycle` defines `NeededRecoveryIsPossible` and `CanceledAdmitsNothingLater`, two
  statements that its model refutes.

## 6. Not modelled

Contents of files, prompts, reports and artifacts beyond what a property tells apart;
the classification of executor errors; audit records, counters and logs; ranking, targets
and snapshots, the scan contract's validation of one document; presentation; the web
application; containers and release automation; everything marked `not_modelled` in
`PROJECT.json`. Not modelled of parts that are: the recovery of released clients, and
providers and commands that give credentials (`CredentialHome`); the map of leases
that coordinators of one process share, in `DeepScanCoordinator` (it is in
`DeepScanServer`).

## 7. Plan

Done: the modules of section 2 and the proofs of section 4.

Left: `SuccessIsReported` for up to two lost answers; `ClaimIsAdmitted` when no
answer is lost.
