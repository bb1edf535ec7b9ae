----------------------------- MODULE ScanSession -----------------------------
(***************************************************************************)
(* One CodexSecurity instance of the SDK (sdk/typescript/src/api.ts): its     *)
(* scans, one operation at a time, its logins, and close().                  *)
(*                                                                           *)
(* A scan locks the credential home, prepares the runtime that the instance   *)
(* keeps, registers itself in the workbench, runs the turn while the tracker   *)
(* follows its cost, seals and completes, and runs the follow-up.  It can be  *)
(* aborted by the caller, by close() or by the cost limit before any of these *)
(* steps; a workbench command that was aborted may have taken effect.  The    *)
(* scan's row, the lock, and the environment (another process that holds the  *)
(* lock, or cancels the scan) are the rest of the state.                      *)
(***************************************************************************)
EXTENDS Naturals, FiniteSets

CONSTANTS
    Option,             \* the options of scans, of [deep, limited, validation, post, shared : BOOLEAN]
    Limit,              \* maxCostUsd of a limited scan
    MaxCost,            \* bound: the cost that is ever observed or granted
    MaxRuns             \* bound: scans of the instance

VARIABLES
    runs, opt, pc,
    outcome,            \* what the last scan answered
    failure,            \* the error it is about to answer
    reason,             \* signal.reason: what aborted it first
    userAborted, closeAborted,  \* options.signal, #abortController.signal
    closing,            \* close(): "open", "waiting", "done"
    runtime,            \* #runtime, or its promise: "none", "preparing", "ready", "orphan"
    login,              \* one login handle: "none", "preparing", "waiting"
    lock,               \* of the credential home: "free", "ours", "theirs"
    active, thread, tracker, post, postRuns,
    limit, seen, notified, \* maxCostUsd (0: none), the cost seen, notifiedLimit
    request, raise, budgetClosed, \* onBudgetApproaching: "none", "asked", "saving"
    row, rowLimit, files,   \* the scan in the workbench (partial: complete, with partial
                        \* coverage) and its result files
    incident            \* ghost: what was cut off

control == <<runs, opt, outcome, failure>>
signals == <<reason, userAborted, closeAborted>>
instance_ == <<closing, runtime, login>>
scanning == <<active, thread, post, postRuns>>
cost == <<limit, seen, notified, tracker>>
budget == <<request, raise, budgetClosed>>
saved == <<row, rowLimit, files>>
sessionVars == <<control, pc, signals, instance_, lock, scanning, cost, budget,
                 saved, incident>>

Stage == {"inputs", "session", "runtime", "credentials", "output", "register", "prompt",
          "turn", "validation", "stop", "prepare", "collect", "complete", "followup",
          "following", "match"}
Unwinding == {"catch", "recover", "recovered", "fail", "post", "posting", "raise"}
Answer == {"none", "returned", "other", "limit", "interrupted", "closed", "release"}

\* The flags, and the other variables.
FlagsOK ==
    /\ userAborted \in BOOLEAN /\ closeAborted \in BOOLEAN /\ active \in BOOLEAN
    /\ thread \in BOOLEAN /\ budgetClosed \in BOOLEAN

ValuesOK ==
    /\ runs \in 0 .. MaxRuns /\ opt \in Option
    /\ pc \in {"idle", "finally"} \cup Stage \cup Unwinding
    /\ outcome \in Answer /\ failure \in {"none", "other", "limit"}
    /\ reason \in {"none", "user", "close", "limit"}
    /\ closing \in {"open", "waiting", "done"}
    /\ runtime \in {"none", "preparing", "ready", "orphan"}
    /\ login \in {"none", "preparing", "waiting"}
    /\ lock \in {"free", "ours", "theirs"} /\ tracker \in {"off", "on", "stopped"}
    /\ post \in {"none", "ready", "used"} /\ postRuns \in Nat
    /\ {limit, seen, notified, raise, rowLimit} \subseteq 0 .. MaxCost
    /\ request \in {"none", "asked", "saving"}
    /\ row \in {"none", "running", "complete", "partial", "failed", "canceled"}
    /\ files \in {"none", "sealed", "edited", "broken"}
    /\ incident \subseteq {"orphaned", "unsaved"}

SessionTypeOK == FlagsOK /\ ValuesOK

Ended == {"complete", "partial", "failed", "canceled"}
Closed == closing # "open"
Aborted == reason # "none" \/ closeAborted
BudgetAborted == Aborted \/ budgetClosed
Over(c) == limit > 0 /\ c > limit
Near(c) == 5 * c >= 4 * limit

SessionInit ==
    /\ runs = 0 /\ opt = (CHOOSE o \in Option : TRUE) /\ pc = "idle" /\ outcome = "none" /\ failure = "none"
    /\ reason = "none" /\ userAborted = FALSE /\ closeAborted = FALSE
    /\ closing = "open" /\ runtime = "none" /\ login = "none" /\ lock = "free"
    /\ active = FALSE /\ thread = FALSE /\ tracker = "off" /\ post = "none" /\ postRuns = 0
    /\ limit = 0 /\ seen = 0 /\ notified = 0 /\ request = "none" /\ raise = 0
    /\ budgetClosed = FALSE /\ row = "none" /\ rowLimit = 0 /\ files = "none" /\ incident = {}

\* #trackOperation: one operation at a time, none once close() was called.
Start ==
    /\ pc = "idle" /\ ~Closed /\ runs < MaxRuns
    /\ runs' = runs + 1 /\ opt' \in Option /\ pc' = "inputs"
    /\ outcome' = "none" /\ failure' = "none" /\ reason' = "none" /\ userAborted' = FALSE
    /\ active' = FALSE /\ thread' = FALSE /\ tracker' = "off" /\ post' = "none" /\ postRuns' = 0
    /\ limit' = (IF opt'.limited THEN Limit ELSE 0) /\ seen' = 0 /\ notified' = 0
    /\ request' = "none" /\ raise' = 0 /\ budgetClosed' = FALSE
    /\ row' = "none" /\ rowLimit' = 0 /\ files' = "none" /\ incident' = {}
    /\ UNCHANGED <<closeAborted, instance_, lock>>

----------------------------------------------------------------------------
(* The scan, stage by stage.                                                 *)

Goto(stage) == pc' = stage

\* throwIfAborted and requireOpen at the end of a stage.
Proceed(stage) == ~Aborted /\ ~Closed /\ Goto(stage)

Steady == UNCHANGED <<control, signals, instance_>>

ValidateInputs ==
    /\ pc = "inputs" /\ Proceed("session") /\ Steady
    /\ UNCHANGED <<lock, scanning, cost, budget, saved, incident>>

TakeLock ==
    /\ pc = "session" /\ lock = "free" /\ lock' = "ours" /\ Goto("runtime") /\ Steady
    /\ UNCHANGED <<scanning, cost, budget, saved, incident>>

\* #ensureRuntime, which starts the preparation once, or #refreshPersistentRuntime.
EnsureRuntime ==
    /\ pc = "runtime" /\ ~Closed
    /\ \/ runtime = "none" /\ runtime' = "preparing" /\ UNCHANGED pc
       \/ runtime = "ready" /\ Proceed("credentials") /\ UNCHANGED runtime
    /\ UNCHANGED <<control, signals, closing, login, lock, scanning, cost, budget, saved, incident>>

\* The promise settles.  What was prepared for a client that is closed by then is
\* left for close().
RuntimeReady ==
    /\ pc = "runtime" /\ runtime = "preparing"
    /\ \/ ~Closed /\ runtime' = "ready" /\ Goto("credentials") /\ UNCHANGED lock
       \/ Closed /\ runtime' = "orphan" /\ Goto("catch") /\ lock' = "free"
       \/ runtime' = "none" /\ Goto("catch") /\ lock' = "free"
    /\ UNCHANGED <<control, signals, closing, login, scanning, cost, budget, saved, incident>>

\* A deep scan keeps the lock while it shares the configuration with others.
CheckCredentials ==
    /\ pc = "credentials" /\ Proceed("output") /\ Steady
    /\ lock' = (IF opt.deep /\ opt.shared THEN lock ELSE "free")
    /\ UNCHANGED <<scanning, cost, budget, saved, incident>>

PrepareOutput ==
    /\ pc = "output" /\ Proceed("register") /\ Steady
    /\ UNCHANGED <<lock, scanning, cost, budget, saved, incident>>

Register ==
    /\ pc = "register" /\ row' = "running" /\ rowLimit' = limit
    /\ \/ Proceed("prompt") /\ active' = TRUE /\ UNCHANGED incident
       \/ Aborted /\ Goto("catch") /\ incident' = incident \cup {"orphaned"} /\ UNCHANGED active
    /\ Steady /\ UNCHANGED <<lock, thread, post, postRuns, cost, budget, files>>

PreparePrompt ==
    /\ pc = "prompt" /\ Proceed("turn") /\ post' = (IF opt.post THEN "ready" ELSE "none")
    /\ Steady /\ UNCHANGED <<lock, active, thread, postRuns, cost, budget, saved, incident>>

ThreadStarted ==
    /\ pc = "turn" /\ ~thread /\ thread' = TRUE /\ tracker' = "on"
    /\ Steady
    /\ UNCHANGED <<pc, lock, active, post, postRuns, limit, seen, notified, budget, saved, incident>>

TurnEnds ==
    /\ pc = "turn" /\ thread /\ Proceed(IF opt.validation THEN "validation" ELSE "stop")
    /\ Steady /\ UNCHANGED <<lock, scanning, cost, budget, saved, incident>>

\* runCustomValidation; no more is asked for once its turn is over.
Validate ==
    /\ pc = "validation" /\ Proceed("stop") /\ budgetClosed' = TRUE
    /\ Steady /\ UNCHANGED <<lock, scanning, cost, request, raise, saved, incident>>

\* What the tracker reads last may be over the limit.
LastCost ==
    /\ tracker' = (IF tracker = "on" THEN "stopped" ELSE tracker)
    /\ seen' \in (IF tracker = "on" THEN seen .. MaxCost ELSE {seen})
    /\ reason' = (IF reason = "none" /\ ~closeAborted /\ tracker = "on" /\ seen' > seen
                     /\ Over(seen')
                    THEN "limit" ELSE reason)

StopTracker ==
    /\ pc = "stop" /\ LastCost /\ budgetClosed' = TRUE
    /\ Goto(IF Aborted \/ Closed \/ reason' = "limit" THEN "catch" ELSE "prepare")
    /\ UNCHANGED <<control, userAborted, closeAborted, instance_, lock, scanning, limit,
                   notified, request, raise, saved, incident>>

\* prepare-scan-completion seals the files of a scan that is still running.
PrepareCompletion ==
    /\ pc = "prepare" /\ row = "running" /\ files' = "sealed"
    /\ \/ Proceed("collect")
       \/ Aborted /\ Goto("catch")
    /\ Steady /\ UNCHANGED <<lock, scanning, cost, budget, row, rowLimit, incident>>

CollectResult ==
    /\ pc = "collect" /\ Proceed("complete") /\ Steady
    /\ UNCHANGED <<lock, scanning, cost, budget, saved, incident>>

CompleteScan ==
    /\ pc = "complete" /\ row = "running" /\ row' = "complete"
    /\ \/ /\ Proceed(IF post = "ready" THEN "followup" ELSE "match") /\ active' = FALSE
       \/ Aborted /\ Goto("catch") /\ UNCHANGED active
    /\ Steady
    /\ UNCHANGED <<lock, thread, post, postRuns, cost, budget, rowLimit, files, incident>>

\* The artifacts are read, then the follow-up runs in the same thread.
StartFollowUp ==
    /\ pc = "followup" /\ Proceed("following")
    /\ post' = "used" /\ postRuns' = postRuns + 1
    /\ Steady /\ UNCHANGED <<lock, active, thread, cost, budget, saved, incident>>

\* A plausible mistake: what a follow-up that failed has changed stays.
BugEndFollowUp ==
    /\ pc = "following"
    /\ \/ Proceed("match") /\ files' \in {"sealed", "edited", "broken"}
       \/ Goto("catch") /\ files' \in {"sealed", "edited", "broken"} /\ Aborted
    /\ Steady /\ UNCHANGED <<lock, scanning, cost, budget, row, rowLimit, incident>>

\* A follow-up that failed has its changes taken back, unless the scan was aborted.
EndFollowUp ==
    /\ pc = "following"
    /\ \/ Proceed("match") /\ files' \in {"sealed", "edited"}
       \/ Goto("catch") /\ files' \in {"sealed", "broken"} /\ ~Aborted
       \/ Goto("catch") /\ files' \in {"sealed", "edited", "broken"} /\ Aborted
    /\ Steady /\ UNCHANGED <<lock, scanning, cost, budget, row, rowLimit, incident>>

\* The findings are matched with those of other scans; failures, aborts included, warn.
MatchFindings ==
    /\ pc = "match" /\ Goto("finally") /\ outcome' = "returned"
    /\ UNCHANGED <<runs, opt, failure, signals, instance_, lock, scanning, cost, budget, saved, incident>>

\* Any stage but the last may throw; #prepareSession frees the lock on its way out.
Throw ==
    /\ pc \in Stage \ {"match", "following", "runtime"} \/ (pc = "runtime" /\ runtime # "preparing")
    /\ Goto("catch")
    /\ lock' = (IF pc \in {"runtime", "credentials"} THEN "free" ELSE lock)
    /\ UNCHANGED <<control, signals, instance_, scanning, cost, budget, saved, incident>>

----------------------------------------------------------------------------
(* The unwinding.                                                            *)

CanRecover ==
    /\ reason' = "limit" /\ opt.deep /\ opt.limited /\ thread /\ active
    /\ ~closeAborted /\ ~userAborted

Catch ==
    /\ pc = "catch" /\ LastCost
    /\ failure' = (IF reason' = "limit" THEN "limit" ELSE "other")
    /\ Goto(IF CanRecover THEN "recover" ELSE "fail")
    /\ UNCHANGED <<runs, opt, outcome, userAborted, closeAborted, instance_, lock, scanning,
                   limit, notified, budget, saved, incident>>

\* complete-budget-exhausted-scan, without the signal.
RecoverBudget ==
    /\ pc = "recover"
    /\ \/ /\ row = "running" /\ row' = "partial" /\ files' = "sealed"
          /\ active' = FALSE /\ post' = "none" /\ Goto("recovered")
       \/ Goto("fail") /\ UNCHANGED <<row, files, active, post>>
    /\ Steady /\ UNCHANGED <<lock, thread, postRuns, cost, budget, rowLimit, incident>>

CollectRecovered ==
    /\ pc = "recovered"
    /\ \/ ~closeAborted /\ ~userAborted /\ outcome' = "returned" /\ Goto("finally")
       \/ Goto("fail") /\ UNCHANGED outcome
    /\ UNCHANGED <<runs, opt, failure, signals, instance_, lock, scanning, cost, budget, saved, incident>>

\* fail-scan, without the signal; its errors are dropped.
FailScan ==
    /\ pc = "fail" /\ Goto("post")
    /\ \/ active /\ row = "running" /\ row' = "failed" /\ UNCHANGED incident
       \/ active /\ row = "running" /\ incident' = incident \cup {"unsaved"} /\ UNCHANGED row
       \/ ~(active /\ row = "running") /\ UNCHANGED <<row, incident>>
    /\ Steady /\ UNCHANGED <<lock, scanning, cost, budget, rowLimit, files>>

PostScan ==
    /\ pc = "post" /\ Steady
    /\ \/ post = "ready" /\ ~Aborted /\ post' = "used" /\ postRuns' = postRuns + 1 /\ Goto("posting")
       \/ ~(post = "ready" /\ ~Aborted) /\ Goto("raise") /\ UNCHANGED <<post, postRuns>>
    /\ UNCHANGED <<lock, active, thread, cost, budget, saved, incident>>

EndPostScan ==
    /\ pc = "posting" /\ Goto("raise") /\ Steady
    /\ UNCHANGED <<lock, scanning, cost, budget, saved, incident>>

Raise ==
    /\ pc = "raise" /\ Goto("finally")
    /\ outcome' = (CASE Closed -> "closed"
                     [] ~Closed /\ failure = "limit" -> "limit"
                     [] ~Closed /\ failure # "limit" /\ Aborted ->
                          IF reason = "limit" THEN "limit" ELSE "interrupted"
                     [] OTHER -> "other")
    /\ UNCHANGED <<runs, opt, failure, signals, instance_, lock, scanning, cost, budget, saved, incident>>

\* finally: the request for more is called off and the lock is freed, whose error
\* only a scan that returned may answer.
Finally ==
    /\ pc = "finally" /\ Goto("idle") /\ budgetClosed' = TRUE
    /\ lock' = (IF lock = "ours" THEN "free" ELSE lock)
    /\ outcome' \in {outcome} \cup (IF lock = "ours" /\ outcome = "returned" THEN {"release"} ELSE {})
    /\ UNCHANGED <<runs, opt, failure, signals, instance_, scanning, cost, request, raise, saved, incident>>

----------------------------------------------------------------------------
(* The cost and its limit.                                                   *)

\* onCost: over the limit the scan is aborted, near it more is asked for, once.
ObserveCost ==
    /\ tracker = "on" /\ seen' \in seen + 1 .. MaxCost
    /\ reason' = (IF Over(seen') /\ ~Aborted THEN "limit" ELSE reason)
    /\ IF limit > 0 /\ ~Over(seen') /\ ~BudgetAborted /\ notified # limit /\ Near(seen')
         THEN request' = "asked" /\ notified' = limit
         ELSE UNCHANGED <<request, notified>>
    /\ UNCHANGED <<control, pc, userAborted, closeAborted, instance_, lock, scanning, limit,
                   tracker, raise, budgetClosed, saved, incident>>

AnswerRequest ==
    /\ request = "asked"
    /\ \/ request' = "none" /\ UNCHANGED raise
       \/ /\ ~BudgetAborted /\ active /\ request' = "saving"
          /\ raise' \in {n \in limit + 1 .. MaxCost : n > seen}
    /\ UNCHANGED <<control, pc, signals, instance_, lock, scanning, cost, budgetClosed, saved, incident>>

\* set-scan-cost-limit, which may have taken effect although it was aborted.
SaveLimit ==
    /\ request = "saving" /\ request' = "none"
    /\ \/ /\ row = "running" /\ raise > rowLimit /\ rowLimit' = raise
          /\ limit' = (IF BudgetAborted THEN limit ELSE raise)
       \/ UNCHANGED <<rowLimit, limit>>
    /\ UNCHANGED <<control, pc, signals, instance_, lock, scanning, seen, notified, tracker,
                   raise, budgetClosed, row, files, incident>>

----------------------------------------------------------------------------
(* The instance and its environment.                                         *)

Abort ==
    /\ pc # "idle" /\ ~userAborted /\ userAborted' = TRUE
    /\ reason' = (IF Aborted THEN reason ELSE "user")
    /\ UNCHANGED <<control, pc, closeAborted, instance_, lock, scanning, cost, budget, saved, incident>>

\* #startLogin: the credential home is prepared before there is a handle.
StartLogin ==
    /\ ~Closed /\ login = "none" /\ login' = "preparing"
    /\ UNCHANGED <<control, pc, signals, closing, runtime, lock, scanning, cost, budget, saved, incident>>

TrackLogin ==
    /\ login = "preparing" /\ login' = (IF Closed THEN "none" ELSE "waiting")
    /\ UNCHANGED <<control, pc, signals, closing, runtime, lock, scanning, cost, budget, saved, incident>>

EndLogin ==
    /\ login = "waiting" /\ login' = "none"
    /\ UNCHANGED <<control, pc, signals, closing, runtime, lock, scanning, cost, budget, saved, incident>>

Close ==
    /\ closing = "open" /\ closing' = "waiting"
    /\ closeAborted' = (pc # "idle" \/ login = "waiting" \/ runtime = "preparing")
    /\ reason' = (IF closeAborted' /\ ~Aborted THEN "close" ELSE reason)
    /\ UNCHANGED <<control, pc, userAborted, runtime, login, lock, scanning, cost, budget, saved, incident>>

\* #finishClose: when the operation and the handles have settled, the runtime is
\* removed, also one that only its promise holds.
FinishClose ==
    /\ closing = "waiting" /\ pc = "idle" /\ login # "waiting"
    /\ closing' = "done" /\ runtime' = "none"
    /\ UNCHANGED <<control, pc, signals, login, lock, scanning, cost, budget, saved, incident>>

\* Who holds the lock is only seen by a scan that waits for it.
OthersLock ==
    /\ pc = "session"
    /\ \/ lock = "free" /\ lock' = "theirs"
       \/ lock = "theirs" /\ lock' = "free"
    /\ UNCHANGED <<control, pc, signals, instance_, scanning, cost, budget, saved, incident>>

CanceledElsewhere ==
    /\ row = "running" /\ row' = "canceled"
    /\ UNCHANGED <<control, pc, signals, instance_, lock, scanning, cost, budget, rowLimit, files, incident>>

RunStep ==
    \/ ValidateInputs \/ TakeLock \/ EnsureRuntime \/ RuntimeReady \/ CheckCredentials
    \/ PrepareOutput \/ Register \/ PreparePrompt \/ ThreadStarted \/ TurnEnds \/ Validate
    \/ StopTracker \/ PrepareCompletion \/ CollectResult \/ CompleteScan \/ StartFollowUp
    \/ EndFollowUp \/ MatchFindings \/ Throw
    \/ Catch \/ RecoverBudget \/ CollectRecovered \/ FailScan \/ PostScan \/ EndPostScan
    \/ Raise \/ Finally

SessionNext ==
    \/ Start \/ RunStep \/ ObserveCost \/ AnswerRequest \/ SaveLimit
    \/ Abort \/ StartLogin \/ TrackLogin \/ EndLogin \/ Close \/ FinishClose
    \/ OthersLock \/ CanceledElsewhere

\* What was aborted is not waited for: the model, the lock and the commands get the
\* signal, and the commands of the unwinding have timeouts of their own.
DueStep == (Aborted /\ RunStep) \/ (Closed /\ EndLogin) \/ FinishClose
SessionSpec == SessionInit /\ [][SessionNext]_sessionVars
SessionLiveSpec == SessionSpec /\ WF_sessionVars(DueStep)

----------------------------------------------------------------------------
(* What a caller of the instance relies on.                                  *)

Idle == pc = "idle"

\* A scan that returned is saved as complete, with partial coverage when its budget
\* ran out, and its files are the sealed ones, or what a follow-up that succeeded
\* made of them: never what one left that broke off.
ReturnedScansAreSaved ==
    pc \in {"finally", "idle"} /\ outcome = "returned" =>
        row \in {"complete", "partial"} /\ files \in {"sealed", "edited"}

\* A scan that is over does not stay "running", unless its registration was cut off
\* or fail-scan failed; and it never keeps the lock of the credential home.
EndedScansAreClosed ==
    Idle => /\ row = "running" => incident # {}
            /\ lock # "ours"

\* The limit that is enforced is never above the one that is recorded, and a scan that
\* returned stayed below it, or was recovered as partial.
LimitsAreKept ==
    /\ row = "running" => limit <= rowLimit
    /\ outcome = "returned" /\ row = "complete" => ~Over(seen)

\* The follow-up runs once, and never of a scan whose budget ran out and was recovered.
FollowUpRunsOnce ==
    postRuns <= 1 /\ (row = "partial" => postRuns = 0)

\* When close() is over nothing of the instance is left: no operation, login or runtime.
ClosingLeavesNothing == closing = "done" => Idle /\ login # "waiting" /\ runtime = "none"

SessionIsSound ==
    /\ ReturnedScansAreSaved
    /\ EndedScansAreClosed
    /\ LimitsAreKept
    /\ FollowUpRunsOnce
    /\ ClosingLeavesNothing

\* An abort ends the scan, and close() comes to its end.
Settled == ~(Aborted /\ pc # "idle") /\ closing # "waiting"
SessionSettles == []<>Settled
=============================================================================
