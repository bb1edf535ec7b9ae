-------------------------- MODULE MultiscanCampaign --------------------------
(***************************************************************************)
(* One multiscan output directory and the campaigns that are run in it, one  *)
(* after the other under the lock of MultiscanLock                           *)
(* (sdk/typescript/src/multiscan.ts, runCampaign).                           *)
(*                                                                           *)
(* Durable: the manifest, the ledger results.jsonl with one receipt per      *)
(* attempt, and one artifact directory per attempt.  A campaign reads the    *)
(* ledger, leaves out the tasks that are finished, and has its workers take  *)
(* the others from a common list; each worker tries its task until it        *)
(* succeeds, exhausts the budget or has failed MaxAttempts times.  The       *)
(* process may die, be interrupted, or fail to append a receipt.             *)
(*                                                                           *)
(* The checkout is part of the scan, whose outcome is a choice: it creates   *)
(* the artifact directory of the attempt and refuses one that is not empty.  *)
(***************************************************************************)
EXTENDS Naturals, Sequences, SequencesExt, FiniteSets

CONSTANTS
    Task,               \* the rows of the inventory
    Worker,             \* the concurrent workers of a campaign
    Config,             \* what the manifest records: inventory, prompts, budget
    None,
    MaxAttempts,        \* option --max-attempts
    MaxAttempt,         \* bound: attempt numbers
    MaxInterrupts,      \* bound: crashes and signals
    Fault               \* what a run lets go wrong, of {"crash", "signal", "append",
                        \* "manifest", "remove", "legacy"}

VARIABLES
    manifest,           \* manifest.json: None, "torn" or a configuration
    ledger,             \* ledger[t]: the receipts of t in results.jsonl, one line each
    garbled,            \* a line among them cannot be parsed
    torn,               \* a piece of a line follows them
    artifacts,          \* artifacts[t][n]: the directory attempt-n of t
    phase,              \* "down", "running" or "returned"
    config,             \* the configuration of the last campaign
    pending,            \* the tasks it has to do
    next,               \* the next of them
    receipts,           \* receipts[t]: the attempt it read for t, or 0
    worker,             \* the workers
    count,              \* its counters
    aborted,            \* its signal
    interrupts          \* bound: crashes and signals so far

disk == <<manifest, ledger, garbled, torn, artifacts>>
campaignVars == <<disk, phase, config, pending, next, receipts, worker, count,
                  aborted, interrupts>>

Attempt == 1 .. MaxAttempt
Status == {"completed", "completed_with_incomplete_coverage", "failed", "legacy"}
Receipt == [attempt : Attempt, status : Status, config : Config \cup {None}]
WorkerState ==
    [step : {"take", "scan", "record", "done", "rejected"},
     task : Task \cup {None}, attempt : 0 .. MaxAttempt,
     retry : 0 .. MaxAttempts, status : Status \cup {None, "exhausted"}]
Absent == [step |-> "done", task |-> None, attempt |-> 0, retry |-> 0, status |-> None]

CampaignTypeOK ==
    /\ manifest \in Config \cup {None, "torn"}
    /\ ledger \in [Task -> Seq(Receipt)]
    /\ garbled \in BOOLEAN /\ torn \in BOOLEAN /\ aborted \in BOOLEAN
    /\ artifacts \in [Task -> [Attempt -> {"absent", "some", "all"}]]
    /\ phase \in {"down", "running", "returned"}
    /\ config \in Config \cup {None}
    /\ IsInjective(pending) /\ Range(pending) \subseteq Task
    /\ next \in 1 .. Len(pending) + Cardinality(Worker) + 1
    /\ receipts \in [Task -> 0 .. MaxAttempt]
    /\ worker \in [Worker -> WorkerState]
    /\ count \in [{"completed", "incomplete", "failed"} -> 0 .. Cardinality(Task)]

\* A new directory, or one of an older release with a receipt for incomplete coverage.
CampaignInit ==
    /\ manifest = None /\ garbled = FALSE /\ torn = FALSE
    /\ \E old \in IF "legacy" \in Fault THEN {{}} \cup {{t} : t \in Task} ELSE {{}} :
         /\ ledger = [t \in Task |-> IF t \in old
              THEN <<[attempt |-> 1, status |-> "legacy", config |-> None]>> ELSE <<>>]
         /\ artifacts = [t \in Task |-> [n \in Attempt |->
              IF t \in old /\ n = 1 THEN "all" ELSE "absent"]]
    /\ phase = "down" /\ config = None /\ pending = <<>> /\ next = 1
    /\ receipts = [t \in Task |-> 0]
    /\ worker = [w \in Worker |-> Absent]
    /\ count = [c \in {"completed", "incomplete", "failed"} |-> 0]
    /\ aborted = FALSE /\ interrupts = 0

-----------------------------------------------------------------------------
(* What the ledger says. *)

\* readReceipts: the last receipt of each task counts.
LastAttempt(t) == IF ledger[t] = <<>> THEN 0 ELSE Last(ledger[t]).attempt
LastStatus(t) == IF ledger[t] = <<>> THEN None ELSE Last(ledger[t]).status

HasArtifacts(t) == LastAttempt(t) > 0 /\ artifacts[t][LastAttempt(t)] = "all"

Completed(t) == HasArtifacts(t) /\ LastStatus(t) = "completed"

\* legacyIncompleteCoverage: older releases recorded it as a failure.
Incomplete(t) ==
    /\ HasArtifacts(t)
    /\ LastStatus(t) \in {"completed_with_incomplete_coverage", "legacy"}

Finished(t) == Completed(t) \/ Incomplete(t)

CompletedTasks == {t \in Task : Completed(t)}
IncompleteTasks == {t \in Task : Incomplete(t)}
FinishedTasks == {t \in Task : Finished(t)}

-----------------------------------------------------------------------------
(* A campaign begins. *)

\* ensureManifest: written once, compared ever after.
EnsureManifest(c) == manifest \in {None, c} /\ manifest' = c

\* readReceipts cuts off a piece of a line and fails on a line it cannot parse;
\* the bound leaves room for the attempts of this campaign.
Run(c) ==
    /\ phase # "running"
    /\ EnsureManifest(c)
    /\ ~garbled
    /\ \A t \in Task : LastAttempt(t) + MaxAttempts <= MaxAttempt
    /\ torn' = FALSE
    /\ pending' = SetToSeq(Task \ FinishedTasks)
    /\ receipts' = [t \in Task |-> LastAttempt(t)]
    /\ count' = [completed |-> Cardinality(CompletedTasks),
                  incomplete |-> Cardinality(IncompleteTasks), failed |-> 0]
    /\ \E W \in SUBSET Worker :
         /\ Cardinality(W) = Min({Cardinality(Worker), Len(pending')})
         /\ worker' = [w \in Worker |-> [Absent EXCEPT !.step =
                          IF w \in W THEN "take" ELSE "done"]]
    /\ next' = 1 /\ aborted' = FALSE /\ phase' = "running" /\ config' = c
    /\ UNCHANGED <<ledger, garbled, artifacts, interrupts>>

\* The process dies between the creation of the manifest and its contents.
TearManifest ==
    /\ "manifest" \in Fault
    /\ phase # "running" /\ manifest = None /\ interrupts < MaxInterrupts
    /\ manifest' = "torn" /\ interrupts' = interrupts + 1
    /\ UNCHANGED <<ledger, garbled, torn, artifacts, phase, config, pending, next,
                   receipts, worker, count, aborted>>

-----------------------------------------------------------------------------
(* A worker. *)

Set(w, fields) == worker' = [worker EXCEPT ![w] = fields]
Reject(w) == Set(w, [Absent EXCEPT !.step = "rejected"])

\* A plausible mistake: the index is advanced before the task is read.
BugTakeNext(w) ==
    /\ phase = "running" /\ worker[w].step = "take"
    /\ IF aborted
       THEN Reject(w) /\ UNCHANGED next
       ELSE /\ next' = next + 1
            /\ IF next + 1 <= Len(pending)
               THEN Set(w, [step |-> "scan", task |-> pending[next + 1], retry |-> 0,
                            attempt |-> receipts[pending[next + 1]] + 1, status |-> None])
               ELSE Set(w, Absent)
    /\ UNCHANGED <<disk, phase, config, pending, receipts, count, aborted, interrupts>>

\* The list is read and the index advanced in one turn of the event loop.
Take(w) ==
    /\ phase = "running" /\ worker[w].step = "take"
    /\ IF aborted
       THEN Reject(w) /\ UNCHANGED next
       ELSE /\ next' = next + 1
            /\ IF next <= Len(pending)
               THEN Set(w, [step |-> "scan", task |-> pending[next], retry |-> 0,
                            attempt |-> receipts[pending[next]] + 1, status |-> None])
               ELSE Set(w, Absent)
    /\ UNCHANGED <<disk, phase, config, pending, receipts, count, aborted, interrupts>>

\* The scan of one attempt and what it leaves (what a recorded failure leaves is
\* never looked at again, so that "some" stands for all of it); a budget that ran out is a failure
\* that is not tried again.  After a signal a failure is not recorded.
Scan(w) ==
    LET t == worker[w].task  n == worker[w].attempt IN
    /\ phase = "running" /\ worker[w].step = "scan"
    /\ \E status \in {"completed", "completed_with_incomplete_coverage", "failed", "exhausted"},
          left \in {"absent", "some", "all"} :
         /\ artifacts[t][n] # "absent" => status = "failed" /\ left = artifacts[t][n]
         /\ status \in {"completed", "completed_with_incomplete_coverage"} => left = "all"
         /\ status \in {"failed", "exhausted"} /\ artifacts[t][n] = "absent" =>
              left = "some" \/ (aborted /\ left = "absent")
         /\ artifacts' = [artifacts EXCEPT ![t][n] = left]
         /\ IF aborted /\ status \in {"failed", "exhausted"}
            THEN Reject(w)
            ELSE Set(w, [worker[w] EXCEPT !.step = "record", !.status = status])
    /\ UNCHANGED <<manifest, ledger, garbled, torn, phase, config, pending, next, receipts,
                   count, aborted, interrupts>>

\* appendReceipt: a line that follows a piece of another one cannot be parsed.
AppendReceipt(w) ==
    /\ IF torn
       THEN garbled' = TRUE /\ UNCHANGED ledger
       ELSE /\ ledger' = [ledger EXCEPT ![worker[w].task] = Append(@,
                 [attempt |-> worker[w].attempt, config |-> config,
                  status |-> IF worker[w].status = "exhausted" THEN "failed"
                             ELSE worker[w].status])]
            /\ UNCHANGED garbled
    /\ torn' = FALSE

\* A plausible mistake: every attempt of a campaign has the same number.
BugRetry(w) ==
    Set(w, [worker[w] EXCEPT !.step = "scan", !.status = None, !.retry = @ + 1])

\* The next attempt of the same task, unless a signal came.
Retry(w) ==
    IF aborted
    THEN Reject(w)
    ELSE Set(w, [worker[w] EXCEPT !.step = "scan", !.status = None,
                                  !.attempt = @ + 1, !.retry = @ + 1])

Record(w) ==
    LET s == worker[w] IN
    /\ phase = "running" /\ s.step = "record"
    /\ AppendReceipt(w)
    /\ IF s.status = "failed" /\ s.retry + 1 < MaxAttempts
       THEN Retry(w) /\ UNCHANGED count
       ELSE /\ Set(w, [Absent EXCEPT !.step = "take"])
            /\ count' = [count EXCEPT ![CASE s.status = "completed" -> "completed"
                                          [] s.status \in {"failed", "exhausted"} -> "failed"
                                          [] OTHER -> "incomplete"] = @ + 1]
    /\ UNCHANGED <<manifest, artifacts, phase, config, pending, next, receipts,
                   aborted, interrupts>>

\* The disk is full: some of the line is written, or nothing.
AppendFails(w) ==
    /\ "append" \in Fault /\ interrupts < MaxInterrupts
    /\ phase = "running" /\ worker[w].step = "record"
    /\ torn' \in {torn, TRUE}
    /\ Reject(w)
    /\ interrupts' = interrupts + 1
    /\ UNCHANGED <<manifest, ledger, garbled, artifacts, phase, config, pending, next,
                   receipts, count, aborted>>

-----------------------------------------------------------------------------
(* A campaign ends. *)

\* Promise.allSettled: a worker that rejected makes the campaign reject.
Settle ==
    /\ phase = "running"
    /\ \A w \in Worker : worker[w].step \in {"done", "rejected"}
    /\ phase' = IF \E w \in Worker : worker[w].step = "rejected" THEN "down" ELSE "returned"
    /\ worker' = [w \in Worker |-> Absent]
    /\ UNCHANGED <<disk, config, pending, next, receipts, count, aborted, interrupts>>

Signal ==
    /\ "signal" \in Fault /\ interrupts < MaxInterrupts
    /\ phase = "running" /\ ~aborted
    /\ aborted' = TRUE /\ interrupts' = interrupts + 1
    /\ UNCHANGED <<disk, phase, config, pending, next, receipts, worker, count>>

\* What the scans at work had written stays; so does a piece of a receipt.
Crash ==
    /\ "crash" \in Fault /\ interrupts < MaxInterrupts
    /\ phase = "running"
    /\ \E left \in {"absent", "some", "all"} :
         artifacts' = [t \in Task |-> [n \in Attempt |->
            IF \E w \in Worker : /\ worker[w].step = "scan"
                                 /\ worker[w].task = t /\ worker[w].attempt = n
                                 /\ artifacts[t][n] = "absent"
            THEN left ELSE artifacts[t][n]]]
    /\ torn' \in {torn} \cup {\E w \in Worker : worker[w].step = "record"}
    /\ phase' = "down" /\ worker' = [w \in Worker |-> Absent]
    /\ interrupts' = interrupts + 1
    /\ UNCHANGED <<manifest, ledger, garbled, config, pending, next, receipts, count, aborted>>

\* Somebody removes a file of an artifact directory between two campaigns.
RemoveArtifact ==
    /\ "remove" \in Fault /\ interrupts < MaxInterrupts
    /\ phase = "down"
    /\ \E t \in Task, n \in Attempt :
         /\ artifacts[t][n] = "all"
         /\ artifacts' = [artifacts EXCEPT ![t][n] = "some"]
    /\ interrupts' = interrupts + 1
    /\ UNCHANGED <<manifest, ledger, garbled, torn, phase, config, pending, next,
                   receipts, worker, count, aborted>>

WorkerStep == \E w \in Worker : Take(w) \/ Scan(w) \/ Record(w)

CampaignNext ==
    \/ \E c \in Config : Run(c)
    \/ TearManifest
    \/ WorkerStep
    \/ \E w \in Worker : AppendFails(w)
    \/ Settle \/ Signal \/ Crash \/ RemoveArtifact

CampaignSpec == CampaignInit /\ [][CampaignNext]_campaignVars

\* Scans end, the event loop runs, and the command is run again.
CampaignLiveSpec ==
    /\ CampaignSpec
    /\ WF_campaignVars(WorkerStep) /\ WF_campaignVars(Settle)
    /\ WF_campaignVars(\E c \in Config : Run(c))

-----------------------------------------------------------------------------
(* Properties. *)

\* No attempt number of a task is recorded twice and later receipts have higher
\* ones, over crashes and reruns: "the last receipt" and "the last attempt" agree.
AttemptsIncrease ==
    \A t \in Task : \A i, j \in DOMAIN ledger[t] :
        i < j => ledger[t][i].attempt < ledger[t][j].attempt

\* A task is not scanned by two workers, nor again once it is finished, nor into
\* the directory that its last receipt points to.
FinishedTasksRest ==
    \A w \in Worker : worker[w].step = "scan" =>
        /\ ~Finished(worker[w].task)
        /\ worker[w].attempt > LastAttempt(worker[w].task)
        /\ \A v \in Worker \ {w} : worker[v].task # worker[w].task

\* What a campaign returns is what the ledger says of every task, skipped or not;
\* a task it counts as completed has its artifacts.
ResultIsTheLedger ==
    phase = "returned" =>
        /\ count.completed = Cardinality(CompletedTasks)
        /\ count.incomplete = Cardinality(IncompleteTasks)
        /\ count.failed = Cardinality(Task) - Cardinality(FinishedTasks)
        /\ \A t \in Task : LastStatus(t) # None

\* All receipts of a directory were written under one configuration.
OneConfiguration ==
    \A t, u \in Task : \A i \in DOMAIN ledger[t], j \in DOMAIN ledger[u] :
        \/ None \in {ledger[t][i].config, ledger[u][j].config}
        \/ ledger[t][i].config = ledger[u][j].config

\* The ledger is the memory of the campaigns: it grows in order, nothing it calls
\* finished is done again, what a campaign returns can be read off it, and it was
\* written under one configuration.
LedgerIsSound ==
    AttemptsIncrease /\ FinishedTasksRest /\ ResultIsTheLedger /\ OneConfiguration

\* After the last interruption every task gets its receipt.
TasksAreAnswered == <>[](\A t \in Task : LastStatus(t) # None)

=============================================================================
