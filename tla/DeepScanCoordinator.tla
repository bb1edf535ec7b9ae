------------------------- MODULE DeepScanCoordinator -------------------------
(***************************************************************************)
(* The Deep Scan coordinators (mcp-app/src/deep-scan/coordinator.ts), their  *)
(* worker runners (worker-runner.ts) and the workbench client they write     *)
(* through (store.ts), on top of the rows of DeepScanStore.                  *)
(*                                                                           *)
(* A coordinator is named by the generation it claimed, so 2 .. MaxGeneration *)
(* are all the coordinators one run ever has, in one MCP process or several. *)
(* A coordinator that lost its lease goes on until it notices.               *)
(*                                                                           *)
(* JavaScript runs to completion: a turn of the scheduler is one step, and   *)
(* what a runner does between two awaits is one step too.  A runner that     *)
(* waits for the workbench is named by the request it made.  The write tail  *)
(* of store.ts runs one request at a time, in the order they were made, and  *)
(* hands each answer to its caller before the next begins: a transaction and *)
(* its answer are one step.  A request made again goes to the end.           *)
(*                                                                           *)
(* Worker ids are random in the code and numbers here: rows are read back in *)
(* order of creation, which is the order of the numbers.                     *)
(* Left out: files, prompts, the validation of artifacts (it fails or not),  *)
(* audit records and progress counters, and what onStopped publishes.        *)
(***************************************************************************)
EXTENDS DeepScanStore, Sequences

CONSTANTS
    Workers,        \* config.workers
    ErrorLimit,     \* config.stopAfterConsecutiveErrors ?? config.stopAfterNoNew
    Incidents,      \* bound of the model: what may befall a run, of AllIncidents
    MaxLost         \* bound of the model: answers of the workbench that are lost

\* A process dies; its transport closes; the user cancels; a heartbeat is so late
\* that a live coordinator's lease expires; the parent scan is failed or canceled
\* by another command; the time limit passes.
AllIncidents == {"crash", "shutdown", "user", "stall", "parent", "deadline"}

ASSUME CoordinatorAssumption ==
    /\ Incidents \subseteq AllIncidents
    /\ Workers \in Nat \ {0}
    /\ ErrorLimit \in Nat \ {0}
    /\ MaxLost \in Nat
    /\ Discovery \subseteq Nat /\ Reducer \subseteq Nat

VARIABLES
    sched,      \* the coordinators: what is in memory
    runner,     \* what each worker's runner does next
    lost        \* answers lost so far

localVars == <<sched, runner, lost>>
systemVars == <<vars, localVars>>

Coordinator == 2 .. MaxGeneration
Task == Discovery \cup Reducer

Pc == {"none", "starting", "loop", "waiting", "unwinding", "reconciling",
       "publishing", "finishing", "refinishing", "catching", "failing",
       "ended", "crashed"}

\* A runner that prepares its files, and one that asks for a row, claims its inputs, starts an attempt, reports an
\* error it will retry, commits a result (again, when it heard no answer), or
\* leaves: replaced, failed, given up as not retryable, or canceled.
Request == {"queue", "claim", "start", "retry", "accept", "acceptAgain", "commit",
            "commitAgain", "replace", "fail", "abandon", "cancel"}
RunnerStep == Request \cup {"idle", "prepare", "run", "sleep", "settled"}
Outcome == {"succeeded", "replaced", "failed", "canceled", "rejected"}
AbortReason == {"none", "shutdown", "user", "lost", "deadline", "saturated", "failure"}
Result == RunStatus \cup {"replaced"}

\* active, reducer and held: the workers whose promises the scheduler holds, and
\* the discoveries its reducer consumes; previous: previousReducerResultPath is
\* set; replaced: lastReplaceableFailure is set; tail: the runners whose requests
\* wait in the write tail; result: what settled() answers.
Unstarted ==
    [pc |-> "none", active |-> {}, reducer |-> {}, held |-> {}, buffer |-> {},
     settlements |-> <<>>, tail |-> <<>>, accepted |-> FALSE, dispatched |-> 0, noNew |-> 0,
     errors |-> 0, failures |-> 0, previous |-> FALSE, replaced |-> FALSE,
     deadline |-> FALSE, abort |-> "none", discoveryAbort |-> "none",
     canceled |-> FALSE, external |-> FALSE, reason |-> "none", omitted |-> {},
     result |-> "none"]

Live(g) == sched[g].pc \notin {"none", "ended", "crashed"}
Halted(g) == sched[g].canceled \/ sched[g].external
Owned(g) == sched[g].active \cup sched[g].reducer
Pending(g) == {w \in Owned(g) : runner[w] # "settled"}
Entries(g) == {sched[g].settlements[i] : i \in DOMAIN sched[g].settlements}

\* The scheduler's code between two awaits is not interrupted.
Busy(g) == sched[g].pc = "loop"

\* An AbortController keeps its first reason; the coordinator's controller also
\* aborts the one of its discoveries.
AbortAll(c, why) ==
    [c EXCEPT !.abort = IF @ = "none" THEN why ELSE @,
              !.discoveryAbort = IF @ = "none" THEN why ELSE @]

Step(g, c) ==
    /\ sched' = [sched EXCEPT ![g] = c]
    /\ UNCHANGED runner

\* run() is over.  A result that was resolved before stays; otherwise a
\* cancellation prevails over what the run came to.
Ended(c, outcome) ==
    [Unstarted EXCEPT !.pc = "ended",
                      !.result = IF c.external THEN c.result
                                 ELSE IF c.canceled THEN "canceled" ELSE outcome]

\* The n least ids that were never used.
Fresh(S, n) ==
    LET unused == {w \in S : runner[w] = "idle"}
    IN  {w \in unused : Cardinality({v \in unused : v < w}) < n}
-----------------------------------------------------------------------------
(* Coordinators come and go.                                               *)

FailureStreak(st) ==
    Cardinality({r \in Reducer : /\ st[r] = "failed"
                                 /\ \A s \in Reducer : s > r => st[s] # "succeeded"})

\* A process claims the run (startOrJoinDeepScanCoordinator and the poll of a
\* DeepScanRemoteCoordinator); the new coordinator recovers what the rows say.  A
\* process that hears no answer to its claim is one that adopts and crashes.
Unmerged == {d \in Discovery : status'[d] = "succeeded" /\ mergeState'[d] # "merged"}

Adopt(g) ==
    /\ g = generation + 1
    /\ "stall" \in Incidents \/ \A h \in Coordinator : ~Live(h)    \* bound
    /\ \E fresh \in BOOLEAN : ClaimCoordinator(fresh)
    /\ sched' = [sched EXCEPT ![g] =
                    [Unstarted EXCEPT
                        !.pc = "starting",
                        !.buffer = Unmerged,
                        !.accepted = \E d \in Discovery : status'[d] = "succeeded",
                        !.dispatched = dispatched',
                        !.noNew = noNew',
                        !.errors = errors',
                        !.failures = FailureStreak(status'),
                        !.previous = \E r \in Reducer : status'[r] = "succeeded",
                        !.deadline = deadlineReached,
                        !.discoveryAbort = IF deadlineReached THEN "deadline" ELSE "none"]]
    /\ UNCHANGED <<runner, lost>>

\* The process dies: requests in flight are not made.
Crash(g) ==
    /\ "crash" \in Incidents     \* bound
    /\ Live(g)
    /\ sched' = [sched EXCEPT ![g] = [Unstarted EXCEPT !.pc = "crashed"]]
    /\ runner' = [w \in Task |-> IF w \in Owned(g) THEN "settled" ELSE runner[w]]
    /\ UNCHANGED <<vars, lost>>

\* cancel(): the MCP transport closes, or the user cancels.  The user's
\* cancellation is persisted once the workers have settled (CancelScan), if the
\* process gets that far.
Cancel(g, why) ==
    /\ why \in Incidents         \* bound
    /\ Live(g) /\ ~Halted(g)
    /\ Step(g, AbortAll([sched[g] EXCEPT !.canceled = TRUE], why))
    /\ UNCHANGED <<vars, lost>>

\* The ownership check after each heartbeat, and failExternallyPersisted: the
\* run stopped or another coordinator has it.  The result is decided at once;
\* failExternallyPersisted reports it when run() is over.
Watch(g) ==
    /\ Live(g) /\ ~sched[g].external
    /\ runStatus # "running" \/ generation > g
    /\ Step(g, AbortAll([sched[g] EXCEPT
                            !.external = TRUE,
                            !.result = IF runStatus = "running" THEN "replaced"
                                       ELSE runStatus], "lost"))
    /\ UNCHANGED <<vars, lost>>

\* stopDiscoveryAtDeadline.  The local timer is set from the run's created_at,
\* so it does not fire before the workbench sees the deadline passed.
Deadline(g) ==
    /\ Live(g) /\ ~sched[g].external
    /\ deadlineReached
    /\ ~sched[g].deadline
    /\ Step(g, [sched[g] EXCEPT
                    !.deadline = TRUE,
                    !.discoveryAbort = IF @ = "none" THEN "deadline" ELSE @])
    /\ UNCHANGED <<vars, lost>>
-----------------------------------------------------------------------------
(* The scheduler: run() and runScheduler().                                *)

BugOverTheLimit(c) == c.errors > ErrorLimit \/ c.failures > ErrorLimit
OverTheLimit(c) == c.errors >= ErrorLimit \/ c.failures >= ErrorLimit

Saturated(c) ==
    ~c.deadline /\ c.previous /\ c.noNew >= StopAfterNoNew /\ c.buffer = {}

\* What precedes the loop: the directories are made, recovered evidence is
\* validated and the first progress is written, each of which may fail, and the
\* run fails when the streaks that the rows record are at their limit.
Start(g) ==
    LET c == sched[g]
    IN  /\ c.pc = "starting"
        /\ \/ Halted(g) /\ Step(g, Ended(c, "none"))
           \/ ~Halted(g) /\ Step(g, [c EXCEPT !.pc = "catching"])
           \/ /\ ~Halted(g) /\ ~OverTheLimit(c)
              /\ CurrentCoordinator(g) /\ RunIsOpen
              /\ Step(g, IF Saturated(c)
                         THEN [c EXCEPT !.pc = "reconciling", !.reason = "saturated"]
                         ELSE [c EXCEPT !.pc = "loop"])
        /\ UNCHANGED <<vars, lost>>

\* reducerReady
BugReducerReady(c, active, started) ==
    /\ c.buffer # {}
    /\ \/ c.previous
       \/ Cardinality(c.buffer) >= 2
       \/ active = {} /\ (started > MaxDiscoveryRuns \/ c.deadline)

ReducerReady(c, active, started) ==
    /\ c.buffer # {}
    /\ \/ c.previous
       \/ Cardinality(c.buffer) >= 2
       \/ active = {} /\ (started >= MaxDiscoveryRuns \/ c.deadline)

Room(c) ==
    LET free == Workers - Cardinality(c.active)
        budget == MaxDiscoveryRuns - c.dispatched
    IN  IF c.deadline \/ (c.previous /\ c.noNew >= StopAfterNoNew) THEN 0
        ELSE IF free < budget THEN free ELSE budget

\* A turn of the loop that finds no settlement fills the pool and starts the
\* reducer; one that finds some takes the next.
Turn(g) ==
    LET c == sched[g]
        quiet == c.settlements = <<>>
        new == IF quiet THEN Fresh(Discovery, Room(c)) ELSE {}
        active == c.active \cup new
        started == c.dispatched + Cardinality(new)
        reduces == quiet /\ c.reducer = {} /\ ReducerReady(c, active, started)
        reducer == IF reduces THEN Fresh(Reducer, 1) ELSE c.reducer
        out == active = {} /\ reducer = {}
    IN  /\ c.pc = "loop" /\ c.abort = "none"
        /\ quiet => Cardinality({d \in Discovery : runner[d] = "idle"}) >= Room(c) \* bound
        /\ reduces => reducer # {}                                                  \* bound
        /\ sched' = [sched EXCEPT ![g] =
              [c EXCEPT !.active = active,
                        !.dispatched = started,
                        !.reducer = reducer,
                        !.held = IF reduces THEN c.buffer ELSE @,
                        !.buffer = IF reduces THEN {} ELSE @,
                        !.pc = IF ~out THEN "waiting"
                               ELSE IF c.buffer # {} THEN "loop"
                               ELSE IF ~c.previous /\ c.replaced THEN "catching"
                               ELSE "reconciling"]]
        /\ runner' = [w \in Task |->
                         IF w \in new \cup (reducer \ c.reducer) THEN "prepare" ELSE runner[w]]
        /\ UNCHANGED <<vars, lost>>

\* The loop finds its signal aborted: it waits for its workers and throws.
TurnAborted(g) ==
    /\ sched[g].pc = "loop" /\ sched[g].abort # "none"
    /\ Step(g, [sched[g] EXCEPT !.pc = "unwinding"])
    /\ UNCHANGED <<vars, lost>>

\* The scheduler wakes up and takes the next settlement.
Takes(g, outcomes, kind) ==
    /\ sched[g].pc = "waiting"
    /\ sched[g].settlements # <<>>
    /\ Head(sched[g].settlements).outcome \in outcomes
    /\ Head(sched[g].settlements).worker \in kind

\* The coordinator after it took a settlement: the worker is no longer its own.
Taken(g) ==
    LET w == Head(sched[g].settlements).worker
    IN  [sched[g] EXCEPT !.settlements = Tail(@),
                         !.active = @ \ {w},
                         !.reducer = @ \ {w},
                         !.pc = "loop"]

\* Everything else is aborted, and the error is thrown once it has settled.
GiveUp(c) == [AbortAll(c, "failure") EXCEPT !.pc = "unwinding"]
Unless(limitReached, c) == IF limitReached THEN GiveUp(c) ELSE c

TakeFailure(g) ==
    /\ Takes(g, {"rejected"}, Task) \/ Takes(g, {"failed"}, Discovery)
    /\ Step(g, GiveUp(Taken(g)))

TakeReplaced(g) ==
    /\ Takes(g, {"replaced"}, Discovery)
    /\ LET errs == Head(sched[g].settlements).errors
       IN  Step(g, Unless(errs >= ErrorLimit,
                          [Taken(g) EXCEPT !.replaced = TRUE, !.errors = errs]))

\* A discovery is canceled only once its signal is aborted, so the branch that
\* throws when it is not is never taken.
TakeCanceled(g) ==
    /\ Takes(g, {"canceled"}, Discovery)
    /\ Step(g, Taken(g))

TakeAccepted(g) ==
    /\ Takes(g, {"succeeded"}, Discovery)
    /\ Step(g, [Taken(g) EXCEPT !.accepted = TRUE, !.errors = 0,
                                !.buffer = @ \cup {Head(sched[g].settlements).worker}])

Returned(g) == sched[g].buffer \cup sched[g].held

TakeFailedReducer(g) ==
    /\ Takes(g, {"failed"}, Reducer)
    /\ LET c == [Taken(g) EXCEPT !.buffer = Returned(g), !.held = {},
                                 !.failures = @ + 1]
       IN  Step(g, Unless(c.failures >= ErrorLimit, c))

Reduced(c) ==
    IF Saturated(c)
    THEN [AbortAll(c, "saturated") EXCEPT !.pc = "reconciling", !.reason = "saturated"]
    ELSE c

TakeReduced(g) ==
    /\ Takes(g, {"succeeded"}, Reducer)
    /\ LET answer == Head(sched[g].settlements)
       IN  Step(g, Reduced([Taken(g) EXCEPT !.held = {}, !.failures = 0, !.previous = TRUE,
                                            !.noNew = answer.noNew, !.errors = answer.errors]))

TakeSettlement(g) ==
    /\ \/ TakeFailure(g) \/ TakeReplaced(g) \/ TakeCanceled(g) \/ TakeAccepted(g)
       \/ TakeFailedReducer(g) \/ TakeReduced(g)
    /\ UNCHANGED <<vars, lost>>

\* All that was still at work has settled; the error is thrown.
Unwind(g) ==
    /\ sched[g].pc = "unwinding" /\ Pending(g) = {}
    /\ Step(g, [sched[g] EXCEPT !.pc = "catching"])
    /\ UNCHANGED <<vars, lost>>

\* reconcileRemainingDiscoveries("omitted"), and the end of runScheduler.
LateFailure(g) == \E e \in Entries(g) : e.outcome \in {"rejected", "failed"}
BugLateAccepted(g) == {}
LateAccepted(g) == {e.worker : e \in {f \in Entries(g) : f.outcome = "succeeded"}}

Reconcile(g) ==
    LET c == [sched[g] EXCEPT !.omitted = LateAccepted(g), !.active = {},
                              !.settlements = <<>>,
                              !.accepted = @ \/ LateAccepted(g) # {}]
        reduced == c.previous \/ (c.deadline /\ ~c.accepted)
    IN  /\ sched[g].pc = "reconciling" /\ Pending(g) = {}
        /\ Step(g, IF LateFailure(g) \/ ~reduced THEN [c EXCEPT !.pc = "catching"]
                   ELSE IF Halted(g) THEN Ended(c, "none")
                   ELSE [c EXCEPT !.pc = "publishing"])
        /\ UNCHANGED <<vars, lost>>

\* onComplete: the findings are published, or that fails.
Publish(g) ==
    /\ sched[g].pc = "publishing"
    /\ IF Halted(g) THEN Step(g, Ended(sched[g], "none"))
       ELSE \E next \in {"finishing", "catching"} : Step(g, [sched[g] EXCEPT !.pc = next])
    /\ UNCHANGED <<vars, lost>>

\* finishWithReplay: a request that got no answer, or a refusal, is made again.
Reason(g) == IF sched[g].reason = "saturated" THEN "saturated" ELSE "capped"
FinishRequest(g) == FinishDeepScan(g, Reason(g), FALSE, sched[g].omitted)
FinishAgain(g) ==
    /\ CurrentCoordinator(g)
    /\ runStatus = "succeeded" /\ manifest /\ terminalReason = Reason(g)
    /\ OmissionsMatch(Reason(g), FALSE, sched[g].omitted)

BugAfterFinish(g) == [sched[g] EXCEPT !.pc = "failing"]
AfterFinish(g) == [sched[g] EXCEPT !.pc = IF @ = "finishing" THEN "refinishing" ELSE "catching"]

Finish(g) ==
    /\ sched[g].pc \in {"finishing", "refinishing"}
    /\ \/ /\ FinishRequest(g) \/ (FinishAgain(g) /\ UNCHANGED vars)
          /\ Step(g, Ended(sched[g], "succeeded"))
          /\ UNCHANGED lost
       \/ /\ ~ENABLED FinishRequest(g) /\ ~FinishAgain(g)
          /\ Step(g, AfterFinish(g))
          /\ UNCHANGED <<vars, lost>>
       \/ /\ lost < MaxLost
          /\ lost' = lost + 1
          /\ FinishRequest(g) \/ UNCHANGED vars
          /\ Step(g, AfterFinish(g))

\* The catch block.  Nothing is left to settle.  The run fails only if it is
\* still this coordinator's; the read that says so may fail too.
Catch(g) ==
    LET c == sched[g]
        current == runStatus = "running" /\ generation = g
    IN  /\ c.pc = "catching"
        /\ \/ Halted(g) /\ Step(g, Ended(c, "none")) /\ UNCHANGED lost
           \/ /\ ~Halted(g)
              /\ Step(g, IF current THEN [c EXCEPT !.pc = "failing"]
                         ELSE Ended(c, IF runStatus = "running" THEN "replaced" ELSE runStatus))
              /\ UNCHANGED lost
           \/ /\ ~Halted(g) /\ lost < MaxLost
              /\ Step(g, [c EXCEPT !.pc = "failing"])
              /\ lost' = lost + 1
        /\ UNCHANGED vars

\* store.fail is made once: whatever comes of it, the coordinator reports failure.
Fail(g) ==
    /\ sched[g].pc = "failing"
    /\ Step(g, Ended(sched[g], "failed"))
    /\ \/ FailDeepScan(g, "failed") /\ UNCHANGED lost
       \/ ~ENABLED FailDeepScan(g, "failed") /\ UNCHANGED <<vars, lost>>
       \/ lost < MaxLost /\ lost' = lost + 1 /\ (FailDeepScan(g, "failed") \/ UNCHANGED vars)

CoordinatorStep(g) ==
    \/ Start(g) \/ Turn(g) \/ TurnAborted(g) \/ TakeSettlement(g) \/ Unwind(g)
    \/ Reconcile(g) \/ Publish(g) \/ Finish(g) \/ Catch(g) \/ Fail(g)
-----------------------------------------------------------------------------
(* The runner of one worker: runDiscoveryWorker, runReducer and             *)
(* runWorkerWithRetries.                                                    *)

AbortedWith(g, w) == IF w \in Discovery THEN sched[g].discoveryAbort ELSE sched[g].abort
Aborted(g, w) == AbortedWith(g, w) # "none"
UnlessAborted(g, w, step) == IF Aborted(g, w) THEN "cancel" ELSE step

\* The attempt that begins, and what a cancellation records: a worker canceled
\* before its first attempt is canceled in that attempt.
NextAttempt(w) == IF status[w] = "queued" THEN 1 ELSE attempt[w] + 1
CancelAttempt(w) == IF status[w] = "queued" THEN 1 ELSE attempt[w]
CancelMessage(g, w) == IF AbortedWith(g, w) = "shutdown" THEN "shutdown" ELSE "none"

\* The transaction that the runner's request runs.
DiscoveryTransaction(g, d) ==
    \/ runner[d] = "queue" /\ InsertWorker(g, d, "queued", 1, "none")
    \/ runner[d] \in {"accept", "acceptAgain"} /\ AcceptDiscovery(g, d, attempt[d])
    \/ runner[d] = "replace" /\ CancelWorker(g, d, attempt[d], "message", TRUE)

ReducerTransaction(g, r) ==
    \/ runner[r] = "claim" /\ ClaimDedup(g, r, sched[g].held)
    \/ /\ runner[r] \in {"commit", "commitAgain"}
       /\ \E newFindings \in BOOLEAN : CommitDedup(g, r, newFindings)

Transaction(g, w) ==
    \/ w \in Discovery /\ DiscoveryTransaction(g, w)
    \/ w \in Reducer /\ ReducerTransaction(g, w)
    \/ /\ runner[w] = "start"
       /\ NextAttempt(w) <= MaxAttempt
       /\ UpdateWorker(g, w, "running", NextAttempt(w), "none")
    \/ runner[w] = "retry" /\ UpdateWorker(g, w, "running", attempt[w], "message")
    \/ runner[w] \in {"fail", "abandon"} /\ FailWorker(g, w, attempt[w], "message")
    \/ runner[w] = "cancel" /\ CancelWorker(g, w, CancelAttempt(w), CancelMessage(g, w), FALSE)

\* A request that repeats what the row says is answered and writes nothing.
Repeats(g, w) ==
    /\ CurrentCoordinator(g)
    /\ \/ runner[w] \in {"accept", "acceptAgain", "commit", "commitAgain"}
          /\ status[w] = "succeeded"
       \/ /\ runner[w] = "cancel" /\ status[w] = "canceled"
          /\ CancelMessage(g, w) \in {"none", error[w]}

\* The tail without w's request, if it was w's turn.
WithoutHead(g, w) ==
    LET tail == sched[g].tail
    IN  IF tail # <<>> /\ Head(tail) = w THEN Tail(tail) ELSE tail

Settle(g, w, outcome) ==
    /\ runner' = [runner EXCEPT ![w] = "settled"]
    /\ sched' = [sched EXCEPT
                 ![g].tail = WithoutHead(g, w),
                 ![g].settlements = Append(@,
                    [worker |-> w, outcome |-> outcome,
                     noNew |-> IF outcome = "succeeded" /\ w \in Reducer THEN noNew' ELSE 0,
                     errors |-> IF \/ outcome = "replaced"
                                   \/ outcome = "succeeded" /\ w \in Reducer
                                THEN errors' ELSE 0])]

GoesTo(g, w, step) ==
    /\ runner' = [runner EXCEPT ![w] = step]
    /\ sched' = [sched EXCEPT ![g].tail =
                    IF step \in Request THEN Append(WithoutHead(g, w), w) ELSE WithoutHead(g, w)]

\* The answer is in.  A canceled reducer rejects, and so does one that failed
\* with an error that is not retryable.
Answered(g, w) ==
    \/ runner[w] \in {"queue", "claim"} /\ GoesTo(g, w, UnlessAborted(g, w, "start"))
    \/ runner[w] = "start" /\ GoesTo(g, w, "run")
    \/ runner[w] = "retry" /\ GoesTo(g, w, "sleep")
    \/ runner[w] \in {"accept", "acceptAgain", "commit", "commitAgain"} /\ Settle(g, w, "succeeded")
    \/ runner[w] = "replace" /\ Settle(g, w, "replaced")
    \/ runner[w] = "fail" /\ Settle(g, w, "failed")
    \/ runner[w] = "abandon" /\ Settle(g, w, IF w \in Discovery THEN "failed" ELSE "rejected")
    \/ runner[w] = "cancel" /\ Settle(g, w, IF w \in Discovery THEN "canceled" ELSE "rejected")

\* A request that fails rejects the runner's promise, except that an acceptance
\* refused after an abort counts as canceled.
Rejected(g, w) ==
    Settle(g, w, IF runner[w] \in {"accept", "acceptAgain"} /\ Aborted(g, w)
                 THEN "canceled" ELSE "rejected")

IsNext(g, w) == sched[g].tail # <<>> /\ Head(sched[g].tail) = w

MakeRequest(g, w) ==
    /\ IsNext(g, w)
    /\ \/ Transaction(g, w) /\ Answered(g, w)
       \/ Repeats(g, w) /\ UNCHANGED vars /\ Answered(g, w)
       \/ ~ENABLED Transaction(g, w) /\ ~Repeats(g, w) /\ UNCHANGED vars /\ Rejected(g, w)
       \* The reducer's inputs cannot be read after the claim.
       \/ runner[w] = "claim" /\ Transaction(g, w) /\ Rejected(g, w)
    /\ UNCHANGED lost

\* The answer is lost with the workbench process, before its commit or after it,
\* and the retries of runIdempotentPersistence, which keep their turn in the tail
\* and repeat what the row says, brought none either.  replayStoreMutation makes
\* acceptances and commits once more.
Replayed == {"accept", "commit"}

LoseAnswer(g, w) ==
    /\ IsNext(g, w)
    /\ lost < MaxLost /\ lost' = lost + 1
    /\ Transaction(g, w) \/ UNCHANGED vars
    /\ IF runner[w] \in Replayed
       THEN GoesTo(g, w, IF runner[w] = "accept" THEN "acceptAgain" ELSE "commitAgain")
       ELSE Rejected(g, w)

\* The worker's directory and prompt are written, or that fails.
Prepare(g, w) ==
    /\ runner[w] = "prepare"
    /\ \/ GoesTo(g, w, IF w \in Discovery THEN "queue" ELSE "claim")
       \/ Settle(g, w, "rejected")
    /\ UNCHANGED <<vars, lost>>

\* The executor is done and its result validated, or one of them failed.  A
\* discovery whose attempts are used up, or whom a policy refuses, is replaced.
AfterError(w) ==
    {"abandon"}
        \cup (IF attempt[w] < MaxAttempt THEN {"retry"} ELSE {})
        \cup (IF w \in Discovery THEN {"replace"}
              ELSE IF attempt[w] >= MaxAttempt THEN {"fail"} ELSE {})

Execute(g, w) ==
    /\ runner[w] = "run"
    /\ \E next \in {IF w \in Discovery THEN "accept" ELSE "commit"} \cup AfterError(w) :
          GoesTo(g, w, UnlessAborted(g, w, next))
    /\ UNCHANGED <<vars, lost>>

\* The delay before the next attempt is over, or an abort ends it; setting aside
\* the failed attempt's files may fail before it.
Wake(g, w) ==
    /\ runner[w] = "sleep"
    /\ GoesTo(g, w, UnlessAborted(g, w, "start")) \/ Settle(g, w, "rejected")
    /\ UNCHANGED <<vars, lost>>

RunnerNext(g, w) ==
    /\ w \in Owned(g) /\ ~Busy(g)
    /\ Prepare(g, w) \/ MakeRequest(g, w) \/ LoseAnswer(g, w) \/ Execute(g, w) \/ Wake(g, w)
-----------------------------------------------------------------------------
\* The parent scan and the clock; the first request of a run.
Environment ==
    /\ \/ BeginDeepScan \/ CompleteScan
       \/ "deadline" \in Incidents /\ ReachDeadline          \* bound
       \/ "parent" \in Incidents /\ (FailScan \/ CancelScan) \* bound
    /\ UNCHANGED localVars

SystemInit ==
    /\ Init /\ runStatus = "none"
    /\ sched = [g \in Coordinator |-> Unstarted]
    /\ runner = [w \in Task |-> "idle"]
    /\ lost = 0

SystemNext ==
    \/ Environment
    \/ \E g \in Coordinator :
          \/ Adopt(g) \/ Crash(g) \/ Watch(g) \/ Deadline(g) \/ CoordinatorStep(g)
          \/ \E why \in {"shutdown", "user"} : Cancel(g, why)
          \/ \E w \in Task : RunnerNext(g, w)

SystemSpec == SystemInit /\ [][SystemNext]_systemVars

\* Timers fire, requests are answered and executors end (each has a timeout), as
\* long as the process lives; some process polls until it can adopt the run.
Fairness ==
    /\ \A g \in Coordinator :
          /\ WF_systemVars(CoordinatorStep(g))
          /\ WF_systemVars(Adopt(g))
          /\ \A w \in Task : WF_systemVars(RunnerNext(g, w))
    /\ WF_systemVars(BeginDeepScan /\ UNCHANGED localVars)

FairSystemSpec == SystemSpec /\ Fairness
-----------------------------------------------------------------------------
SystemTypeOK ==
    /\ TypeOK
    /\ runner \in [Task -> RunnerStep]
    /\ lost \in 0 .. MaxLost
    /\ DOMAIN sched = Coordinator
    /\ \A g \in Coordinator :
          /\ sched[g].pc \in Pc
          /\ sched[g].active \in SUBSET Discovery /\ sched[g].buffer \in SUBSET Discovery
          /\ sched[g].held \in SUBSET Discovery /\ sched[g].omitted \in SUBSET Discovery
          /\ sched[g].reducer \in SUBSET Reducer
          /\ \A e \in Entries(g) : e.worker \in Task /\ e.outcome \in Outcome
          /\ sched[g].abort \in AbortReason /\ sched[g].discoveryAbort \in AbortReason
          /\ sched[g].result \in Result

\* The coordinator whose lease stands and who knows of nothing against it.
Owner(g) == Live(g) /\ ~Halted(g) /\ CurrentCoordinator(g) /\ RunIsOpen

\* Inputs that a stopped reducer still holds: no coordinator can claim them.
Stranded == {d \in Discovery : mergeState[d] = "merging" /\ ~ActiveReducer}

\* The scheduler never sleeps with nothing left that could wake it, and never
\* spins on a buffer that nothing will drain.
SchedulerIsDriven ==
    \A g \in Coordinator :
        LET c == sched[g]
        IN  /\ c.pc = "waiting" => c.settlements # <<>> \/ Pending(g) # {}
            /\ (/\ c.pc = "loop" /\ c.abort = "none" /\ c.settlements = <<>>
                /\ Owned(g) = {} /\ c.buffer # {})
                  => Room(c) > 0 \/ ReducerReady(c, {}, c.dispatched)

\* What the store has accepted and not merged, the coordinator has in its buffer,
\* in its reducer's hands or among the outcomes it has not looked at, once each.
BufferAgrees ==
    \A g \in Coordinator :
        LET c == sched[g]
            unread == {d \in c.active : status[d] = "succeeded"}
            held == {d \in c.held : \A r \in c.reducer : status[r] # "succeeded"}
        IN  Owner(g) /\ c.pc \in {"loop", "waiting"} =>
              /\ {d \in Accepted : mergeState[d] # "merged"} = c.buffer \cup unread \cup held
              /\ c.buffer \cap c.held = {} /\ c.buffer \cap unread = {}

\* The store never refuses a discovery that the coordinator starts: both count the
\* same dispatches, also after an adoption gave some back.
DispatchIsAdmitted ==
    \A g \in Coordinator : \A d \in sched[g].active :
        Owner(g) /\ runner[d] = "queue" => CanInsert(d)

\* The store does not refuse a batch that the coordinator gives its reducer, unless
\* an earlier coordinator left inputs stranded.
ClaimIsAdmitted ==
    \A g \in Coordinator : \A r \in sched[g].reducer :
        Owner(g) /\ runner[r] = "claim" /\ Stranded = {} => CanClaimDedup(sched[g].held)

\* Nor does it refuse the success of a run whose coordinator thinks it is done,
\* unless an earlier coordinator left inputs stranded or meant the run to fail.
FinishIsAdmitted ==
    \A g \in Coordinator :
        /\ Owner(g) /\ sched[g].pc = "finishing"
        /\ Stranded = {} /\ \A d \in Discovery : status[d] # "failed"
        => /\ CanFinish(Reason(g), FALSE)
           /\ OmissionsMatch(Reason(g), FALSE, sched[g].omitted)

\* What the scheduler has in memory agrees with the rows: it is driven, it knows
\* every result once, and nothing that it asks for is refused.
MemoryAgrees ==
    SchedulerIsDriven /\ BufferAgrees /\ DispatchIsAdmitted /\ ClaimIsAdmitted /\ FinishIsAdmitted

\* Consecutive failures stop the run, over any number of coordinators: beyond the
\* limit, only those of the pool that were already being reported are recorded.
FailuresAreBounded ==
    /\ errors < ErrorLimit + Workers
    /\ FailureStreak(status) <= ErrorLimit

\* The pool never holds more discoveries than it was configured for, over any
\* number of coordinators that do not know of each other.
PoolIsBounded ==
    Cardinality({d \in Discovery : status[d] \in Active}) <= Workers

\* Failures in a row end the run when they reach the limit, over adoptions too, and no
\* more discoveries are at work than the run was configured for.
LimitsAreKept == FailuresAreBounded /\ PoolIsBounded

\* The coordinator that has the run never reports the failure of a run that
\* succeeded: when the answer to its last request is lost, it finds out
\* (finishWithReplay).
SuccessIsReported ==
    [][\A g \in DOMAIN sched :
          sched'[g].result = "failed" /\ sched[g].result # "failed" /\ g = generation
              => runStatus' # "succeeded"
      ]_systemVars

\* "Reading this FIFO preserves real completion order": a discovery in the FIFO
\* has behind it none that the store accepted earlier.
FifoIsCompletionOrder ==
    \A g \in Coordinator : \A i \in DOMAIN sched[g].settlements :
        LET e == sched[g].settlements[i]
            before == {sched[g].settlements[j].worker : j \in 1 .. i}
        IN  Owner(g) /\ e.worker \in Discovery /\ e.outcome = "succeeded" =>
                \A d \in sched[g].active : sequence[d] \in 1 .. sequence[e.worker] => d \in before

\* "the coordinator adopts the expired lease and retains completed worker
\* results": right after an adoption, what is not merged can be reduced.
AdoptionRetainsResults ==
    \A g \in Coordinator : Owner(g) /\ sched[g].pc = "starting" => sched[g].buffer \subseteq Buffered(mergeState)

\* Every coordinator comes to an end, unless it is never given one.
CoordinatorsEnd == \A g \in Coordinator : Live(g) ~> ~Live(g)

\* A running Deep Scan stops running, as long as there is a process to adopt it.
RunEnds == runStatus = "running" ~> (runStatus # "running" \/ (generation = MaxGeneration /\ ~Live(generation)))
=============================================================================
