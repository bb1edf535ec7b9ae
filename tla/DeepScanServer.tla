---------------------------- MODULE DeepScanServer ----------------------------
(***************************************************************************)
(* Starting, joining, observing and canceling one Deep Scan through several   *)
(* MCP servers (server.ts, registry.ts, the life of coordinator.ts, the       *)
(* leases of store.ts).                                                       *)
(*                                                                           *)
(* Each server process keeps a registry of its coordinators and a map of the  *)
(* leases it holds.  A tool call starts a coordinator, joins the one of its   *)
(* process or observes that of another process and adopts the run when its    *)
(* heartbeat is late.  A coordinator that learns that it was replaced         *)
(* observes its replacement in the same way.                                  *)
(*                                                                           *)
(* What a coordinator does between its start and its end is the subject of    *)
(* DeepScanCoordinator; here it works, and then finishes or fails.            *)
(***************************************************************************)
EXTENDS Naturals, Sequences, FiniteSets

CONSTANTS
    Server,             \* processes
    Caller,             \* tool calls
    MaxGeneration,      \* bound of the model: coordinator_generation
    MaxCoordinators     \* bound of the model: coordinators ever started

Slot == 1 .. MaxCoordinators

VARIABLES
    run,            \* status, coordinator_generation and whether its heartbeat is fresh
    leases,         \* coordinatorLeases of each process: a generation, 0 for none
    registry,       \* the coordinator registered in each process, 0 for none
    coordinators,   \* all coordinators, in the order of their start
    waits,          \* the calls, and the observers of coordinators that were replaced
    up,             \* processes that live
    succeeded,      \* history: the run has succeeded
    decidedBy       \* history: the coordinator whose request ended the run, 0 for none

vars == <<run, leases, registry, coordinators, waits, up, succeeded, decidedBy>>

Status == {"running", "succeeded", "failed", "canceled"}
Generation == 0 .. MaxGeneration
Coordinator == [server : Server, generation : Generation, state : Status \cup {"error"},
                pc : {"working", "finishing", "failing", "awaiting", "settling", "ready",
                      "publishing", "ended"},
                lease : Generation, canceled : BOOLEAN, external : BOOLEAN,
                persistence : {"none", "pending", "done", "failed"}]
\* "gone": the process died, and nobody hears the answer
Wait == [pc : {"idle", "begun", "claiming", "observing", "adopting", "waiting", "canceling",
               "confirming", "answered", "gone"},
         server : Server, at : 0 .. MaxCoordinators, lease : Generation,
         answer : Status \cup {"error"}]

ServerTypeOK ==
    /\ run \in [status : Status, generation : Generation, fresh : BOOLEAN]
    /\ leases \in [Server -> Generation] /\ registry \in [Server -> 0 .. MaxCoordinators]
    /\ coordinators \in Seq(Coordinator) /\ Len(coordinators) <= MaxCoordinators
    /\ waits \in [Caller \cup Slot -> Wait]
    /\ up \in [Server -> BOOLEAN] /\ succeeded \in BOOLEAN /\ decidedBy \in 0 .. MaxCoordinators

ServerInit ==
    /\ run = [status |-> "running", generation |-> 1, fresh |-> FALSE]
    /\ leases = [s \in Server |-> 0] /\ registry = [s \in Server |-> 0]
    /\ coordinators = <<>>
    /\ waits \in [Caller \cup Slot ->
                    {[pc |-> "idle", server |-> s, at |-> 0, lease |-> 0, answer |-> "running"] :
                        s \in Server}]
    /\ \A i, j \in Slot : waits[i] = waits[j]
    /\ up = [s \in Server |-> TRUE] /\ succeeded = FALSE /\ decidedBy = 0

-----------------------------------------------------------------------------
Running == run.status = "running"
Home(w) == waits[w].server
Mine(k) == coordinators[k].server
Started == DOMAIN coordinators

Answer(w, status) ==
    waits' = [waits EXCEPT ![w].pc = "answered", ![w].at = 0, ![w].lease = 0,
                           ![w].answer = IF status = "running" THEN "error" ELSE status]
WaitFor(w, k) == waits' = [waits EXCEPT ![w].pc = "waiting", ![w].at = k, ![w].lease = 0]

\* The lease of a process once it has read the run: WorkbenchDeepScanStore.get.
AfterGet(s) == IF Running /\ run.generation <= leases[s] THEN leases[s] ELSE 0
Get(s) == leases' = [leases EXCEPT ![s] = AfterGet(s)]

\* What is told to those who wait; the registry forgets a coordinator that has ended.
Ended(k, state) == [coordinators[k] EXCEPT !.pc = "ended", !.state = state, !.lease = 0]
Forget(k) == [registry EXCEPT ![Mine(k)] = IF @ = k THEN 0 ELSE @]
End(k, state) ==
    /\ coordinators' = [coordinators EXCEPT ![k] = Ended(k, state)]
    /\ registry' = Forget(k)

-----------------------------------------------------------------------------
(* start_codex_security_deep_scan *)
StartLockIsFree(s) ==
    \A c \in Caller : Home(c) = s => waits[c].pc \notin {"begun", "claiming"}

Begin(c) ==
    /\ waits[c].pc = "idle" /\ up[Home(c)] /\ StartLockIsFree(Home(c))
    /\ IF Running THEN waits' = [waits EXCEPT ![c].pc = "begun"] ELSE Answer(c, run.status)
    /\ UNCHANGED <<run, leases, registry, coordinators, up, succeeded, decidedBy>>

\* startOrJoinDeepScanCoordinator: the arguments of a claim name the lease that the
\* process holds when the request is queued.
Join(c) ==
    LET s == Home(c) IN
    /\ waits[c].pc = "begun"
    /\ IF registry[s] # 0 THEN WaitFor(c, registry[s])
       ELSE waits' = [waits EXCEPT ![c].pc = "claiming", ![c].lease = leases[s]]
    /\ UNCHANGED <<run, leases, registry, coordinators, up, succeeded, decidedBy>>

\* registry.start: the claim is answered and its coordinator started without a pause.
Acquire(w, generation) ==
    LET s == Home(w)
        k == Len(coordinators) + 1
        fresh == [server |-> s, generation |-> generation, state |-> "running",
                  pc |-> "working", lease |-> 0, canceled |-> FALSE, external |-> FALSE,
                  persistence |-> "none"]
    IN /\ run' = [run EXCEPT !.generation = generation, !.fresh = TRUE]
       /\ leases' = [leases EXCEPT ![s] = generation]
       /\ IF registry[s] # 0
          THEN WaitFor(w, registry[s]) /\ UNCHANGED <<registry, coordinators>>
          ELSE /\ k <= MaxCoordinators
               /\ coordinators' = Append(coordinators, fresh)
               /\ registry' = [registry EXCEPT ![s] = k] /\ WaitFor(w, k)

\* coordinator_lease_is_live, for a claim that names no lease
ClaimIsLive(w) == waits[w].lease = 0 /\ run.fresh

\* claim-deep-scan-coordinator, by a call or by an observer.
Claim(w) ==
    LET s == Home(w)
        lease == waits[w].lease
    IN /\ waits[w].pc \in {"claiming", "adopting"} /\ up[s]
       /\ \/ /\ Running /\ ClaimIsLive(w)
             /\ waits' = [waits EXCEPT ![w].pc = "observing"]
             /\ UNCHANGED <<run, leases, registry, coordinators>>
          \/ /\ Running /\ lease = 0 /\ ~ClaimIsLive(w)
             /\ run.generation < MaxGeneration /\ Acquire(w, run.generation + 1)
          \/ /\ Running /\ lease = run.generation /\ Acquire(w, lease)
          \/ /\ Running /\ lease \notin {0, run.generation}
             /\ leases' = [leases EXCEPT ![s] = 0] /\ Answer(w, "error")
             /\ UNCHANGED <<run, registry, coordinators>>
          \/ /\ ~Running /\ Get(s)
             /\ Answer(w, IF waits[w].pc = "adopting" THEN run.status ELSE "error")
             /\ UNCHANGED <<run, registry, coordinators>>
    /\ UNCHANGED <<up, succeeded, decidedBy>>

\* DeepScanRemoteCoordinator.wait: one poll.
Poll(w) ==
    LET s == Home(w) IN
    /\ waits[w].pc = "observing" /\ up[s] /\ Get(s)
    /\ \/ ~Running /\ Answer(w, run.status)
       \/ /\ Running /\ ~run.fresh
          /\ IF registry[s] # 0 THEN WaitFor(w, registry[s])
             ELSE waits' = [waits EXCEPT ![w].pc = "adopting", ![w].lease = AfterGet(s)]
       \/ Running /\ run.fresh /\ UNCHANGED waits
    /\ UNCHANGED <<run, registry, coordinators, up, succeeded, decidedBy>>

\* coordinator.wait
Hear(w) ==
    /\ waits[w].pc = "waiting" /\ coordinators[waits[w].at].pc = "ended"
    /\ Answer(w, coordinators[waits[w].at].state)
    /\ UNCHANGED <<run, leases, registry, coordinators, up, succeeded, decidedBy>>

-----------------------------------------------------------------------------
(* A coordinator. *)
Stopping(k) == coordinators[k].canceled \/ coordinators[k].external

\* stopAfterOwnershipChange: "replaced" is learned from the rows or from a refusal.  The
\* observer is a wait of its own, and the registry forgets the coordinator at once.
Replaced(k, pc) ==
    /\ coordinators' = [coordinators EXCEPT ![k].external = TRUE, ![k].pc = pc, ![k].lease = 0]
    /\ registry' = Forget(k)
    /\ waits' = [waits EXCEPT ![k].pc = "observing", ![k].server = Mine(k)]
Outdated(k) == Running /\ run.generation > coordinators[k].generation

\* renewHeartbeat: the heartbeat is that of the lease of the process.
Heartbeat(k) ==
    LET s == Mine(k) IN
    /\ coordinators[k].pc # "ended"
    /\ run' = [run EXCEPT !.fresh = @ \/ (Running /\ leases[s] = run.generation)]
    /\ IF coordinators[k].external THEN UNCHANGED <<leases, registry, coordinators, waits>>
       ELSE /\ Get(s)
            /\ CASE Outdated(k) -> Replaced(k, coordinators[k].pc)
                 [] ~Running -> End(k, run.status) /\ UNCHANGED waits
                 [] OTHER -> UNCHANGED <<registry, coordinators, waits>>
    /\ UNCHANGED <<up, succeeded, decidedBy>>

\* The aggregate is ready, and finish-deep-scan is requested.
Finish(k) ==
    /\ coordinators[k].pc = "working" /\ ~Stopping(k)
    /\ coordinators' = [coordinators EXCEPT ![k].pc = "finishing", ![k].lease = leases[Mine(k)]]
    /\ UNCHANGED <<run, leases, registry, waits, up, succeeded, decidedBy>>

\* Something failed: whose run is it?
Fail(k, confirmed) ==
    /\ Get(Mine(k))
    /\ CASE confirmed \/ Outdated(k) -> Replaced(k, "awaiting")
         [] ~confirmed /\ ~Running -> End(k, run.status) /\ UNCHANGED waits
         [] OTHER -> /\ coordinators' = [coordinators EXCEPT ![k].pc = "failing", ![k].lease = 0]
                     /\ UNCHANGED <<registry, waits>>

WorkFails(k) ==
    /\ coordinators[k].pc = "working" /\ ~Stopping(k) /\ Fail(k, FALSE)
    /\ UNCHANGED <<run, up, succeeded, decidedBy>>

\* require_current_coordinator
Holds(lease) == Running /\ lease = run.generation

\* finishWithReplay has its answer.  A refusal of an old lease also drops the lease the
\* process holds by now.
Finished(k) ==
    LET lease == coordinators[k].lease
        stale == Running /\ lease \notin {0, run.generation}
    IN /\ coordinators[k].pc = "finishing"
       /\ \/ /\ Holds(lease)
             /\ run' = [run EXCEPT !.status = "succeeded"]
             /\ succeeded' = TRUE /\ decidedBy' = k
             /\ IF Stopping(k)
                THEN /\ coordinators' = [coordinators EXCEPT ![k].pc = "settling", ![k].lease = 0,
                                                             ![k].state = "succeeded"]
                     /\ UNCHANGED registry
                ELSE End(k, "succeeded")
             /\ UNCHANGED <<leases, waits>>
          \/ /\ ~Holds(lease) /\ Stopping(k)
             /\ leases' = [leases EXCEPT ![Mine(k)] = IF stale THEN 0 ELSE @]
             /\ coordinators' = [coordinators EXCEPT ![k].pc = "settling", ![k].lease = 0]
             /\ UNCHANGED <<run, registry, waits, succeeded, decidedBy>>
          \/ /\ ~Holds(lease) /\ ~Stopping(k) /\ Fail(k, stale)
             /\ UNCHANGED <<run, succeeded, decidedBy>>
    /\ UNCHANGED up

\* The workers have settled, and the failure is stored, with the lease of the process at
\* that time; or it cannot be stored.
StoreFailure(k) ==
    LET s == Mine(k) IN
    /\ coordinators[k].pc = "failing"
    /\ coordinators' = [coordinators EXCEPT ![k].pc = "settling", ![k].state = "failed"]
    /\ IF Holds(leases[s])
       THEN run' = [run EXCEPT !.status = "failed"] /\ decidedBy' = k /\ UNCHANGED leases
       ELSE /\ leases' = [leases EXCEPT ![s] = IF Running THEN 0 ELSE @]
            /\ UNCHANGED <<run, decidedBy>>
    /\ UNCHANGED <<registry, waits, up, succeeded>>

\* An abort is noticed, and the local writers settle.
Settle(k) ==
    /\ \/ coordinators[k].pc = "working" /\ Stopping(k)
       \/ coordinators[k].pc = "settling"
    /\ coordinators' = [coordinators EXCEPT ![k].pc = "ready"]
    /\ UNCHANGED <<run, leases, registry, waits, up, succeeded, decidedBy>>

\* A plausible mistake: results are published, and waiters told, at once.
BugPublishable(k) == TRUE

\* A cancellation that was asked for is stored first.
Publishable(k) == coordinators[k].persistence # "pending"

\* A cancellation that could not be stored ends the coordinator with its error.
Publish(k) ==
    /\ coordinators[k].pc = "ready" /\ Publishable(k)
    /\ IF coordinators[k].persistence = "failed" THEN End(k, "error") /\ UNCHANGED leases
       ELSE /\ coordinators' = [coordinators EXCEPT ![k].pc = "publishing"]
            /\ Get(Mine(k)) /\ UNCHANGED registry
    /\ UNCHANGED <<run, waits, up, succeeded, decidedBy>>

\* onStopped, and the end.
Close(k) ==
    /\ coordinators[k].pc = "publishing"
    /\ End(k, IF coordinators[k].canceled THEN "canceled" ELSE coordinators[k].state)
    /\ UNCHANGED <<run, leases, waits, up, succeeded, decidedBy>>

\* The replacement has ended.
Relay(k) ==
    /\ coordinators[k].pc # "ended" /\ waits[k].pc = "answered"
    /\ End(k, IF waits[k].answer = "error" THEN "failed" ELSE waits[k].answer)
    /\ UNCHANGED <<run, leases, waits, up, succeeded, decidedBy>>

-----------------------------------------------------------------------------
(* Stopping a run by hand. *)

\* cancel-scan: a run that succeeded can be canceled as long as its scan is running.
StoreCancellation == run' = [run EXCEPT !.status = "canceled"]
CanCancel == run.status # "failed"

Cancel(c) ==
    LET s == Home(c)
        k == registry[s]
    IN /\ waits[c].pc = "idle" /\ up[s]
       /\ IF k # 0
          THEN /\ waits' = [waits EXCEPT ![c].pc = "canceling", ![c].at = k]
               /\ coordinators' = [coordinators EXCEPT
                     ![k].canceled = TRUE,
                     ![k].state = IF coordinators[k].canceled THEN @ ELSE "canceled",
                     ![k].persistence = IF @ = "none" THEN "pending" ELSE @]
               /\ Get(s) /\ UNCHANGED run
          ELSE /\ IF CanCancel THEN StoreCancellation /\ Answer(c, "canceled")
                  ELSE Answer(c, "error") /\ UNCHANGED run
               /\ UNCHANGED <<leases, coordinators>>
       /\ UNCHANGED <<registry, up, succeeded, decidedBy>>

\* A plausible mistake: run() waits for the cancellation to be stored before it says that
\* its writers have settled.
BugWritersSettled(k) == coordinators[k].pc \in {"publishing", "ended"}

\* resolveCancellationReady
WritersSettled(k) == coordinators[k].pc \in {"ready", "publishing", "ended"}

\* cancelAfterPersistence: once the local writers have settled.
PersistCancellation(c) ==
    LET k == waits[c].at IN
    /\ waits[c].pc = "canceling" /\ WritersSettled(k)
    /\ IF CanCancel
       THEN StoreCancellation /\ waits' = [waits EXCEPT ![c].pc = "confirming"]
       ELSE Answer(c, "error") /\ UNCHANGED run
    /\ coordinators' = [coordinators EXCEPT
          ![k].persistence = IF @ # "pending" THEN @ ELSE IF CanCancel THEN "done" ELSE "failed"]
    /\ UNCHANGED <<leases, registry, up, succeeded, decidedBy>>

Confirm(c) ==
    /\ waits[c].pc = "confirming" /\ coordinators[waits[c].at].pc = "ended"
    /\ Answer(c, "canceled")
    /\ UNCHANGED <<run, leases, registry, coordinators, up, succeeded, decidedBy>>

\* fail_codex_security_scan
FailByHand(c) ==
    LET s == Home(c)
        k == registry[s]
    IN /\ waits[c].pc = "idle" /\ up[s]
       /\ IF Running
          THEN /\ run' = [run EXCEPT !.status = "failed"] /\ Answer(c, "failed")
               /\ coordinators' =
                     IF k = 0 \/ coordinators[k].external THEN coordinators
                     ELSE [coordinators EXCEPT ![k].external = TRUE, ![k].state = "failed"]
          ELSE Answer(c, "error") /\ UNCHANGED <<run, coordinators>>
       /\ UNCHANGED <<leases, registry, up, succeeded, decidedBy>>

\* Some coordinator keeps the heartbeat of the current generation fresh.
Renewed == \E k \in Started : coordinators[k].pc # "ended" /\ leases[Mine(k)] = run.generation

\* A heartbeat is late: the process hangs, sleeps or is gone.
Expire ==
    /\ Running /\ run.fresh /\ run.generation < MaxGeneration
    /\ run' = [run EXCEPT !.fresh = FALSE]
    /\ UNCHANGED <<leases, registry, coordinators, waits, up, succeeded, decidedBy>>

\* The process ends.
Crash(s) ==
    /\ up[s] /\ \A t \in Server : up[t]
    /\ Running => run.generation < MaxGeneration
    /\ up' = [up EXCEPT ![s] = FALSE]
    /\ leases' = [leases EXCEPT ![s] = 0] /\ registry' = [registry EXCEPT ![s] = 0]
    /\ coordinators' = [k \in Started |->
          IF Mine(k) = s /\ coordinators[k].pc # "ended" THEN Ended(k, "error") ELSE coordinators[k]]
    /\ waits' = [w \in DOMAIN waits |->
          IF Home(w) = s /\ waits[w].pc \notin {"idle", "answered"}
          THEN [waits[w] EXCEPT !.pc = "gone", !.at = 0, !.lease = 0] ELSE waits[w]]
    /\ UNCHANGED <<run, succeeded, decidedBy>>

-----------------------------------------------------------------------------
CallStep(w) ==
    \/ Claim(w) \/ Poll(w) \/ Hear(w)
    \/ w \in Caller /\ (Join(w) \/ PersistCancellation(w) \/ Confirm(w))
CoordinatorStep(k) ==
    \/ Finish(k) \/ Finished(k) \/ StoreFailure(k) \/ Settle(k) \/ Publish(k) \/ Close(k)
    \/ Relay(k)

ServerNext ==
    \/ \E c \in Caller :
          \/ Begin(c) \/ Cancel(c) \/ FailByHand(c)
    \/ \E w \in DOMAIN waits : CallStep(w)
    \/ \E k \in Started : CoordinatorStep(k) \/ WorkFails(k) \/ Heartbeat(k)
    \/ Expire
    \/ \E s \in Server : Crash(s)

ServerSpec == ServerInit /\ [][ServerNext]_vars

\* As long as a process lives, its timers fire, its requests are answered and the work of
\* its coordinators ends (each worker has a timeout).
ServerFairness ==
    /\ \A w \in Caller \cup Slot : WF_vars(CallStep(w))
    /\ \A k \in Slot : WF_vars(k \in Started /\ CoordinatorStep(k))
                       /\ WF_vars(k \in Started /\ Heartbeat(k))
    /\ WF_vars(~Renewed /\ Expire)

FairServerSpec == ServerSpec /\ ServerFairness

-----------------------------------------------------------------------------
(* What must hold. *)

\* A run has at most one coordinator of its current generation at work, over all processes.
OneCoordinator ==
    \A j, k \in Started :
        /\ coordinators[j].generation = run.generation /\ coordinators[j].pc # "ended"
        /\ coordinators[k].generation = run.generation /\ coordinators[k].pc # "ended"
        => j = k

\* No two processes hold the lease of the current generation.
LeaseIsExclusive ==
    \A s, t \in Server : leases[s] = run.generation /\ leases[t] = run.generation => s = t

\* No call is told an outcome that the run never had: one that is told of a success has
\* a run that succeeded, and one that is told of a cancellation has a run that is over and
\* did not end as a success.  The exception is a cancellation that a coordinator heard of
\* while it published and the run had passed to a newer generation: it is told before it
\* is stored.
AnswersAreTrue ==
    \A c \in Caller : waits[c].pc = "answered" =>
        /\ waits[c].answer = "succeeded" => succeeded
        /\ waits[c].answer = "canceled" =>
              \/ run.status \in {"canceled", "failed"}
              \/ \E k \in Started : /\ coordinators[k].canceled
                                    /\ coordinators[k].generation < run.generation

\* The lease of the current generation is held by one process, a run has one coordinator of
\* its generation over all processes, and no call is told an outcome that the run does not
\* have.
ServersAreSound == ServerTypeOK /\ LeaseIsExclusive /\ OneCoordinator /\ AnswersAreTrue

\* Every call is answered, whoever has the run by then.
CallsAreAnswered ==
    \A c \in Caller : waits[c].pc # "idle" ~> waits[c].pc \in {"answered", "gone"}

\* A coordinator that was replaced does not decide the run.
ReplacedDoNotDecide ==
    decidedBy # 0 => coordinators[decidedBy].generation = run.generation
=============================================================================
