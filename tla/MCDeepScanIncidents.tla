------------------------- MODULE MCDeepScanIncidents -------------------------
(* Instances of DeepScanCoordinator, and one of DeepScanServer, for TLC,       *)
(* checked in one run, each with bounds of its own.                           *)
EXTENDS Naturals, FiniteSets

VARIABLES
    instance,
    generation, runStatus, phase, dispatched, completionSequence, noNew, errors,
    terminalReason, manifest, scanStatus, canceledAt, status, mergeState, sequence, error,
    attempt, inputs, deadlineReached,       \* DeepScanStore
    sched, runner, lost,                    \* DeepScanCoordinator
    run, leases, registry, coordinators, waits, up, succeeded, decidedBy \* DeepScanServer

systemVars == <<generation, runStatus, phase, dispatched, completionSequence, noNew, errors,
    terminalReason, manifest, scanStatus, canceledAt, status, mergeState, sequence, error,
    attempt, inputs, deadlineReached, sched, runner, lost>>
serverVars == <<run, leases, registry, coordinators, waits, up, succeeded, decidedBy>>
mcVars == <<instance, systemVars, serverVars>>

\* "core" and "late": two workers and streaks of two; the run is stopped by others, or
\* the deadline passes.
Core == INSTANCE DeepScanCoordinator WITH
    Discovery <- 1 .. 4, Reducer <- 11 .. 13, Setup <- {}, MaxDiscoveryRuns <- 3,
    StopAfterNoNew <- 2, MaxGeneration <- 2, MaxAttempt <- 1, Workers <- 2, ErrorLimit <- 2,
    Incidents <- {"shutdown", "user", "parent"}, MaxLost <- 0

Late == INSTANCE DeepScanCoordinator WITH
    Discovery <- 1 .. 4, Reducer <- 11 .. 13, Setup <- {}, MaxDiscoveryRuns <- 3,
    StopAfterNoNew <- 2, MaxGeneration <- 2, MaxAttempt <- 1, Workers <- 2, ErrorLimit <- 2,
    Incidents <- {"deadline"}, MaxLost <- 0

\* One worker, with retries.
Faults == INSTANCE DeepScanCoordinator WITH
    Discovery <- 1 .. 4, Reducer <- 11 .. 14, Setup <- {}, MaxDiscoveryRuns <- 2,
    StopAfterNoNew <- 1, MaxGeneration <- 3, MaxAttempt <- 2, Workers <- 1, ErrorLimit <- 1,
    Incidents <- {"crash", "shutdown", "deadline", "stall"}, MaxLost <- 2

\* Three calls, made to two servers.
Servers == INSTANCE DeepScanServer WITH
    Server <- 1 .. 2, Caller <- 11 .. 13, MaxGeneration <- 3, MaxCoordinators <- 3

Crashed == \E g \in DOMAIN sched : sched[g].pc = "crashed"
LiveCoordinators == Cardinality({g \in DOMAIN sched : Faults!Live(g)})
Used(kind) == Cardinality({w \in kind : status[w] # "none"})
Attempts(n) == \A w \in DOMAIN attempt : attempt[w] <= n

\* "adoption": one coordinator after the other; "stall": one beside the other;
\* "lost": answers of the workbench are lost.
OneWorker == instance \in {"adoption", "stall", "lost"}
Bounds ==
    CASE instance = "adoption" -> LiveCoordinators <= 1 /\ lost = 0
      [] instance = "stall" -> /\ ~Crashed /\ lost = 0 /\ Attempts(1) /\ ~deadlineReached
                               /\ Used(1 .. 4) <= 3 /\ Used(11 .. 14) <= 2
      [] instance = "lost" -> LiveCoordinators <= 1 /\ ~deadlineReached /\ Used(11 .. 14) <= 2

\* The part that an instance does not exercise stays in one initial state.  The first call
\* is made to the first server.
MCInit ==
    /\ Servers!ServerInit /\ \A w \in DOMAIN waits \ {12, 13} : waits[w].server = 1
    /\ \/ instance \in {"core", "late"} /\ Core!SystemInit
       \/ OneWorker /\ Faults!SystemInit
       \/ instance = "servers" /\ Faults!SystemInit
    /\ instance # "servers" => waits[12].server = 1 /\ waits[13].server = 1

MCNext ==
    /\ UNCHANGED instance
    /\ \/ /\ \/ instance = "core" /\ Core!SystemNext
             \/ instance = "late" /\ Late!SystemNext
             \/ OneWorker /\ Faults!SystemNext /\ Bounds'
          /\ UNCHANGED serverVars
       \/ instance = "servers" /\ Servers!ServerNext /\ UNCHANGED systemVars

MCSpec == MCInit /\ [][MCNext]_mcVars

\* Memory and rows keep to the values they declare; what a scheduler remembers agrees with
\* the rows, what it asks for is admitted, and it never sleeps or spins for ever; failures in
\* a row end the run, and the pool is never exceeded.
CoordinatorsAreSound ==
    IF instance \notin {"core", "late"}
    THEN Faults!SystemTypeOK /\ Faults!MemoryAgrees /\ Faults!LimitsAreKept
    ELSE Core!SystemTypeOK /\ Core!MemoryAgrees /\ Core!LimitsAreKept

\* The lease of the current generation is held by one process, a run has one coordinator of
\* its generation over all processes, and no call is told an outcome that the run does not
\* have.
ServersAreSound == Servers!ServersAreSound

\* A run that succeeded is never reported as failed.
SuccessIsReported == Faults!SuccessIsReported
=============================================================================
