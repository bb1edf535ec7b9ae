-------------------------- MODULE MCDeepScanLiveness --------------------------
(* What must eventually happen to a Deep Scan: DeepScanCoordinator with the    *)
(* constants of the configuration, and DeepScanServer, checked in one run.     *)
EXTENDS DeepScanCoordinator

VARIABLES
    instance,
    run, leases, registry, coordinators, waits, up, succeeded, decidedBy \* DeepScanServer

Servers == INSTANCE DeepScanServer WITH
    Server <- 1 .. 2, Caller <- 11 .. 12, MaxGeneration <- 3,
    MaxCoordinators <- 3

serverVars == <<run, leases, registry, coordinators, waits, up, succeeded, decidedBy>>
mcVars == <<instance, systemVars, serverVars>>

\* The part that an instance does not exercise stays in one initial state.  The first call
\* is made to the first server; the second, to either.
MCInit ==
    /\ SystemInit /\ Servers!ServerInit
    /\ \A w \in DOMAIN waits \ {12} : waits[w].server = 1
    /\ \/ instance = "coordinator" /\ waits[12].server = 1
       \/ instance = "servers"

MCNext ==
    /\ UNCHANGED instance
    /\ \/ instance = "coordinator" /\ SystemNext /\ UNCHANGED serverVars
       \/ instance = "servers" /\ Servers!ServerNext /\ UNCHANGED systemVars

\* The fairness of FairSystemSpec, where coordinators are exercised, and that of
\* FairServerSpec, which asks for nothing as long as nobody has called a server.
MCFairness ==
    /\ \A g \in Coordinator :
          /\ WF_systemVars(instance = "coordinator" /\ CoordinatorStep(g))
          /\ WF_systemVars(instance = "coordinator" /\ Adopt(g))
          /\ \A w \in Task : WF_systemVars(instance = "coordinator" /\ RunnerNext(g, w))
    /\ WF_systemVars(instance = "coordinator" /\ BeginDeepScan /\ UNCHANGED localVars)
    /\ Servers!ServerFairness

MCSpec == MCInit /\ [][MCNext]_mcVars /\ MCFairness

\* Every call to start or to cancel is answered, whoever has the run by then.
CallsAreAnswered == Servers!CallsAreAnswered

=============================================================================
