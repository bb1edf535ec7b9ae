---------------------- MODULE DeepScanCoordinatorProofs ----------------------
(***************************************************************************)
(* The system of coordinators, runners and workbench implements the store;   *)
(* what coordinators have in memory keeps its types, the scheduler is        *)
(* driven, the limits of a run are kept (discoveries at work, failures in a  *)
(* row), and the coordinator that has the run knows its rows: which results  *)
(* are to be merged, how many workers were dispatched; for any number of     *)
(* workers, coordinators that overlap, lost answers and crashes.             *)
(*                                                                           *)
(* The parts of the invariant are about a scheduler's record c and the       *)
(* values run, st and errs of runner, status and errors: a step is then a    *)
(* fact about two records and two sets of values.                            *)
(***************************************************************************)
EXTENDS DeepScanCoordinator, DeepScanStoreProofs, FiniteSetTheorems, SequenceTheorems

-----------------------------------------------------------------------------
(* Every step of the system is a step of the store or changes no row: what    *)
(* DeepScanStoreProofs shows, whoever calls the store, holds of the system.   *)

\* The bounds of the model are kept, so that the store knows the arguments.
LEMMA CallersAreKnown ==
    ASSUME TypeOK, NEW g \in Coordinator, NEW w \in Task
    PROVE  /\ g \in Caller
           /\ w \in Worker
           /\ attempt[w] \in 0 .. MaxAttempt
           /\ CancelAttempt(w) \in 0 .. MaxAttempt
           /\ NextAttempt(w) <= MaxAttempt => NextAttempt(w) \in 0 .. MaxAttempt
<1>1. g \in Caller
  BY ConfigAssumption DEF Coordinator, Caller, NoGeneration
<1>2. w \in Worker
  BY DEF Task, Worker
<1>3. attempt[w] \in 0 .. MaxAttempt
  BY <1>2 DEF TypeOK
<1>4. NextAttempt(w) \in Nat
  BY <1>3, ConfigAssumption DEF NextAttempt
<1>5. CancelAttempt(w) \in 0 .. MaxAttempt
  BY <1>3, ConfigAssumption DEF CancelAttempt
<1> QED BY <1>1, <1>2, <1>3, <1>4, <1>5, ConfigAssumption

\* A request of a runner is a request the store knows.
LEMMA RunnersUseTheStore ==
    ASSUME TypeOK, NEW g \in Coordinator, NEW w \in Task, Transaction(g, w)
    PROVE  Next
<1> USE CallersAreKnown
<1>0. "queued" \in Active /\ "running" \in Active
  BY DEF Active
<1>1. CASE InsertWorker(g, w, "queued", 1, "none")
  <2>1. 1 \in 0 .. MaxAttempt
    BY ConfigAssumption
  <2> QED BY <1>0, <1>1, <2>1 DEF WorkerNext, Next
<1>2. CASE w \in Reducer /\ ClaimDedup(g, w, sched[g].held)
  <2>1. sched[g].held \in SUBSET Discovery
    BY <1>2 DEF ClaimDedup, CanClaimDedup, IsBufferedPrefix, Buffered
  <2> QED BY <1>2, <2>1 DEF ReducerNext, Next
<1>3. CASE NextAttempt(w) <= MaxAttempt /\ UpdateWorker(g, w, "running", NextAttempt(w), "none")
  BY <1>0, <1>3 DEF WorkerNext, Next
<1>4. CASE UpdateWorker(g, w, "running", attempt[w], "message")
  BY <1>0, <1>4 DEF WorkerNext, Next
<1>5. CASE w \in Discovery /\ AcceptDiscovery(g, w, attempt[w])
  BY <1>5 DEF WorkerNext, Next
<1>6. CASE w \in Reducer /\ \E newFindings \in BOOLEAN : CommitDedup(g, w, newFindings)
  BY <1>6 DEF ReducerNext, Next
<1>7. CASE CancelWorker(g, w, attempt[w], "message", TRUE)
  BY <1>7 DEF WorkerNext, Next
<1>8. CASE FailWorker(g, w, attempt[w], "message")
  BY <1>8 DEF WorkerNext, Next
<1>9. CASE CancelWorker(g, w, CancelAttempt(w), CancelMessage(g, w), FALSE)
  <2>1. CancelMessage(g, w) \in {"none", "message", "shutdown"}
    BY DEF CancelMessage
  <2> QED BY <1>9, <2>1 DEF WorkerNext, Next
<1> QED
  BY <1>1, <1>2, <1>3, <1>4, <1>5, <1>6, <1>7, <1>8, <1>9
     DEF Transaction, DiscoveryTransaction, ReducerTransaction

\* So are the two requests that end the run.
LEMMA CoordinatorsUseTheStore ==
    ASSUME TypeOK, NEW g \in Coordinator, FinishRequest(g) \/ FailDeepScan(g, "failed")
    PROVE  Next
<1>1. g \in Caller
  BY ConfigAssumption DEF Coordinator, Caller, NoGeneration
<1>2. CASE FinishRequest(g)
  <2>1. Reason(g) \in {"saturated", "capped"}
    BY DEF Reason
  <2>2. sched[g].omitted \in SUBSET Discovery
    BY <1>2 DEF FinishRequest, FinishDeepScan, OmissionsMatch, Buffered
  <2> QED BY <1>1, <1>2, <2>1, <2>2 DEF FinishRequest, TerminalNext, Next
<1>3. CASE FailDeepScan(g, "failed")
  BY <1>1, <1>3 DEF TerminalNext, Next
<1> QED BY <1>2, <1>3

LEMMA CoordinatorStepImplementsStore ==
    ASSUME TypeOK, NEW g \in Coordinator, CoordinatorStep(g)
    PROVE  [Next]_vars
<1>1. CASE Start(g) \/ Turn(g) \/ TurnAborted(g)
  BY <1>1 DEF Start, Turn, TurnAborted
<1>2. CASE TakeSettlement(g) \/ Unwind(g) \/ Reconcile(g) \/ Publish(g) \/ Catch(g)
  BY <1>2 DEF TakeSettlement, Unwind, Reconcile, Publish, Catch
<1>3. CASE Finish(g)
  BY <1>3, CoordinatorsUseTheStore DEF Finish
<1>4. CASE Fail(g)
  BY <1>4, CoordinatorsUseTheStore DEF Fail
<1> QED BY <1>1, <1>2, <1>3, <1>4 DEF CoordinatorStep

LEMMA RunnerStepImplementsStore ==
    ASSUME TypeOK, NEW g \in Coordinator, NEW w \in Task, RunnerNext(g, w)
    PROVE  [Next]_vars
<1>1. CASE MakeRequest(g, w)
  BY <1>1, RunnersUseTheStore DEF MakeRequest
<1>2. CASE LoseAnswer(g, w)
  BY <1>2, RunnersUseTheStore DEF LoseAnswer
<1>3. CASE Prepare(g, w) \/ Execute(g, w) \/ Wake(g, w)
  BY <1>3 DEF Prepare, Execute, Wake
<1> QED BY <1>1, <1>2, <1>3 DEF RunnerNext

LEMMA SystemStep == TypeOK /\ [SystemNext]_systemVars => [Next]_vars
<1> SUFFICES ASSUME TypeOK, [SystemNext]_systemVars PROVE [Next]_vars
  OBVIOUS
<1>1. CASE Environment
  BY <1>1 DEF Environment, Next
<1>2. ASSUME NEW g \in Coordinator, Adopt(g) PROVE [Next]_vars
  BY <1>2 DEF Adopt, Next
<1>3. ASSUME NEW g \in Coordinator, Crash(g) \/ Watch(g) \/ Deadline(g) PROVE [Next]_vars
  BY <1>3 DEF Crash, Watch, Deadline
<1>4. ASSUME NEW g \in Coordinator, CoordinatorStep(g) PROVE [Next]_vars
  BY <1>4, CoordinatorStepImplementsStore
<1>5. ASSUME NEW g \in Coordinator, NEW why \in {"shutdown", "user"}, Cancel(g, why)
      PROVE  [Next]_vars
  BY <1>5 DEF Cancel
<1>6. ASSUME NEW g \in Coordinator, NEW w \in Task, RunnerNext(g, w) PROVE [Next]_vars
  BY <1>6, RunnerStepImplementsStore
<1>7. CASE UNCHANGED systemVars
  BY <1>7 DEF systemVars
<1> QED BY <1>1, <1>2, <1>3, <1>4, <1>5, <1>6, <1>7 DEF SystemNext

\* Whatever coordinators, runners, lost answers and crashes do together, the rows
\* change only as the store allows them to change.
THEOREM SystemImplementsStore == SystemSpec => Spec
<1>1. SystemInit => Init
  BY DEF SystemInit
<1>2. SystemSpec => []TypeOK
  <2>1. TypeOK /\ [SystemNext]_systemVars => TypeOK'
    BY SystemStep, TypeStep
  <2> QED BY <1>1, <2>1, TypeInit, PTL DEF SystemSpec
<1> QED BY <1>1, <1>2, SystemStep, PTL DEF SystemSpec, Spec

\* In the system as a whole no two reducers are ever at work, a stopped run is
\* idle, the run agrees with its parent scan, and the two tables agree.
THEOREM SystemKeepsTheRowsConsistent ==
    SystemSpec => [](OneReducer /\ StoppedIsIdle /\ ParentAgrees /\ MergeStateFollowsReducers)
BY SystemImplementsStore, OneReducerAtATime, StoppedRunsAreIdle, RunsAgreeWithParents,
   TablesAgree, PTL

\* No adoption gives a dispatch back twice, and accepted discoveries keep dense
\* places, in every execution of coordinators and runners.
THEOREM SystemKeepsTheBudget ==
    SystemSpec => [](DispatchBudget /\ CompletionOrder)
BY SystemImplementsStore, DispatchesAreBounded, PlacesAreDense, PTL

\* The streaks that end a run count each discovery once, and a success accounts for
\* all that was accepted, in every execution of coordinators and runners.
THEOREM SystemCountsOnce ==
    SystemSpec => [](StreaksCountOnce /\ SuccessAccountsForAll)
BY SystemImplementsStore, StreaksNeverCountTwice, SuccessAccounts, PTL

\* What coordinators and runners do to each other never undoes a terminal state, an
\* accepted place or a merged result, and shows as one run of DeepScanRun.
THEOREM SystemImplementsRun == SystemSpec => NothingIsUndone /\ ImplementsRun
BY SystemImplementsStore, NothingIsEverUndone, StoreImplementsRun, PTL

-----------------------------------------------------------------------------
(* What a scheduler has in memory.                                           *)

Answer == [worker : Task, outcome : Outcome, noNew : Nat, errors : Nat]

Scheduler ==
    [pc : Pc, active : SUBSET Discovery, reducer : SUBSET Reducer, held : SUBSET Discovery,
     buffer : SUBSET Discovery, settlements : Seq(Answer), tail : Seq(Task), accepted : BOOLEAN,
     dispatched : Int, noNew : Nat, errors : Nat, failures : Nat, previous : BOOLEAN,
     replaced : BOOLEAN, deadline : BOOLEAN, abort : AbortReason, discoveryAbort : AbortReason,
     canceled : BOOLEAN, external : BOOLEAN, reason : TerminalReason,
     omitted : SUBSET Discovery, result : Result]

Runners == [Task -> RunnerStep]
Rows == [Worker -> WorkerStatus]

\* The workers whose promises a scheduler holds.
Hands(c) == c.active \cup c.reducer

AtWork(st) == {d \in Discovery : st[d] \in Active}
Unborn(c, st) == {d \in c.active : st[d] = "none"}
Unsettled(S, run) == {w \in S : run[w] # "settled"}
FailedReducers(st) == {r \in Reducer : st[r] = "failed"}

Looping(c) == c.pc \in {"loop", "waiting"}
Starting(c) == c.pc = "starting"

-----------------------------------------------------------------------------
(* Any coordinator, replaced or not.                                         *)

\* A settlement is there for each worker that settled, once, and says what its row says.
SettlementFits(c, e, run, st) ==
    /\ e.worker \in Hands(c) /\ run[e.worker] = "settled"
    /\ e.outcome = "succeeded" => st[e.worker] = "succeeded"
    /\ e.worker \in Discovery /\ e.outcome # "rejected" =>
          st[e.worker] \notin Active \/ c.discoveryAbort # "none"

SettlementsFit(c, run, st) ==
    /\ \A w \in Hands(c) : run[w] = "settled" =>
          \E i \in DOMAIN c.settlements : c.settlements[i].worker = w
    /\ \A i \in DOMAIN c.settlements : SettlementFits(c, c.settlements[i], run, st)
    /\ \A i, j \in DOMAIN c.settlements :
          c.settlements[i].worker = c.settlements[j].worker => i = j

TailFits(c, run) ==
    /\ \A i \in DOMAIN c.tail : c.tail[i] \in Hands(c) /\ run[c.tail[i]] \in Request
    /\ \A i, j \in DOMAIN c.tail : c.tail[i] = c.tail[j] => i = j

\* What the record alone must say.
Sound(c) ==
    /\ c \in Scheduler
    /\ Cardinality(c.active) <= Workers
    /\ \A r, s \in c.reducer : r = s
    /\ c.discoveryAbort # "none" => c.deadline \/ c.abort # "none"
    /\ Looping(c) => c.failures < ErrorLimit
    /\ c.pc = "waiting" => Hands(c) # {}
    /\ c.pc = "reconciling" => c.reducer = {}
    /\ c.pc = "starting" => Hands(c) = {}

Fits(c, run, st) ==
    /\ Sound(c)
    /\ \A w \in Hands(c) : run[w] # "idle"
    /\ SettlementsFit(c, run, st)
    /\ TailFits(c, run)

-----------------------------------------------------------------------------
(* The coordinator that has the run.                                         *)

\* A settlement that ends the run when it is taken.
Fatal(e) ==
    \/ e.outcome = "rejected"
    \/ e.outcome = "failed" /\ e.worker \in Discovery
    \/ e.outcome = "replaced" /\ e.errors >= ErrorLimit

PoolInv(c, st) ==
    /\ Cardinality(AtWork(st) \cup Unborn(c, st)) <= Workers
    /\ (Starting(c) \/ Looping(c)) /\ c.discoveryAbort = "none" => AtWork(st) \subseteq c.active

\* Each discovery that can still be replaced is accounted for.
ErrorsInv(c, run, errs) ==
    /\ errs >= ErrorLimit =>
          (errs - ErrorLimit) + 1 + Cardinality(Unsettled(c.active, run)) <= Workers
    /\ errs >= ErrorLimit /\ Looping(c) =>
          \E i \in DOMAIN c.settlements : Fatal(c.settlements[i])

\* The settlement of a reducer that failed and is not counted yet.
Uncounted(c, e, st) ==
    /\ e.worker \in Reducer
    /\ \/ e.outcome = "rejected"
       \/ e.outcome = "failed" /\ FailureStreak(st) <= c.failures + 1

\* So is the reducer that can still fail.
FailuresInv(c, run, st) ==
    /\ FailureStreak(st) + Cardinality(Unsettled(c.reducer, run)) <= ErrorLimit
    /\ Looping(c) =>
          \/ FailureStreak(st) <= c.failures
          \/ \E i \in DOMAIN c.settlements : Uncounted(c, c.settlements[i], st)

\* Its reducer is the last that was started.
LastReducer(c, st) == \A r \in c.reducer, s \in Reducer : st[s] # "none" => s <= r

Leads(c, run, st, errs) ==
    /\ PoolInv(c, st) /\ ErrorsInv(c, run, errs) /\ FailuresInv(c, run, st)
    /\ Starting(c) => c.errors = errs /\ c.failures = FailureStreak(st)
    /\ LastReducer(c, st)

-----------------------------------------------------------------------------
MemoryOK ==
    /\ runner \in Runners
    /\ lost \in 0 .. MaxLost
    /\ sched \in [Coordinator -> Scheduler]

\* Reducers are numbered as they start.
RowsInv(run, st) ==
    /\ run \in Runners /\ st \in Rows
    /\ IsFiniteSet(FailedReducers(st))
    /\ \A w \in Task : run[w] = "idle" => st[w] = "none"
    /\ \A r, s \in Reducer : run[r] = "idle" /\ run[s] # "idle" => s < r

\* Nothing happens before the first coordinator.
Untouched(st, errs) == errs = 0 /\ \A w \in Task : st[w] = "none"

LimitsInv ==
    /\ TypeOK /\ MemoryOK /\ RowsInv(runner, status)
    /\ generation = 1 => Untouched(status, errors)
    /\ \A g \in Coordinator : Fits(sched[g], runner, status)
    /\ \A g \in Coordinator : g = generation => Leads(sched[g], runner, status, errors)
    /\ \A g, h \in Coordinator : g # h => Hands(sched[g]) \cap Hands(sched[h]) = {}

-----------------------------------------------------------------------------
(* Sets of workers.                                                           *)

LEMMA FiniteDiscoveries ==
  ASSUME NEW S, S \subseteq Discovery
  PROVE  IsFiniteSet(S) /\ Cardinality(S) \in Nat
BY WorkersAssumption, FS_Subset, FS_CardinalityType

LEMMA SmallerIsSmaller ==
  ASSUME NEW S, S \subseteq Discovery, NEW T, T \subseteq S
  PROVE  /\ Cardinality(T) <= Cardinality(S)
         /\ Cardinality(T) \in Nat /\ Cardinality(S) \in Nat
BY FiniteDiscoveries, FS_Subset

\* At most one element.
LEMMA OneOrNone ==
  ASSUME NEW S, \A r, s \in S : r = s
  PROVE  IsFiniteSet(S) /\ Cardinality(S) \in 0 .. 1
<1>1. S = {} \/ \E r : S = {r}
  OBVIOUS
<1>2. CASE S = {}
  BY <1>2, FS_EmptySet
<1>3. CASE \E r : S = {r}
  BY <1>3, FS_Singleton
<1> QED BY <1>1, <1>2, <1>3

LEMMA WithoutOne ==
  ASSUME NEW S, IsFiniteSet(S), NEW w \in S
  PROVE  IsFiniteSet(S \ {w}) /\ Cardinality(S \ {w}) = Cardinality(S) - 1
BY FS_RemoveElement

Streak(st) ==
    {r \in Reducer : st[r] = "failed" /\ \A s \in Reducer : s > r => st[s] # "succeeded"}

LEMMA StreakIsFinite ==
  ASSUME NEW st, IsFiniteSet(FailedReducers(st))
  PROVE  /\ FailureStreak(st) = Cardinality(Streak(st))
         /\ IsFiniteSet(Streak(st)) /\ FailureStreak(st) \in Nat
<1>1. Streak(st) \subseteq FailedReducers(st)
  BY DEF Streak, FailedReducers
<1>2. FailureStreak(st) = Cardinality(Streak(st))
  BY DEF FailureStreak, Streak
<1> QED BY <1>1, <1>2, FS_Subset, FS_CardinalityType

-----------------------------------------------------------------------------
(* What the scheduler makes of its record.                                    *)

\* Nothing that the rest depends on is touched.
SameHands(c, d) ==
    /\ d.active = c.active /\ d.reducer = c.reducer
    /\ d.settlements = c.settlements /\ d.tail = c.tail

LEMMA UnstartedIsScheduler ==
  /\ Unstarted \in Scheduler /\ Unstarted.active = {} /\ Unstarted.reducer = {}
  /\ Unstarted.settlements = <<>> /\ Unstarted.tail = <<>>
  /\ Unstarted.discoveryAbort = "none" /\ Unstarted.abort = "none"
BY DEF Unstarted, Scheduler, Pc, AbortReason, TerminalReason, Result, RunStatus

LEMMA ResultFields ==
  ASSUME NEW c \in Scheduler, NEW to \in Pc, NEW r \in Result,
         NEW d, d = [c EXCEPT !.pc = to, !.result = r]
  PROVE  d \in Scheduler /\ SameHands(c, d)
BY DEF Scheduler, SameHands

LEMMA EndedIsScheduler ==
  ASSUME NEW c \in Scheduler, NEW outcome \in Result
  PROVE  /\ Ended(c, outcome) \in Scheduler /\ Ended(c, outcome).pc = "ended"
         /\ Ended(c, outcome).active = {} /\ Ended(c, outcome).reducer = {}
         /\ Ended(c, outcome).settlements = <<>> /\ Ended(c, outcome).tail = <<>>
         /\ Ended(c, outcome).discoveryAbort = "none"
<1> DEFINE r == IF c.external THEN c.result ELSE IF c.canceled THEN "canceled" ELSE outcome
<1>1. r \in Result
  BY DEF Scheduler, Result, RunStatus
<1>2. Ended(c, outcome) = [Unstarted EXCEPT !.pc = "ended", !.result = r]
  BY DEF Ended
<1> HIDE DEF r
<1>3. "ended" \in Pc
  BY DEF Pc
<1> DEFINE d == Ended(c, outcome)
<1> HIDE DEF d
<1>4. d = [Unstarted EXCEPT !.pc = "ended", !.result = r]
  BY <1>2 DEF d
<1>5. /\ d \in Scheduler /\ SameHands(Unstarted, d) /\ d.pc = "ended"
      /\ d.discoveryAbort = Unstarted.discoveryAbort
  <2>1. Unstarted \in Scheduler
    BY UnstartedIsScheduler
  <2>2. d \in Scheduler /\ SameHands(Unstarted, d)
    BY <1>1, <1>3, <1>4, <2>1, ResultFields
  <2>3. d.pc = "ended" /\ d.discoveryAbort = Unstarted.discoveryAbort
    BY <1>4, <2>1 DEF Scheduler
  <2> QED BY <2>2, <2>3
<1> QED BY <1>5, UnstartedIsScheduler DEF SameHands, d

AbortsFit(c) == c.discoveryAbort # "none" => c.deadline \/ c.abort # "none"

\* A record that goes on, or leaves the loop.
Follows(c, d) ==
    /\ d \in Scheduler /\ SameHands(c, d) /\ AbortsFit(d)
    /\ d.errors = c.errors /\ d.failures = c.failures
    /\ c.discoveryAbort # "none" => d.discoveryAbort # "none"
    /\ d.pc = c.pc \/ d.pc \notin {"starting", "loop", "waiting", "reconciling"}

LEMMA KeepsFit ==
  ASSUME NEW run, NEW st, NEW c, Fits(c, run, st), NEW d, Follows(c, d)
  PROVE  Fits(d, run, st)
<1>1. Hands(d) = Hands(c)
  BY DEF Follows, SameHands, Hands
<1>2. SettlementsFit(d, run, st)
  BY <1>1 DEF Fits, SettlementsFit, SettlementFits, Follows, SameHands
<1>3. TailFits(d, run)
  BY <1>1 DEF Fits, TailFits, Follows, SameHands
<1>4. Sound(d)
  BY <1>1 DEF Fits, Sound, AbortsFit, Looping, Follows, SameHands
<1> QED BY <1>1, <1>2, <1>3, <1>4 DEF Fits

LEMMA KeepsLead ==
  ASSUME NEW run, NEW st, NEW errs, NEW c, Leads(c, run, st, errs), NEW d, Follows(c, d)
  PROVE  Leads(d, run, st, errs)
<1>1. PoolInv(d, st)
  BY DEF Leads, PoolInv, Follows, SameHands, Looping, Starting, Unborn
<1>2. ErrorsInv(d, run, errs)
  BY DEF Leads, ErrorsInv, Follows, SameHands, Looping, Starting
<1>3. FailuresInv(d, run, st)
  BY DEF Leads, FailuresInv, Follows, SameHands, Looping, Starting, Uncounted
<1> QED BY <1>1, <1>2, <1>3 DEF Leads, Follows, SameHands, Looping, Starting, LastReducer

\* A record with empty hands fits, and takes nothing from what holds.
LEMMA EmptyFits ==
  ASSUME NEW run, NEW st, NEW d \in Scheduler, d.active = {}, d.reducer = {},
         d.settlements = <<>>, d.tail = <<>>,
         d.discoveryAbort # "none" => d.deadline \/ d.abort # "none", d.pc # "waiting",
         Looping(d) => d.failures < ErrorLimit
  PROVE  Fits(d, run, st)
<1>1. Hands(d) = {} /\ Cardinality(d.active) = 0
  BY FS_EmptySet DEF Hands
<1>2. SettlementsFit(d, run, st) /\ TailFits(d, run)
  BY <1>1 DEF SettlementsFit, TailFits
<1>3. Sound(d)
  BY <1>1, CoordinatorAssumption DEF Sound
<1> QED BY <1>1, <1>2, <1>3 DEF Fits

LEMMA UnsettledIsFinite ==
  ASSUME NEW c, Sound(c), NEW run
  PROVE  /\ Unsettled(c.active, run) \subseteq Discovery
         /\ IsFiniteSet(Unsettled(c.active, run)) /\ Cardinality(Unsettled(c.active, run)) \in Nat
         /\ Cardinality(Unsettled(c.active, run)) <= Cardinality(c.active)
         /\ IsFiniteSet(Unsettled(c.reducer, run))
         /\ Cardinality(Unsettled(c.reducer, run)) \in 0 .. 1
<1>1. c.active \subseteq Discovery
  BY DEF Sound, Scheduler
<1>2. Unsettled(c.active, run) \subseteq c.active
  BY DEF Unsettled
<1>3. \A r, s \in Unsettled(c.reducer, run) : r = s
  BY DEF Unsettled, Sound
<1> QED BY <1>1, <1>2, <1>3, SmallerIsSmaller, FiniteDiscoveries, OneOrNone

LEMMA EmptyLeads ==
  ASSUME NEW run, NEW run2, NEW st, NEW errs \in Nat, RowsInv(run, st),
         NEW c, Sound(c), Leads(c, run, st, errs),
         NEW d, d.active = {}, d.reducer = {}, ~Starting(d), ~Looping(d)
  PROVE  Leads(d, run2, st, errs)
<1>1. Unborn(d, st) = {} /\ AtWork(st) \cup Unborn(d, st) \subseteq AtWork(st) \cup Unborn(c, st)
      /\ AtWork(st) \cup Unborn(c, st) \subseteq Discovery
  BY DEF Unborn, AtWork, Sound, Scheduler
<1>2. PoolInv(d, st)
  <2>1. /\ Cardinality(AtWork(st) \cup Unborn(d, st)) <= Cardinality(AtWork(st) \cup Unborn(c, st))
        /\ Cardinality(AtWork(st) \cup Unborn(c, st)) \in Nat
        /\ Cardinality(AtWork(st) \cup Unborn(d, st)) \in Nat
    BY <1>1, SmallerIsSmaller
  <2> QED BY <2>1, CoordinatorAssumption DEF PoolInv, Leads
<1>3. Unsettled(d.active, run2) = {} /\ Unsettled(d.reducer, run2) = {} /\ Cardinality({}) = 0
  BY FS_EmptySet DEF Unsettled
<1>4. ErrorsInv(d, run2, errs)
  <2>1. Cardinality(Unsettled(c.active, run)) \in Nat
    BY UnsettledIsFinite
  <2> QED BY <1>3, <2>1, CoordinatorAssumption DEF ErrorsInv, Leads
<1>5. FailuresInv(d, run2, st)
  <2>1. Cardinality(Unsettled(c.reducer, run)) \in Nat
    BY UnsettledIsFinite
  <2>2. FailureStreak(st) \in Nat
    BY StreakIsFinite DEF RowsInv
  <2>3. FailureStreak(st) + Cardinality(Unsettled(c.reducer, run)) <= ErrorLimit
    BY DEF FailuresInv, Leads
  <2>4. FailureStreak(st) + Cardinality(Unsettled(d.reducer, run2)) <= ErrorLimit
    <3> DEFINE f == FailureStreak(st)
               m == Cardinality(Unsettled(c.reducer, run))
               n == Cardinality(Unsettled(d.reducer, run2))
    <3>1. n = 0
      BY <1>3
    <3>2. f \in Nat /\ m \in Nat /\ f + m <= ErrorLimit
      BY <2>1, <2>2, <2>3
    <3> HIDE DEF f, m, n
    <3>3. f + n <= ErrorLimit
      BY <3>1, <3>2, CoordinatorAssumption
    <3> QED BY <3>3 DEF f, n
  <2> QED BY <2>4 DEF FailuresInv
<1> QED BY <1>2, <1>4, <1>5 DEF Leads, LastReducer

-----------------------------------------------------------------------------
(* What others do.                                                            *)

\* Rows of workers that are someone else's, and rows that are canceled.
LEMMA FitsElsewhere ==
  ASSUME NEW run, NEW st, NEW c, Fits(c, run, st), NEW run2, NEW st2,
         \A w \in Hands(c) : /\ run2[w] = run[w]
                             /\ st[w] = "succeeded" => st2[w] = "succeeded"
                             /\ st[w] \notin Active => st2[w] \notin Active
  PROVE  Fits(c, run2, st2)
<1>1. SettlementsFit(c, run2, st2)
  <2>1. ASSUME NEW i \in DOMAIN c.settlements
        PROVE  SettlementFits(c, c.settlements[i], run2, st2)
    BY DEF Fits, SettlementsFit, SettlementFits
  <2> QED BY <2>1 DEF Fits, SettlementsFit
<1>2. TailFits(c, run2)
  BY DEF Fits, TailFits
<1> QED BY <1>1, <1>2 DEF Fits

LEMMA LeadsElsewhere ==
  ASSUME NEW run, NEW st, NEW errs, NEW c, Leads(c, run, st, errs), NEW run2,
         \A w \in Hands(c) : run2[w] = run[w]
  PROVE  Leads(c, run2, st, errs)
<1>1. /\ Unsettled(c.active, run2) = Unsettled(c.active, run)
      /\ Unsettled(c.reducer, run2) = Unsettled(c.reducer, run)
  BY DEF Unsettled, Hands
<1> QED BY <1>1 DEF Leads, ErrorsInv, FailuresInv

Swept(st) == [w \in Worker |-> IF st[w] \in Active THEN "canceled" ELSE st[w]]

LEMMA SweptRows ==
  ASSUME NEW run, NEW st, RowsInv(run, st)
  PROVE  /\ RowsInv(run, Swept(st)) /\ AtWork(Swept(st)) = {}
         /\ FailureStreak(Swept(st)) = FailureStreak(st)
         /\ \A w \in Worker : /\ st[w] = "succeeded" <=> Swept(st)[w] = "succeeded"
                              /\ st[w] \notin Active => Swept(st)[w] \notin Active
                              /\ st[w] = "none" <=> Swept(st)[w] = "none"
<1>1. Task \subseteq Worker /\ Discovery \subseteq Worker /\ Reducer \subseteq Worker
  BY DEF Task, Worker
<1>2. \A w \in Worker : /\ st[w] = "succeeded" <=> Swept(st)[w] = "succeeded"
                        /\ st[w] = "failed" <=> Swept(st)[w] = "failed"
                        /\ st[w] = "none" <=> Swept(st)[w] = "none"
                        /\ Swept(st)[w] \notin Active /\ Swept(st)[w] \in WorkerStatus
  BY DEF Swept, Active, RowsInv, Rows, WorkerStatus
<1>3. FailedReducers(Swept(st)) = FailedReducers(st) /\ Streak(Swept(st)) = Streak(st)
  BY <1>1, <1>2 DEF FailedReducers, Streak
<1>4. FailureStreak(Swept(st)) = FailureStreak(st)
  BY <1>3, StreakIsFinite DEF RowsInv
<1>5. Swept(st) \in Rows
  BY <1>2 DEF Swept, Rows
<1>6. RowsInv(run, Swept(st))
  BY <1>1, <1>2, <1>3, <1>5 DEF RowsInv
<1> QED BY <1>1, <1>2, <1>4, <1>6 DEF AtWork

LEMMA SweptLeads ==
  ASSUME NEW run, NEW st, NEW errs, RowsInv(run, st), NEW c, Sound(c), Leads(c, run, st, errs)
  PROVE  Leads(c, run, Swept(st), errs)
<1>1. Discovery \subseteq Worker /\ Reducer \subseteq Worker /\ c.active \subseteq Discovery
  BY DEF Worker, Sound, Scheduler
<1>2. Unborn(c, Swept(st)) = Unborn(c, st)
  BY <1>1, SweptRows DEF Unborn
<1>3. PoolInv(c, Swept(st))
  <2>1. /\ AtWork(Swept(st)) \cup Unborn(c, Swept(st)) \subseteq AtWork(st) \cup Unborn(c, st)
        /\ AtWork(st) \cup Unborn(c, st) \subseteq Discovery
    BY <1>1, <1>2, SweptRows DEF AtWork, Unborn
  <2>2. /\ Cardinality(AtWork(Swept(st)) \cup Unborn(c, Swept(st)))
              <= Cardinality(AtWork(st) \cup Unborn(c, st))
        /\ Cardinality(AtWork(Swept(st)) \cup Unborn(c, Swept(st))) \in Nat
        /\ Cardinality(AtWork(st) \cup Unborn(c, st)) \in Nat
    BY <2>1, SmallerIsSmaller
  <2>3. AtWork(Swept(st)) \subseteq c.active
    BY SweptRows
  <2> QED BY <2>2, <2>3, CoordinatorAssumption DEF PoolInv, Leads
<1>4. FailuresInv(c, run, Swept(st))
  BY SweptRows DEF FailuresInv, Uncounted, Leads
<1>5. LastReducer(c, Swept(st))
  BY <1>1, SweptRows DEF LastReducer, Leads
<1> QED BY <1>3, <1>4, <1>5, SweptRows DEF Leads

-----------------------------------------------------------------------------
(* The scheduler takes a settlement.                                          *)

LEMMA HeadFacts ==
  ASSUME NEW run, NEW st, NEW c, Fits(c, run, st), c.settlements # <<>>,
         NEW e, e = Head(c.settlements), NEW t, t = Tail(c.settlements)
  PROVE  /\ e \in Answer /\ SettlementFits(c, e, run, st)
         /\ \A i \in DOMAIN t : /\ i + 1 \in DOMAIN c.settlements
                                /\ t[i] = c.settlements[i + 1] /\ t[i].worker # e.worker
         /\ \A i \in DOMAIN c.settlements :
               \/ i = 1 /\ c.settlements[i] = e
               \/ i - 1 \in DOMAIN t /\ t[i - 1] = c.settlements[i]
<1> DEFINE s == c.settlements
<1>1. s \in Seq(Answer) /\ s # <<>>
  BY DEF Fits, Sound, Scheduler
<1>2. /\ \A i, j \in DOMAIN s : s[i].worker = s[j].worker => i = j
      /\ \A i \in DOMAIN s : SettlementFits(c, s[i], run, st)
  BY DEF Fits, SettlementsFit
<1>3. e = Head(s) /\ t = Tail(s)
  OBVIOUS
<1> HIDE DEF s
<1>4. Len(s) \in Nat \ {0} /\ DOMAIN s = 1 .. Len(s)
  BY <1>1, EmptySeq, LenProperties
<1>5. /\ t \in Seq(Answer) /\ Len(t) = Len(s) - 1
      /\ \A i \in 1 .. Len(t) : t[i] = s[i + 1]
  BY <1>1, <1>3, HeadTailProperties
<1>6. DOMAIN t = 1 .. Len(t)
  BY <1>5, LenProperties
<1>7. e = s[1] /\ 1 \in DOMAIN s /\ e \in Answer
  BY <1>1, <1>3, <1>4, ElementOfSeq
<1> DEFINE n == Len(s)
<1>8. n \in Nat \ {0} /\ DOMAIN s = 1 .. n /\ DOMAIN t = 1 .. (n - 1)
  BY <1>4, <1>5, <1>6
<1> HIDE DEF n
<1>9. ASSUME NEW i \in DOMAIN t
      PROVE  i + 1 \in DOMAIN s /\ t[i] = s[i + 1] /\ t[i].worker # e.worker
  <2>1. i + 1 \in DOMAIN s /\ i + 1 # 1
    BY <1>8
  <2>2. t[i] = s[i + 1]
    BY <1>5, <1>6
  <2> QED BY <2>1, <2>2, <1>2, <1>7
<1>10. ASSUME NEW i \in DOMAIN s, i # 1
       PROVE  i - 1 \in DOMAIN t /\ t[i - 1] = s[i]
  <2>1. i - 1 \in DOMAIN t /\ (i - 1) + 1 = i
    BY <1>8, <1>10
  <2> QED BY <2>1, <1>9
<1> QED BY <1>2, <1>7, <1>9, <1>10 DEF s

\* What Taken and all that is made of it do to the hands.
Drops(c, d) ==
    LET w == Head(c.settlements).worker
    IN  /\ c.settlements # <<>>
        /\ d.settlements = Tail(c.settlements) /\ d.tail = c.tail
        /\ d.active = c.active \ {w} /\ d.reducer = c.reducer \ {w}

\* It takes the settlement e, as all that is made of Taken does.
TakesFirst(c, d, e) ==
    /\ d \in Scheduler /\ Drops(c, d) /\ AbortsFit(d)
    /\ c.discoveryAbort # "none" => d.discoveryAbort # "none"
    /\ d.pc \in {"loop", "unwinding"} \/ (d.pc = "reconciling" /\ d.reducer = {})
    /\ Looping(d) =>
          /\ ~Fatal(e) /\ d.failures < ErrorLimit
          /\ \/ e.worker \in Discovery /\ d.failures = c.failures
             \/ e.worker \in Reducer /\ e.outcome = "failed" /\ d.failures = c.failures + 1
             \/ e.worker \in Reducer /\ e.outcome = "succeeded" /\ d.failures = 0

LEMMA DropsFit ==
  ASSUME NEW run, NEW st, NEW c, Fits(c, run, st), NEW d, TakesFirst(c, d, Head(c.settlements))
  PROVE  Fits(d, run, st)
<1> DEFINE e == Head(c.settlements)
           t == d.settlements
<1>0. /\ t = Tail(c.settlements) /\ d.tail = c.tail /\ c.settlements # <<>>
      /\ d.active = c.active \ {e.worker} /\ d.reducer = c.reducer \ {e.worker}
  BY DEF TakesFirst, Drops
<1> HIDE DEF e, t
<1>1. /\ SettlementFits(c, e, run, st)
      /\ \A i \in DOMAIN t : /\ i + 1 \in DOMAIN c.settlements
                             /\ t[i] = c.settlements[i + 1] /\ t[i].worker # e.worker
      /\ \A i \in DOMAIN c.settlements :
            \/ i = 1 /\ c.settlements[i] = e
            \/ i - 1 \in DOMAIN t /\ t[i - 1] = c.settlements[i]
  BY <1>0, HeadFacts DEF e
<1>2. Hands(d) = Hands(c) \ {e.worker}
  BY <1>0 DEF Hands
<1>3. Sound(d)
  <2>1. c.active \subseteq Discovery /\ d.active \subseteq c.active
    BY <1>0 DEF Fits, Sound, Scheduler
  <2>2. Cardinality(d.active) <= Cardinality(c.active) /\ Cardinality(d.active) \in Nat
        /\ Cardinality(c.active) \in Nat /\ Cardinality(c.active) <= Workers
    BY <2>1, SmallerIsSmaller DEF Fits, Sound
  <2>3. Cardinality(d.active) <= Workers
    BY <2>2, CoordinatorAssumption
  <2> QED BY <1>0, <2>3 DEF Sound, Fits, TakesFirst, AbortsFit
<1>4. SettlementsFit(d, run, st)
  <2>1. ASSUME NEW w \in Hands(d), run[w] = "settled"
        PROVE  \E i \in DOMAIN t : t[i].worker = w
    <3>1. PICK i \in DOMAIN c.settlements : c.settlements[i].worker = w
      BY <1>2, <2>1 DEF Fits, SettlementsFit
    <3> QED BY <1>1, <1>2, <3>1
  <2>2. ASSUME NEW i \in DOMAIN t PROVE SettlementFits(d, t[i], run, st)
    <3>1. SettlementFits(c, t[i], run, st)
      BY <1>1 DEF Fits, SettlementsFit
    <3> QED BY <1>1, <1>2, <3>1 DEF SettlementFits, TakesFirst
  <2>3. ASSUME NEW i \in DOMAIN t, NEW j \in DOMAIN t, t[i].worker = t[j].worker
        PROVE  i = j
    <3>1. i + 1 = j + 1
      BY <1>1, <2>3 DEF Fits, SettlementsFit
    <3>2. i \in Nat /\ j \in Nat
      <4>1. t \in Seq(Answer)
        BY DEF t, Scheduler, TakesFirst
      <4> QED BY <4>1, LenProperties
    <3> QED BY <3>1, <3>2
  <2> QED BY <2>1, <2>2, <2>3 DEF SettlementsFit, t
<1>5. TailFits(d, run)
  <2>1. ASSUME NEW i \in DOMAIN c.tail
        PROVE  c.tail[i] \in Hands(d) /\ run[c.tail[i]] \in Request
    <3>1. c.tail[i] \in Hands(c) /\ run[c.tail[i]] \in Request /\ run[e.worker] = "settled"
      BY <1>1 DEF Fits, TailFits, SettlementFits
    <3> QED BY <1>2, <3>1 DEF Request
  <2> QED BY <1>0, <2>1 DEF Fits, TailFits
<1>6. \A w \in Hands(d) : run[w] # "idle"
  BY <1>2 DEF Fits
<1> QED BY <1>3, <1>4, <1>5, <1>6 DEF Fits

\* A reducer that succeeded is the last one, and ends the streak.
LEMMA SuccessEndsTheStreak ==
  ASSUME NEW c, NEW st, LastReducer(c, st), NEW r \in c.reducer, r \in Reducer,
         st[r] = "succeeded"
  PROVE  FailureStreak(st) = 0
<1>1. Streak(st) = {}
  <2> SUFFICES ASSUME NEW q \in Streak(st) PROVE FALSE
    OBVIOUS
  <2>1. q \in Reducer /\ st[q] = "failed" /\ q \in Nat /\ r \in Nat
    BY CoordinatorAssumption DEF Streak
  <2>2. q <= r /\ q # r
    BY <2>1 DEF LastReducer
  <2>3. r > q
    BY <2>1, <2>2
  <2> QED BY <2>3 DEF Streak
<1> QED BY <1>1, FS_EmptySet DEF FailureStreak, Streak

LEMMA DropsLead ==
  ASSUME NEW run, NEW st, NEW errs \in Nat, RowsInv(run, st),
         NEW c, Fits(c, run, st), Leads(c, run, st, errs), Looping(c),
         NEW e, e = Head(c.settlements), NEW d, TakesFirst(c, d, e)
  PROVE  Leads(d, run, st, errs)
<1> DEFINE t == d.settlements
<1>0. /\ t = Tail(c.settlements) /\ c.settlements # <<>>
      /\ d.active = c.active \ {e.worker} /\ d.reducer = c.reducer \ {e.worker}
  BY DEF TakesFirst, Drops
<1> HIDE DEF t
<1>1. /\ SettlementFits(c, e, run, st)
      /\ \A i \in DOMAIN t : /\ i + 1 \in DOMAIN c.settlements
                             /\ t[i] = c.settlements[i + 1] /\ t[i].worker # e.worker
      /\ \A i \in DOMAIN c.settlements :
            \/ i = 1 /\ c.settlements[i] = e
            \/ i - 1 \in DOMAIN t /\ t[i - 1] = c.settlements[i]
  BY <1>0, HeadFacts
<1>2. Sound(c) /\ c.active \subseteq Discovery /\ c.reducer \subseteq Reducer
  BY DEF Fits, Sound, Scheduler
<1>3. /\ Unsettled(d.active, run) = Unsettled(c.active, run)
      /\ Unsettled(d.reducer, run) = Unsettled(c.reducer, run)
  BY <1>0, <1>1 DEF Unsettled, SettlementFits
<1>4. PoolInv(d, st)
  <2>1. /\ AtWork(st) \cup Unborn(d, st) \subseteq AtWork(st) \cup Unborn(c, st)
        /\ AtWork(st) \cup Unborn(c, st) \subseteq Discovery
    BY <1>0, <1>2 DEF AtWork, Unborn
  <2>2. /\ Cardinality(AtWork(st) \cup Unborn(d, st)) <= Cardinality(AtWork(st) \cup Unborn(c, st))
        /\ Cardinality(AtWork(st) \cup Unborn(d, st)) \in Nat
        /\ Cardinality(AtWork(st) \cup Unborn(c, st)) \in Nat
    BY <2>1, SmallerIsSmaller
  <2>3. ASSUME Looping(d), d.discoveryAbort = "none" PROVE AtWork(st) \subseteq d.active
    <3>1. AtWork(st) \subseteq c.active
      BY <2>3 DEF Leads, PoolInv, TakesFirst
    <3>2. e.worker \notin AtWork(st)
      BY <1>1, <2>3 DEF SettlementFits, AtWork, Fatal, TakesFirst
    <3> QED BY <1>0, <3>1, <3>2
  <2>4. Cardinality(AtWork(st) \cup Unborn(c, st)) <= Workers
    BY DEF Leads, PoolInv
  <2>5. Cardinality(AtWork(st) \cup Unborn(d, st)) <= Workers
    BY <2>2, <2>4, CoordinatorAssumption
  <2> QED BY <2>3, <2>5 DEF PoolInv, TakesFirst, Starting
<1>5. ErrorsInv(d, run, errs)
  <2>1. ASSUME errs >= ErrorLimit, Looping(d)
        PROVE  \E i \in DOMAIN t : Fatal(t[i])
    <3>1. PICK i \in DOMAIN c.settlements : Fatal(c.settlements[i])
      BY <2>1 DEF Leads, ErrorsInv
    <3> QED BY <1>1, <2>1, <3>1 DEF TakesFirst
  <2> QED BY <1>3, <2>1 DEF Leads, ErrorsInv, t
<1>6. FailuresInv(d, run, st)
  <2>1. ASSUME Looping(d)
        PROVE  \/ FailureStreak(st) <= d.failures
               \/ \E i \in DOMAIN t : Uncounted(d, t[i], st)
    <3>1. CASE e.worker \in Discovery /\ d.failures = c.failures
      <4>1. CASE FailureStreak(st) <= c.failures
        BY <3>1, <4>1
      <4>2. ASSUME NEW i \in DOMAIN c.settlements, Uncounted(c, c.settlements[i], st)
            PROVE  \E j \in DOMAIN t : Uncounted(d, t[j], st)
        <5>1. c.settlements[i] # e
          BY <3>1, <4>2, WorkersAssumption DEF Uncounted
        <5>2. i - 1 \in DOMAIN t /\ t[i - 1] = c.settlements[i]
          BY <1>1, <5>1
        <5>3. Uncounted(d, t[i - 1], st)
          BY <3>1, <4>2, <5>2 DEF Uncounted
        <5> QED BY <5>2, <5>3
      <4> QED BY <4>1, <4>2 DEF Leads, FailuresInv
    <3>2. CASE e.worker \in Reducer /\ e.outcome = "failed" /\ d.failures = c.failures + 1
      <4>0. FailureStreak(st) \in Nat /\ c.failures \in Nat
        BY <1>2, StreakIsFinite DEF RowsInv, Sound, Scheduler
      <4>1. CASE FailureStreak(st) <= c.failures
        BY <3>2, <4>0, <4>1
      <4>2. ASSUME NEW i \in DOMAIN c.settlements, Uncounted(c, c.settlements[i], st)
            PROVE  FailureStreak(st) <= d.failures
        <5>1. c.settlements[i].worker \in Reducer /\ c.settlements[i].worker \in Hands(c)
          BY <4>2 DEF Uncounted, Fits, SettlementsFit, SettlementFits
        <5>2. c.settlements[i].worker = e.worker
          BY <1>1, <1>2, <3>2, <5>1, WorkersAssumption DEF Hands, SettlementFits, Sound
        <5>3. c.settlements[i] = e
          BY <1>1, <5>2
        <5> QED BY <3>2, <4>2, <5>3 DEF Uncounted
      <4> QED BY <4>1, <4>2 DEF Leads, FailuresInv
    <3>3. CASE e.worker \in Reducer /\ e.outcome = "succeeded" /\ d.failures = 0
      <4>1. e.worker \in c.reducer /\ st[e.worker] = "succeeded"
        BY <1>1, <1>2, <3>3, WorkersAssumption DEF SettlementFits, Hands
      <4>2. FailureStreak(st) = 0
        BY <3>3, <4>1, SuccessEndsTheStreak DEF Leads
      <4> QED BY <3>3, <4>2
    <3> QED BY <2>1, <3>1, <3>2, <3>3 DEF TakesFirst
  <2> QED BY <1>3, <2>1 DEF Leads, FailuresInv, t, TakesFirst
<1>7. LastReducer(d, st)
  BY <1>0 DEF Leads, LastReducer
<1> QED BY <1>4, <1>5, <1>6, <1>7 DEF Leads, TakesFirst, Starting

-----------------------------------------------------------------------------
(* A turn of the scheduler.                                                   *)

\* What Fresh makes of the unused ids.
Least(U, n) == {w \in U : Cardinality({v \in U : v < w}) < n}

LEMMA LeastIsSmall ==
  ASSUME NEW U, U \subseteq Discovery, NEW n \in Int
  PROVE  /\ Least(U, n) \subseteq U
         /\ n <= 0 => Least(U, n) = {}
         /\ n >= 0 => Cardinality(Least(U, n)) <= n
<1> DEFINE Below(w) == {v \in U : v < w}
<1>1. ASSUME NEW w PROVE IsFiniteSet(Below(w)) /\ Cardinality(Below(w)) \in Nat
  <2>1. Below(w) \subseteq Discovery
    OBVIOUS
  <2> QED BY <2>1, FiniteDiscoveries
<1>2. \A w \in Least(U, n) : w \in U /\ Cardinality(Below(w)) < n
  BY DEF Least
<1>3. U \subseteq Nat
  BY CoordinatorAssumption
<1>4. ASSUME NEW v \in U, NEW w \in U, v < w
      PROVE  Cardinality(Below(v)) < Cardinality(Below(w))
  <2>1. Below(v) \subseteq Below(w) \ {v} /\ v \in Below(w)
    <3>1. v \in Nat /\ w \in Nat
      BY <1>3
    <3>2. ASSUME NEW x \in U, x < v PROVE x < w /\ x # v
      BY <1>3, <1>4, <3>1, <3>2
    <3> QED BY <1>4, <3>2
  <2>2. IsFiniteSet(Below(w) \ {v}) /\ Cardinality(Below(w) \ {v}) = Cardinality(Below(w)) - 1
    BY <1>1, <2>1, WithoutOne
  <2>3. Cardinality(Below(v)) <= Cardinality(Below(w) \ {v})
    BY <2>1, <2>2, FS_Subset
  <2> DEFINE a == Cardinality(Below(v))
             b == Cardinality(Below(w))
  <2>4. a \in Nat /\ b \in Nat /\ a <= b - 1
    BY <1>1, <2>2, <2>3
  <2> HIDE DEF a, b
  <2>5. a < b
    BY <2>4
  <2> QED BY <2>5 DEF a, b
<1>5. ASSUME n >= 0 PROVE Cardinality(Least(U, n)) <= n
  <2> DEFINE f == [w \in Least(U, n) |-> Cardinality(Below(w))]
  <2>1. f \in [Least(U, n) -> 0 .. (n - 1)]
    BY <1>1, <1>2, <1>5
  <2>2. ASSUME NEW v \in Least(U, n), NEW w \in Least(U, n), f[v] = f[w] PROVE v = w
    <3>1. Cardinality(Below(v)) = Cardinality(Below(w)) /\ v \in U /\ w \in U
      BY <1>2, <2>2
    <3>2. ~(v < w) /\ ~(w < v)
      BY <1>1, <1>4, <3>1
    <3> QED BY <1>3, <3>1, <3>2
  <2>3. f \in Injection(Least(U, n), 0 .. (n - 1))
    BY <2>1, <2>2 DEF Injection, IsInjective
  <2>4. IsFiniteSet(0 .. (n - 1)) /\ Cardinality(0 .. (n - 1)) = n
    BY <1>5, FS_Interval
  <2> HIDE DEF f
  <2> QED BY <2>3, <2>4, FS_Injection
<1>6. ASSUME n <= 0 PROVE Least(U, n) = {}
  <2> SUFFICES ASSUME NEW w \in Least(U, n) PROVE FALSE
    OBVIOUS
  <2> DEFINE a == Cardinality(Below(w))
  <2>1. a \in Nat /\ a < n
    BY <1>1, <1>2
  <2> HIDE DEF a
  <2> QED BY <1>6, <2>1
<1> QED BY <1>5, <1>6 DEF Least

LEMMA LeastIsFirst ==
  ASSUME NEW U, U \subseteq Reducer, NEW r \in Least(U, 1)
  PROVE  r \in U /\ \A v \in U : r <= v
<1>1. r \in U /\ U \subseteq Nat /\ Cardinality({v \in U : v < r}) < 1
  BY CoordinatorAssumption DEF Least
<1>2. IsFiniteSet({v \in U : v < r})
  <2> DEFINE B == {v \in U : v < r}
  <2>1. B \in SUBSET Nat /\ r \in Nat
    BY <1>1
  <2>2. \A v \in B : v <= r
    BY <1>1, <2>1
  <2> HIDE DEF B
  <2>3. IsFiniteSet(B)
    BY <2>1, <2>2, FS_BoundedSetOfNaturals
  <2> QED BY <2>3 DEF B
<1>3. {v \in U : v < r} = {}
  <2>1. Cardinality({v \in U : v < r}) \in Nat
    BY <1>2, FS_CardinalityType
  <2>2. Cardinality({v \in U : v < r}) = 0
    BY <1>1, <2>1
  <2> QED BY <1>2, <2>2, FS_EmptySet
<1> QED BY <1>1, <1>3

Idle(S, run) == {w \in S : run[w] = "idle"}

\* A turn adds the discoveries new and the reducers more.
Grows(c, d, run, new, more) ==
    /\ d.active = c.active \cup new /\ d.reducer = c.reducer \cup more
    /\ d.settlements = c.settlements /\ d.tail = c.tail
    /\ d.deadline = c.deadline /\ d.abort = c.abort
    /\ d.discoveryAbort = c.discoveryAbort /\ d.failures = c.failures
    /\ new # {} =>
          /\ c.settlements = <<>> /\ ~c.deadline
          /\ new \subseteq Idle(Discovery, run)
          /\ Cardinality(c.active) + Cardinality(new) <= Workers
    /\ more # {} =>
          /\ c.settlements = <<>> /\ c.reducer = {}
          /\ \A r \in more : r \in Idle(Reducer, run) /\ \A v \in Idle(Reducer, run) : r <= v

Prepared(run, S) == [w \in Task |-> IF w \in S THEN "prepare" ELSE run[w]]

LEMMA GrownRunners ==
  ASSUME NEW run, NEW st, RowsInv(run, st), NEW c, NEW d, NEW new, NEW more,
         Grows(c, d, run, new, more)
  PROVE  LET run2 == Prepared(run, new \cup more)
         IN  /\ RowsInv(run2, st)
             /\ \A w \in Task : run[w] # "idle" => run2[w] = run[w]
             /\ \A w \in new \cup more : run2[w] = "prepare" /\ run[w] = "idle" /\ w \in Task
<1> DEFINE run2 == Prepared(run, new \cup more)
<1>1. \A w \in new \cup more : run[w] = "idle" /\ w \in Task
  BY DEF Grows, Idle, Task
<1>2. \A w \in Task : run2[w] = IF w \in new \cup more THEN "prepare" ELSE run[w]
  BY DEF Prepared
<1>3. run2 \in Runners
  BY <1>2 DEF Prepared, RowsInv, Runners, RunnerStep
<1>4. \A w \in Task : run2[w] = "idle" => run[w] = "idle"
  BY <1>2
<1>5. ASSUME NEW r \in Reducer, NEW s \in Reducer, run2[r] = "idle", run2[s] # "idle"
      PROVE  s < r
  <2>0. r \in Task /\ s \in Task /\ Reducer \subseteq Nat /\ run[r] = "idle"
    BY <1>4, <1>5, CoordinatorAssumption DEF Task
  <2>1. CASE s \in more
    <3>1. s <= r
      BY <2>0, <2>1, <1>5 DEF Grows, Idle
    <3>2. s # r
      BY <2>0, <1>5
    <3> QED BY <2>0, <3>1, <3>2
  <2>2. CASE s \notin more
    <3>1. s \notin new
      BY <1>5, WorkersAssumption DEF Grows, Idle
    <3>2. run[s] # "idle"
      BY <1>2, <1>5, <2>0, <2>2, <3>1
    <3> QED BY <1>5, <2>0, <3>2 DEF RowsInv
  <2> QED BY <2>1, <2>2
<1>6. RowsInv(run2, st)
  BY <1>3, <1>4, <1>5 DEF RowsInv
<1> HIDE DEF run2
<1>7. /\ \A w \in Task : run[w] # "idle" => run2[w] = run[w]
      /\ \A w \in new \cup more : run2[w] = "prepare" /\ run[w] = "idle" /\ w \in Task
  BY <1>1, <1>2
<1> QED BY <1>6, <1>7 DEF run2

LEMMA GrowsFit ==
  ASSUME NEW run, NEW st, RowsInv(run, st), NEW c, Fits(c, run, st), NEW d \in Scheduler,
         NEW new, NEW more, Grows(c, d, run, new, more),
         NEW run2, run2 = Prepared(run, new \cup more),
         d.pc = "waiting" => Hands(d) # {}, d.pc = "reconciling" => d.reducer = {},
         ~Starting(d), Looping(c)
  PROVE  Fits(d, run2, st)
<1>1. /\ \A w \in Task : run[w] # "idle" => run2[w] = run[w]
      /\ \A w \in new \cup more : run2[w] = "prepare" /\ run[w] = "idle" /\ w \in Task
  BY GrownRunners
<1>2. /\ c.active \subseteq Discovery /\ d.active \subseteq Discovery /\ Hands(c) \subseteq Task
      /\ Hands(d) = Hands(c) \cup new \cup more
  BY DEF Fits, Sound, Scheduler, Hands, Task, Grows
<1>3. \A w \in Hands(c) : run2[w] = run[w]
  BY <1>1, <1>2 DEF Fits
<1>4. Sound(d)
  <2>1. Cardinality(d.active) <= Workers
    <3>1. CASE new = {}
      BY <3>1 DEF Grows, Fits, Sound
    <3>2. CASE new # {}
      <4>1. IsFiniteSet(c.active) /\ IsFiniteSet(new) /\ IsFiniteSet(c.active \cap new)
        BY <1>2, <3>2, FiniteDiscoveries DEF Grows, Idle
      <4>2. c.active \cap new = {}
        BY <1>1, <1>2 DEF Fits, Hands
      <4>3. Cardinality(d.active) = Cardinality(c.active) + Cardinality(new) - 0
        <5>1. /\ Cardinality(c.active \cup new)
                    = Cardinality(c.active) + Cardinality(new) - Cardinality(c.active \cap new)
          BY <4>1, FS_Union
        <5>2. d.active = c.active \cup new /\ Cardinality(c.active \cap new) = 0
          BY <4>2, FS_EmptySet DEF Grows
        <5> QED BY <5>1, <5>2
      <4>4. Cardinality(c.active) \in Nat /\ Cardinality(new) \in Nat
        BY <4>1, FS_CardinalityType
      <4>5. Cardinality(c.active) + Cardinality(new) <= Workers
        BY <3>2 DEF Grows
      <4> QED BY <4>3, <4>4, <4>5, CoordinatorAssumption
    <3> QED BY <3>1, <3>2
  <2>2. \A r, s \in d.reducer : r = s
    <3>1. CASE more = {}
      BY <3>1 DEF Grows, Fits, Sound
    <3>2. CASE more # {}
      <4>1. \A r, s \in more : r \in Nat /\ r <= s
        BY <3>2, CoordinatorAssumption DEF Grows, Idle
      <4>2. \A r, s \in more : r = s
        BY <4>1
      <4> QED BY <3>2, <4>2 DEF Grows
    <3> QED BY <3>1, <3>2
  <2> QED BY <2>1, <2>2 DEF Sound, Fits, Grows, Starting
<1>5. SettlementsFit(d, run2, st)
  <2>1. ASSUME NEW w \in Hands(d), run2[w] = "settled"
        PROVE  \E i \in DOMAIN d.settlements : d.settlements[i].worker = w
    <3>1. w \in Hands(c)
      BY <1>1, <1>2, <2>1
    <3> QED BY <1>3, <2>1, <3>1 DEF Fits, SettlementsFit, Grows
  <2>2. ASSUME NEW i \in DOMAIN c.settlements
        PROVE  SettlementFits(d, c.settlements[i], run2, st)
    <3>1. SettlementFits(c, c.settlements[i], run, st)
      BY DEF Fits, SettlementsFit
    <3> QED BY <1>2, <1>3, <3>1 DEF SettlementFits, Grows
  <2> QED BY <2>1, <2>2 DEF SettlementsFit, Grows, Fits
<1>6. TailFits(d, run2)
  <2>1. d.tail = c.tail /\ Hands(c) \subseteq Hands(d) /\ TailFits(c, run)
    BY <1>2 DEF Grows, Fits
  <2> QED BY <1>3, <2>1 DEF TailFits
<1>7. \A w \in Hands(d) : run2[w] # "idle"
  BY <1>1, <1>2, <1>3 DEF Fits
<1> QED BY <1>4, <1>5, <1>6, <1>7 DEF Fits

LEMMA GrowsLead ==
  ASSUME NEW run, NEW st, NEW errs \in Nat, RowsInv(run, st),
         NEW c, Fits(c, run, st), Leads(c, run, st, errs), c.pc = "loop", c.abort = "none",
         NEW d, Sound(d), ~Starting(d), NEW new, NEW more, Grows(c, d, run, new, more),
         NEW run2, run2 = Prepared(run, new \cup more)
  PROVE  Leads(d, run2, st, errs)
<1>0. Looping(c)
  BY DEF Looping
<1>1. /\ \A w \in Task : run[w] # "idle" => run2[w] = run[w]
      /\ \A w \in new \cup more : run2[w] = "prepare" /\ run[w] = "idle" /\ w \in Task
  BY GrownRunners
<1>2. /\ c.active \subseteq Discovery /\ d.active \subseteq Discovery /\ Hands(c) \subseteq Task
      /\ d.active = c.active \cup new /\ d.reducer = c.reducer \cup more
      /\ d.settlements = c.settlements /\ d.discoveryAbort = c.discoveryAbort
      /\ d.failures = c.failures
  BY DEF Fits, Sound, Scheduler, Hands, Task, Grows
<1>3. \A w \in Hands(c) : run2[w] = run[w]
  BY <1>1, <1>2 DEF Fits
<1>4. PoolInv(d, st)
  <2>1. AtWork(st) \subseteq c.active \/ c.discoveryAbort # "none"
    BY <1>0 DEF Leads, PoolInv
  <2>2. Cardinality(AtWork(st) \cup Unborn(d, st)) <= Workers
    <3>1. CASE new = {}
      <4>1. Unborn(d, st) = Unborn(c, st)
        BY <1>2, <3>1 DEF Unborn
      <4> QED BY <4>1 DEF Leads, PoolInv
    <3>2. CASE new # {}
      <4>1. AtWork(st) \subseteq c.active
        BY <2>1, <3>2 DEF Fits, Sound, Grows
      <4>2. AtWork(st) \cup Unborn(d, st) \subseteq d.active
        BY <1>2, <4>1 DEF Unborn
      <4>3. /\ Cardinality(AtWork(st) \cup Unborn(d, st)) <= Cardinality(d.active)
            /\ Cardinality(AtWork(st) \cup Unborn(d, st)) \in Nat
            /\ Cardinality(d.active) \in Nat
        BY <1>2, <4>2, SmallerIsSmaller
      <4>4. Cardinality(d.active) <= Workers
        BY DEF Sound
      <4> QED BY <4>3, <4>4, CoordinatorAssumption
    <3> QED BY <3>1, <3>2
  <2> QED BY <1>2, <2>1, <2>2 DEF PoolInv
<1>5. ErrorsInv(d, run2, errs)
  <2>1. CASE c.settlements = <<>>
    <3>1. ~(errs >= ErrorLimit)
      BY <1>0, <2>1 DEF Leads, ErrorsInv
    <3> QED BY <3>1 DEF ErrorsInv
  <2>2. CASE c.settlements # <<>>
    <3>1. d.active = c.active /\ Unsettled(d.active, run2) = Unsettled(c.active, run)
      BY <1>2, <1>3, <2>2 DEF Grows, Unsettled, Hands
    <3> QED BY <1>0, <1>2, <3>1 DEF Leads, ErrorsInv
  <2> QED BY <2>1, <2>2
<1>6. FailuresInv(d, run2, st)
  <2>0. Sound(c) /\ FailureStreak(st) \in Nat /\ c.failures \in Nat
    BY StreakIsFinite DEF RowsInv, Fits, Sound, Scheduler
  <2>1. FailureStreak(st) + Cardinality(Unsettled(d.reducer, run2)) <= ErrorLimit
    <3>1. CASE more = {}
      <4>1. Unsettled(d.reducer, run2) = Unsettled(c.reducer, run)
        BY <1>2, <1>3, <3>1 DEF Unsettled, Hands
      <4> QED BY <4>1 DEF Leads, FailuresInv
    <3>2. CASE more # {}
      <4> DEFINE n == Cardinality(Unsettled(d.reducer, run2))
                 f == FailureStreak(st)
      <4>1. n \in 0 .. 1
        BY UnsettledIsFinite
      <4>2. c.settlements = <<>>
        BY <3>2 DEF Grows
      <4>3. f <= c.failures /\ c.failures < ErrorLimit
        BY <1>0, <4>2 DEF Leads, FailuresInv, Fits, Sound
      <4>4. f \in Nat /\ c.failures \in Nat
        BY <2>0
      <4> HIDE DEF n, f
      <4>5. f + n <= ErrorLimit
        BY <4>1, <4>3, <4>4, CoordinatorAssumption
      <4> QED BY <4>5 DEF n, f
    <3> QED BY <3>1, <3>2
  <2> QED BY <1>0, <1>2, <2>1 DEF Leads, FailuresInv, Uncounted
<1>7. LastReducer(d, st)
  <2> SUFFICES ASSUME NEW r \in d.reducer, NEW s \in Reducer, st[s] # "none" PROVE s <= r
    BY DEF LastReducer
  <2>1. CASE r \in c.reducer
    BY <2>1 DEF Leads, LastReducer
  <2>2. CASE r \in more
    <3>1. r \in Reducer /\ run[r] = "idle"
      BY <2>2 DEF Grows, Idle
    <3>2. run[s] # "idle"
      BY DEF RowsInv, Task
    <3>3. s < r /\ s \in Nat /\ r \in Nat
      BY <3>1, <3>2, CoordinatorAssumption DEF RowsInv
    <3> QED BY <3>3
  <2> QED BY <1>2, <2>1, <2>2
<1> QED BY <1>4, <1>5, <1>6, <1>7 DEF Leads

-----------------------------------------------------------------------------
(* A runner's step.                                                           *)

\* What a runner's step may do to the row of its worker, and to errors: v and o
\* are the outcomes of its settlement, if it makes one.
RowMoves(w, st, st2) ==
    /\ st2 \in Rows
    /\ \A v \in Worker \ {w} : st2[v] = st[v]
    /\ st2[w] # st[w] => st[w] \in Active \cup {"none"} /\ st2[w] # "none"

\* The tail without w, or with w at its end.
TailMoves(c, d, w, run2) ==
    /\ d.tail \in Seq(Task)
    /\ \A i \in DOMAIN d.tail :
          \/ d.tail[i] = w /\ run2[w] \in Request
          \/ d.tail[i] # w /\ \E j \in DOMAIN c.tail : d.tail[i] = c.tail[j]
    /\ \A i, j \in DOMAIN d.tail : d.tail[i] = d.tail[j] => i = j

SameRest(c, d) ==
    /\ d.active = c.active /\ d.reducer = c.reducer /\ d.pc = c.pc
    /\ d.errors = c.errors /\ d.failures = c.failures
    /\ d.abort = c.abort /\ d.discoveryAbort = c.discoveryAbort /\ d.deadline = c.deadline

\* The runner goes on to x.
Goes(c, d, w, run, run2, st, st2) ==
    /\ w \in Hands(c) /\ run[w] # "settled"
    /\ \E x \in RunnerStep \ {"idle", "settled"} : run2 = [run EXCEPT ![w] = x]
    /\ d \in Scheduler /\ SameRest(c, d) /\ d.settlements = c.settlements
    /\ TailMoves(c, d, w, run2)
    /\ RowMoves(w, st, st2)

\* The runner settles with e.
SettlesWith(c, d, w, run, run2, st, st2, e) ==
    /\ w \in Hands(c) /\ run[w] # "settled"
    /\ run2 = [run EXCEPT ![w] = "settled"]
    /\ d \in Scheduler /\ SameRest(c, d)
    /\ e \in Answer /\ d.settlements = Append(c.settlements, e)
    /\ TailMoves(c, d, w, run2)
    /\ RowMoves(w, st, st2)
    /\ e.worker = w
    /\ e.outcome = "succeeded" => st2[w] = "succeeded"
    /\ w \in Discovery /\ e.outcome # "rejected" =>
          st2[w] \notin Active \/ c.discoveryAbort # "none"

LEMMA MovedRows ==
  ASSUME NEW run, NEW st, RowsInv(run, st), NEW w \in Task, run[w] # "idle",
         NEW x \in RunnerStep \ {"idle"}, NEW run2, run2 = [run EXCEPT ![w] = x],
         NEW st2, RowMoves(w, st, st2)
  PROVE  RowsInv(run2, st2)
<1>1. /\ run2 \in Runners /\ run2[w] = x /\ \A v \in Task \ {w} : run2[v] = run[v]
  BY DEF RowsInv, Runners
<1>2. /\ Task \subseteq Worker /\ Reducer \subseteq Task
      /\ \A v \in Task \ {w} : st2[v] = st[v]
  BY DEF Task, Worker, RowMoves
<1>3. \A v \in Task : run2[v] = "idle" <=> run[v] = "idle"
  BY <1>1
<1>4. \A v \in Task : run2[v] = "idle" => st2[v] = "none"
  BY <1>1, <1>2 DEF RowsInv
<1>5. IsFiniteSet(FailedReducers(st2))
  <2>1. FailedReducers(st2) \subseteq FailedReducers(st) \cup {w}
    BY <1>2 DEF FailedReducers
  <2>2. IsFiniteSet(FailedReducers(st) \cup {w})
    BY FS_AddElement DEF RowsInv
  <2> QED BY <2>1, <2>2, FS_Subset
<1>6. \A r, s \in Reducer : run2[r] = "idle" /\ run2[s] # "idle" => s < r
  BY <1>2, <1>3 DEF RowsInv
<1>7. st2 \in Rows
  BY DEF RowMoves
<1> QED BY <1>1, <1>4, <1>5, <1>6, <1>7 DEF RowsInv

LEMMA GoesFit ==
  ASSUME NEW run, NEW st, RowsInv(run, st), NEW c, Fits(c, run, st), NEW d, NEW w,
         NEW run2, NEW st2, Goes(c, d, w, run, run2, st, st2)
  PROVE  Fits(d, run2, st2) /\ RowsInv(run2, st2)
<1>1. /\ Hands(d) = Hands(c) /\ Hands(c) \subseteq Task /\ w \in Task /\ w \in Hands(c)
      /\ run[w] # "idle" /\ run[w] # "settled" /\ d.settlements = c.settlements
      /\ d.discoveryAbort = c.discoveryAbort
  BY DEF Fits, Sound, Scheduler, Hands, Task, Goes, SameRest
<1>2. PICK x \in RunnerStep \ {"idle", "settled"} : run2 = [run EXCEPT ![w] = x]
  BY DEF Goes
<1>3. RowsInv(run2, st2) /\ run2[w] = x /\ \A v \in Task \ {w} : run2[v] = run[v]
  <2>1. RowMoves(w, st, st2) /\ x \in RunnerStep \ {"idle"}
    BY DEF Goes
  <2>2. RowsInv(run2, st2)
    BY <1>1, <1>2, <2>1, MovedRows
  <2>3. run2[w] = x /\ \A v \in Task \ {w} : run2[v] = run[v]
    BY <1>1, <1>2 DEF RowsInv, Runners
  <2> QED BY <2>2, <2>3
<1>4. \A v \in Task \ {w} : st2[v] = st[v]
  BY DEF Goes, RowMoves, Task, Worker
<1>5. Sound(d)
  BY <1>1 DEF Fits, Sound, Looping, Goes, SameRest
<1>6. SettlementsFit(d, run2, st2)
  <2>1. ASSUME NEW v \in Hands(d), run2[v] = "settled"
        PROVE  \E i \in DOMAIN d.settlements : d.settlements[i].worker = v
    <3>1. run[v] = "settled"
      BY <1>1, <1>3, <2>1
    <3> QED BY <1>1, <3>1 DEF Fits, SettlementsFit
  <2>2. ASSUME NEW i \in DOMAIN c.settlements
        PROVE  SettlementFits(d, c.settlements[i], run2, st2)
    <3> DEFINE e == c.settlements[i]
    <3>1. SettlementFits(c, e, run, st)
      BY DEF Fits, SettlementsFit
    <3> HIDE DEF e
    <3>2. e.worker \in Task /\ e.worker # w
      BY <1>1, <3>1 DEF SettlementFits
    <3>3. run2[e.worker] = run[e.worker] /\ st2[e.worker] = st[e.worker]
      BY <1>3, <1>4, <3>2
    <3>4. SettlementFits(d, e, run2, st2)
      BY <1>1, <3>1, <3>3 DEF SettlementFits
    <3> QED BY <3>4 DEF e
  <2> QED BY <1>1, <2>1, <2>2 DEF SettlementsFit, Fits
<1>7. TailFits(d, run2)
  BY <1>1, <1>3 DEF TailFits, Fits, Goes, TailMoves
<1>8. \A v \in Hands(d) : run2[v] # "idle"
  BY <1>1, <1>3 DEF Fits
<1> QED BY <1>3, <1>5, <1>6, <1>7, <1>8 DEF Fits

LEMMA SettlesFit ==
  ASSUME NEW run, NEW st, RowsInv(run, st), NEW c, Fits(c, run, st), NEW d, NEW w,
         NEW run2, NEW st2, NEW e, SettlesWith(c, d, w, run, run2, st, st2, e)
  PROVE  Fits(d, run2, st2) /\ RowsInv(run2, st2)
<1>1. /\ Hands(d) = Hands(c) /\ Hands(c) \subseteq Task /\ w \in Task /\ w \in Hands(c)
      /\ run[w] # "idle" /\ run[w] # "settled" /\ d.discoveryAbort = c.discoveryAbort
  BY DEF Fits, Sound, Scheduler, Hands, Task, SettlesWith, SameRest
<1>3. /\ RowsInv(run2, st2) /\ run2[w] = "settled"
      /\ \A v \in Task \ {w} : run2[v] = run[v]
  <2>1. "settled" \in RunnerStep \ {"idle"}
    BY DEF RunnerStep
  <2>2. RowMoves(w, st, st2) /\ run2 = [run EXCEPT ![w] = "settled"]
    BY DEF SettlesWith
  <2>3. RowsInv(run2, st2)
    BY <1>1, <2>1, <2>2, MovedRows
  <2>4. run2[w] = "settled" /\ \A v \in Task \ {w} : run2[v] = run[v]
    BY <1>1, <2>2 DEF RowsInv, Runners
  <2> QED BY <2>3, <2>4
<1>4. \A v \in Task \ {w} : st2[v] = st[v]
  BY DEF SettlesWith, RowMoves, Task, Worker
<1>5. Sound(d)
  BY <1>1 DEF Fits, Sound, Looping, SettlesWith, SameRest
<1> DEFINE s == c.settlements
           t == d.settlements
<1>9. /\ DOMAIN s \subseteq DOMAIN t
      /\ \E n \in DOMAIN t : /\ t[n] = e /\ n \notin DOMAIN s
                             /\ \A i \in DOMAIN t : i = n \/ i \in DOMAIN s
      /\ \A i \in DOMAIN s : t[i] = s[i]
  <2>1. s \in Seq(Answer) /\ e \in Answer /\ t = Append(s, e)
    BY DEF Fits, Sound, Scheduler, SettlesWith
  <2> HIDE DEF s, t
  <2>2. /\ t \in Seq(Answer) /\ Len(t) = Len(s) + 1
        /\ \A i \in 1 .. Len(s) : t[i] = s[i]
        /\ t[Len(s) + 1] = e
    BY <2>1, AppendProperties
  <2>3. Len(s) \in Nat /\ DOMAIN s = 1 .. Len(s) /\ DOMAIN t = 1 .. Len(t)
    BY <2>1, <2>2, LenProperties
  <2> DEFINE n == Len(s)
  <2>4. n \in Nat /\ DOMAIN s = 1 .. n /\ DOMAIN t = 1 .. (n + 1) /\ t[n + 1] = e
        /\ \A i \in 1 .. n : t[i] = s[i]
    BY <2>2, <2>3
  <2> HIDE DEF n
  <2> QED BY <2>4
<1>6. SettlementsFit(d, run2, st2)
  <2>1. ASSUME NEW v \in Hands(d), run2[v] = "settled"
        PROVE  \E i \in DOMAIN t : t[i].worker = v
    <3>1. CASE v = w
      BY <1>9, <3>1 DEF SettlesWith
    <3>2. CASE v # w
      <4>1. run[v] = "settled" /\ v \in Hands(c)
        BY <1>1, <1>3, <2>1, <3>2
      <4>2. PICK i \in DOMAIN s : s[i].worker = v
        BY <4>1 DEF Fits, SettlementsFit
      <4> QED BY <1>9, <4>2
    <3> QED BY <3>1, <3>2
  <2>2. ASSUME NEW i \in DOMAIN s
        PROVE  s[i].worker # w /\ SettlementFits(d, s[i], run2, st2)
    <3> DEFINE f == s[i]
    <3>1. SettlementFits(c, f, run, st)
      BY DEF Fits, SettlementsFit
    <3> HIDE DEF f
    <3>2. f.worker \in Task /\ f.worker # w
      BY <1>1, <3>1 DEF SettlementFits
    <3>3. run2[f.worker] = run[f.worker] /\ st2[f.worker] = st[f.worker]
      BY <1>3, <1>4, <3>2
    <3>4. SettlementFits(d, f, run2, st2)
      BY <1>1, <3>1, <3>3 DEF SettlementFits
    <3> QED BY <3>2, <3>4 DEF f
  <2>3. SettlementFits(d, e, run2, st2)
    BY <1>1, <1>3 DEF SettlementFits, SettlesWith
  <2>4. ASSUME NEW i \in DOMAIN t PROVE SettlementFits(d, t[i], run2, st2)
    BY <1>9, <2>2, <2>3
  <2>5. ASSUME NEW i \in DOMAIN t, NEW j \in DOMAIN t, t[i].worker = t[j].worker
        PROVE  i = j
    <3>1. e.worker = w
      BY DEF SettlesWith
    <3>2. CASE i \in DOMAIN s /\ j \in DOMAIN s
      BY <1>9, <2>5, <3>2 DEF Fits, SettlementsFit
    <3>3. CASE i \notin DOMAIN s \/ j \notin DOMAIN s
      BY <1>9, <2>2, <2>5, <3>1, <3>3
    <3> QED BY <3>2, <3>3
  <2> QED BY <2>1, <2>4, <2>5 DEF SettlementsFit
<1>7. TailFits(d, run2)
  BY <1>1, <1>3 DEF TailFits, Fits, SettlesWith, TailMoves
<1>8. \A v \in Hands(d) : run2[v] # "idle"
  BY <1>1, <1>3 DEF Fits
<1> QED BY <1>3, <1>5, <1>6, <1>7, <1>8 DEF Fits

LEMMA MovesInThePool ==
  ASSUME NEW st, NEW c, Sound(c), PoolInv(c, st), NEW d, SameRest(c, d),
         NEW w \in Hands(c), NEW st2, RowMoves(w, st, st2)
  PROVE  PoolInv(d, st2)
<1>1. /\ c.active \subseteq Discovery /\ c.reducer \subseteq Reducer /\ d.active = c.active
      /\ Discovery \subseteq Worker
      /\ w \in Discovery => w \in c.active
  BY WorkersAssumption DEF Sound, Scheduler, SameRest, Hands, Worker
<1>2. \A v \in Discovery : v # w => st2[v] = st[v]
  BY <1>1 DEF RowMoves
<1>3. /\ AtWork(st2) \cup Unborn(d, st2) \subseteq AtWork(st) \cup Unborn(c, st)
      /\ AtWork(st2) \subseteq AtWork(st) \cup c.active
      /\ AtWork(st) \cup Unborn(c, st) \subseteq Discovery
  BY <1>1, <1>2 DEF AtWork, Unborn, RowMoves, Active
<1>4. /\ Cardinality(AtWork(st2) \cup Unborn(d, st2)) <= Cardinality(AtWork(st) \cup Unborn(c, st))
      /\ Cardinality(AtWork(st2) \cup Unborn(d, st2)) \in Nat
      /\ Cardinality(AtWork(st) \cup Unborn(c, st)) \in Nat
  BY <1>3, SmallerIsSmaller
<1>5. Cardinality(AtWork(st2) \cup Unborn(d, st2)) <= Workers
  BY <1>4, CoordinatorAssumption DEF PoolInv
<1> QED BY <1>1, <1>3, <1>5 DEF PoolInv, SameRest, Starting, Looping

LEMMA MovedStreak ==
  ASSUME NEW st, IsFiniteSet(FailedReducers(st)), NEW w, NEW st2, RowMoves(w, st, st2)
  PROVE  /\ FailureStreak(st) \in Nat /\ FailureStreak(st2) \in Nat
         /\ FailureStreak(st2) <= FailureStreak(st) + 1
         /\ ~(w \in Reducer /\ st2[w] = "failed" /\ st[w] # "failed") =>
               FailureStreak(st2) <= FailureStreak(st)
<1>1. \A v \in Reducer : v # w => st2[v] = st[v]
  BY DEF RowMoves, Worker
<1>2. \A v \in Reducer : st[v] = "succeeded" => st2[v] = "succeeded"
  BY <1>1 DEF RowMoves, Active
<1>3. Streak(st2) \subseteq Streak(st) \cup {w}
  BY <1>1, <1>2 DEF Streak
<1>4. ~(w \in Reducer /\ st2[w] = "failed" /\ st[w] # "failed") => Streak(st2) \subseteq Streak(st)
  BY <1>1, <1>2 DEF Streak
<1>5. IsFiniteSet(Streak(st)) /\ FailureStreak(st) = Cardinality(Streak(st))
  BY StreakIsFinite
<1>6. IsFiniteSet(Streak(st) \cup {w})
      /\ Cardinality(Streak(st) \cup {w}) <= Cardinality(Streak(st)) + 1
  <2>1. Cardinality(Streak(st)) \in Nat
    BY <1>5, FS_CardinalityType
  <2>2. /\ IsFiniteSet(Streak(st) \cup {w})
        /\ Cardinality(Streak(st) \cup {w})
              = IF w \in Streak(st) THEN Cardinality(Streak(st)) ELSE Cardinality(Streak(st)) + 1
    BY <1>5, FS_AddElement
  <2> QED BY <2>1, <2>2
<1>7. /\ IsFiniteSet(Streak(st2)) /\ Cardinality(Streak(st2)) \in Nat
      /\ Cardinality(Streak(st2)) <= Cardinality(Streak(st) \cup {w})
      /\ Streak(st2) \subseteq Streak(st) => Cardinality(Streak(st2)) <= Cardinality(Streak(st))
  BY <1>3, <1>5, <1>6, FS_Subset, FS_CardinalityType
<1>8. Cardinality(Streak(st)) \in Nat /\ Cardinality(Streak(st) \cup {w}) \in Nat
  BY <1>5, <1>6, FS_CardinalityType
<1>9. FailureStreak(st2) = Cardinality(Streak(st2))
  BY DEF FailureStreak, Streak
<1> QED BY <1>4, <1>5, <1>6, <1>7, <1>8, <1>9

NewlyFailed(w, st, st2) == w \in Reducer /\ st2[w] = "failed" /\ st[w] # "failed"

\* A runner at work is not that of a settlement.
LEMMA ReducerAtWork ==
  ASSUME NEW run, NEW st, NEW c, Fits(c, run, st), NEW w \in Hands(c), run[w] # "settled",
         w \in Reducer
  PROVE  /\ c.reducer = {w}
         /\ \A i \in DOMAIN c.settlements : c.settlements[i].worker \notin Reducer
<1>1. w \in c.reducer /\ c.active \subseteq Discovery
  BY WorkersAssumption DEF Hands, Fits, Sound, Scheduler
<1>2. c.reducer = {w}
  BY <1>1 DEF Fits, Sound
<1>3. ASSUME NEW i \in DOMAIN c.settlements, c.settlements[i].worker \in Reducer PROVE FALSE
  <2>1. c.settlements[i].worker \in Hands(c) /\ run[c.settlements[i].worker] = "settled"
    BY DEF Fits, SettlementsFit, SettlementFits
  <2> QED BY <1>1, <1>2, <1>3, <2>1, WorkersAssumption DEF Hands
<1> QED BY <1>2, <1>3

LEMMA MovesLastReducer ==
  ASSUME NEW st, NEW c, Sound(c), LastReducer(c, st), NEW d, d.reducer = c.reducer,
         NEW w \in Hands(c), NEW st2, RowMoves(w, st, st2)
  PROVE  LastReducer(d, st2)
<1> SUFFICES ASSUME NEW r \in c.reducer, NEW s \in Reducer, st2[s] # "none" PROVE s <= r
  BY DEF LastReducer
<1>1. CASE s = w
  <2>1. w \in c.reducer
    BY <1>1, WorkersAssumption DEF Hands, Sound, Scheduler
  <2> QED BY <1>1, <2>1, CoordinatorAssumption DEF Sound
<1>2. CASE s # w
  BY <1>2 DEF RowMoves, Worker, LastReducer
<1> QED BY <1>1, <1>2

LEMMA GoesLead ==
  ASSUME NEW run, NEW st, NEW errs \in Nat, RowsInv(run, st),
         NEW c, Fits(c, run, st), Leads(c, run, st, errs), NEW d, NEW w,
         NEW run2, NEW st2, Goes(c, d, w, run, run2, st, st2),
         NEW errs2 \in Nat, errs2 <= errs, ~NewlyFailed(w, st, st2)
  PROVE  Leads(d, run2, st2, errs2)
<1>1. /\ w \in Hands(c) /\ w \in Task /\ run[w] # "settled" /\ Hands(c) # {} /\ Sound(c)
      /\ SameRest(c, d) /\ d.settlements = c.settlements /\ RowMoves(w, st, st2)
      /\ Hands(c) \subseteq Task
  BY DEF Goes, Fits, Sound, Scheduler, Hands, Task
<1>2. \A v \in Task : run2[v] = "settled" <=> run[v] = "settled"
  BY <1>1 DEF Goes, RowsInv, Runners
<1>3. /\ Unsettled(d.active, run2) = Unsettled(c.active, run)
      /\ Unsettled(d.reducer, run2) = Unsettled(c.reducer, run)
  BY <1>1, <1>2 DEF Unsettled, SameRest, Hands
<1>4. PoolInv(d, st2)
  BY <1>1, MovesInThePool DEF Leads
<1>5. ErrorsInv(d, run2, errs2)
  <2> DEFINE n == Cardinality(Unsettled(c.active, run))
  <2>1. n \in Nat
    BY <1>1, UnsettledIsFinite
  <2>2. errs >= ErrorLimit => (errs - ErrorLimit) + 1 + n <= Workers
    BY DEF Leads, ErrorsInv
  <2>3. n = Cardinality(Unsettled(d.active, run2))
    BY <1>3
  <2> HIDE DEF n
  <2>4. errs2 >= ErrorLimit => errs >= ErrorLimit /\ (errs2 - ErrorLimit) + 1 + n <= Workers
    BY <2>1, <2>2, CoordinatorAssumption
  <2> QED BY <1>1, <2>3, <2>4 DEF ErrorsInv, Leads, Looping, SameRest
<1>6. FailuresInv(d, run2, st2)
  <2> DEFINE f == FailureStreak(st)
             h == FailureStreak(st2)
             n == Cardinality(Unsettled(c.reducer, run))
  <2>1. f \in Nat /\ h \in Nat /\ h <= f
    BY <1>1, MovedStreak DEF RowsInv, NewlyFailed
  <2>2. n \in Nat /\ n = Cardinality(Unsettled(d.reducer, run2))
    BY <1>1, <1>3, UnsettledIsFinite
  <2>3. f + n <= ErrorLimit
    BY DEF Leads, FailuresInv
  <2>4. c.failures \in Nat
    BY <1>1 DEF Sound, Scheduler
  <2>5. ASSUME NEW e, Uncounted(c, e, st) PROVE Uncounted(d, e, st2)
    BY <1>1, <2>1, <2>4, <2>5 DEF Uncounted, SameRest
  <2>6. f <= c.failures => h <= c.failures
    <3> HIDE DEF f, h
    <3> QED BY <2>1, <2>4
  <2>7. h + n <= ErrorLimit
    <3> HIDE DEF f, h, n
    <3> QED BY <2>1, <2>2, <2>3, CoordinatorAssumption
  <2> QED BY <1>1, <2>2, <2>5, <2>6, <2>7 DEF FailuresInv, Leads, Looping, SameRest
<1>7. LastReducer(d, st2)
  BY <1>1, MovesLastReducer DEF Leads, SameRest
<1>8. ~Starting(d)
  BY <1>1 DEF Sound, Starting, SameRest
<1> QED BY <1>4, <1>5, <1>6, <1>7, <1>8 DEF Leads

\* What the settlement says of the row and of errors.
Accounts(w, st, st2, errs, errs2, e) ==
    /\ NewlyFailed(w, st, st2) => e.outcome \in {"failed", "rejected"}
    /\ \/ errs2 <= errs
       \/ /\ errs2 = errs + 1 /\ w \in Discovery
          /\ e.outcome = "rejected" \/ (e.outcome = "replaced" /\ e.errors = errs2)

LEMMA SettlesLead ==
  ASSUME NEW run, NEW st, NEW errs \in Nat, RowsInv(run, st),
         NEW c, Fits(c, run, st), Leads(c, run, st, errs), NEW d, NEW w,
         NEW run2, NEW st2, NEW e, SettlesWith(c, d, w, run, run2, st, st2, e),
         NEW errs2 \in Nat, Accounts(w, st, st2, errs, errs2, e)
  PROVE  Leads(d, run2, st2, errs2)
<1>1. /\ w \in Hands(c) /\ w \in Task /\ run[w] # "settled" /\ Hands(c) # {} /\ Sound(c)
      /\ SameRest(c, d) /\ RowMoves(w, st, st2) /\ Hands(c) \subseteq Task
      /\ c.active \subseteq Discovery /\ c.reducer \subseteq Reducer
  BY DEF SettlesWith, Fits, Sound, Scheduler, Hands, Task
<1>2. \A v \in Task : run2[v] = IF v = w THEN "settled" ELSE run[v]
  BY <1>1 DEF SettlesWith, RowsInv, Runners
<1>3. /\ Unsettled(d.active, run2) = Unsettled(c.active, run) \ {w}
      /\ Unsettled(d.reducer, run2) = Unsettled(c.reducer, run) \ {w}
  BY <1>1, <1>2 DEF Unsettled, SameRest, Hands
<1>4. PoolInv(d, st2)
  BY <1>1, MovesInThePool DEF Leads
<1> DEFINE s == c.settlements
           t == d.settlements
<1>9. /\ \A i \in DOMAIN s : i \in DOMAIN t /\ t[i] = s[i]
      /\ \E i \in DOMAIN t : t[i] = e
  <2>1. s \in Seq(Answer) /\ e \in Answer /\ t = Append(s, e)
    BY <1>1 DEF Sound, Scheduler, SettlesWith
  <2> HIDE DEF s, t
  <2>2. /\ t \in Seq(Answer) /\ Len(t) = Len(s) + 1
        /\ \A i \in 1 .. Len(s) : t[i] = s[i]
        /\ t[Len(s) + 1] = e
    BY <2>1, AppendProperties
  <2>3. Len(s) \in Nat /\ DOMAIN s = 1 .. Len(s) /\ DOMAIN t = 1 .. Len(t)
    BY <2>1, <2>2, LenProperties
  <2> DEFINE n == Len(s)
  <2>4. n \in Nat /\ DOMAIN s = 1 .. n /\ DOMAIN t = 1 .. (n + 1) /\ t[n + 1] = e
        /\ \A i \in 1 .. n : t[i] = s[i]
    BY <2>2, <2>3
  <2> HIDE DEF n
  <2> QED BY <2>4
<1>5. ErrorsInv(d, run2, errs2)
  <2> DEFINE m == Cardinality(Unsettled(c.active, run))
             n == Cardinality(Unsettled(d.active, run2))
             k == Cardinality(c.active)
  <2>1. m \in Nat /\ n \in Nat /\ k \in Nat /\ m <= k /\ k <= Workers /\ n <= m
    <3>1. m \in Nat /\ m <= k /\ IsFiniteSet(Unsettled(c.active, run)) /\ k <= Workers
      BY <1>1, UnsettledIsFinite DEF Sound
    <3>2. n <= m /\ n \in Nat /\ k \in Nat
      BY <1>1, <1>3, <3>1, FS_Subset, FS_CardinalityType, FiniteDiscoveries
    <3> QED BY <3>1, <3>2
  <2>2. w \in Discovery => n = m - 1
    <3> SUFFICES ASSUME w \in Discovery PROVE n = m - 1
      OBVIOUS
    <3>1. w \in Unsettled(c.active, run)
      BY <1>1, WorkersAssumption DEF Unsettled, Hands
    <3> QED BY <1>1, <1>3, <3>1, UnsettledIsFinite, WithoutOne
  <2>3. errs >= ErrorLimit => (errs - ErrorLimit) + 1 + m <= Workers
    BY DEF Leads, ErrorsInv
  <2>4. errs2 >= ErrorLimit => (errs2 - ErrorLimit) + 1 + n <= Workers
    <3>1. errs2 <= errs \/ (errs2 = errs + 1 /\ w \in Discovery)
      BY DEF Accounts
    <3> HIDE DEF m, n, k
    <3> QED BY <2>1, <2>2, <2>3, <3>1, CoordinatorAssumption
  <2>5. ASSUME errs2 >= ErrorLimit, Looping(d)
        PROVE  \E i \in DOMAIN t : Fatal(t[i])
    <3>1. CASE errs >= ErrorLimit
      <4>1. PICK i \in DOMAIN s : Fatal(s[i])
        BY <1>1, <2>5, <3>1 DEF Leads, ErrorsInv, Looping, SameRest
      <4> QED BY <1>9, <4>1
    <3>2. CASE ~(errs >= ErrorLimit)
      <4>1. ~(errs2 <= errs)
        BY <2>5, <3>2, CoordinatorAssumption
      <4>2. Fatal(e)
        BY <2>5, <4>1 DEF Accounts, Fatal
      <4> QED BY <1>9, <4>2
    <3> QED BY <3>1, <3>2
  <2> QED BY <2>4, <2>5 DEF ErrorsInv
<1>6. FailuresInv(d, run2, st2)
  <2> DEFINE f == FailureStreak(st)
             h == FailureStreak(st2)
             m == Cardinality(Unsettled(c.reducer, run))
             n == Cardinality(Unsettled(d.reducer, run2))
  <2>1. f \in Nat /\ h \in Nat /\ h <= f + 1
    BY <1>1, MovedStreak DEF RowsInv
  <2>2. ~NewlyFailed(w, st, st2) => h <= f
    BY <1>1, MovedStreak DEF RowsInv, NewlyFailed
  <2>3. m \in Nat /\ n \in Nat /\ n <= m
    <3>1. m \in 0 .. 1 /\ IsFiniteSet(Unsettled(c.reducer, run))
      BY <1>1, UnsettledIsFinite
    <3>2. n <= m /\ n \in Nat
      BY <1>3, <3>1, FS_Subset, FS_CardinalityType
    <3> QED BY <3>1, <3>2
  <2>4. w \in Reducer => n = m - 1
    <3> SUFFICES ASSUME w \in Reducer PROVE n = m - 1
      OBVIOUS
    <3>1. w \in Unsettled(c.reducer, run)
      BY <1>1, WorkersAssumption DEF Unsettled, Hands
    <3> QED BY <1>1, <1>3, <3>1, UnsettledIsFinite, WithoutOne
  <2>5. f + m <= ErrorLimit
    BY DEF Leads, FailuresInv
  <2>6. c.failures \in Nat
    BY <1>1 DEF Sound, Scheduler
  <2>7. h + n <= ErrorLimit
    <3>1. w \in Reducer \/ ~NewlyFailed(w, st, st2)
      BY DEF NewlyFailed
    <3> HIDE DEF f, h, m, n
    <3> QED BY <2>1, <2>2, <2>3, <2>4, <2>5, <3>1, CoordinatorAssumption
  <2>8. ASSUME Looping(d)
        PROVE  h <= d.failures \/ \E i \in DOMAIN t : Uncounted(d, t[i], st2)
    <3>0. d.failures = c.failures /\ Looping(c)
      BY <1>1, <2>8 DEF SameRest, Looping
    <3>1. CASE NewlyFailed(w, st, st2)
      <4>1. \A i \in DOMAIN s : s[i].worker \notin Reducer
        BY <1>1, <3>1, ReducerAtWork DEF NewlyFailed
      <4>2. f <= c.failures
        BY <3>0, <4>1 DEF Leads, FailuresInv, Uncounted
      <4>3. h <= d.failures + 1
        <5> HIDE DEF f, h
        <5> QED BY <2>1, <2>6, <3>0, <4>2
      <4>4. Uncounted(d, e, st2)
        BY <3>1, <4>3 DEF Uncounted, Accounts, NewlyFailed, SettlesWith
      <4> QED BY <1>9, <4>4
    <3>2. CASE ~NewlyFailed(w, st, st2)
      <4>1. h <= f
        BY <2>2, <3>2
      <4>2. CASE f <= c.failures
        <5> HIDE DEF f, h
        <5>1. h <= d.failures
          BY <2>1, <2>6, <3>0, <4>1, <4>2
        <5> QED BY <5>1
      <4>3. ASSUME NEW i \in DOMAIN s, Uncounted(c, s[i], st)
            PROVE  Uncounted(d, t[i], st2) /\ i \in DOMAIN t
        BY <1>9, <2>1, <2>6, <3>0, <4>1, <4>3 DEF Uncounted
      <4> QED BY <3>0, <4>2, <4>3 DEF Leads, FailuresInv
    <3> QED BY <3>1, <3>2
  <2> QED BY <1>1, <2>7, <2>8 DEF FailuresInv, Leads, SameRest, Looping
<1>7. LastReducer(d, st2)
  BY <1>1, MovesLastReducer DEF Leads, SameRest
<1>8. ~Starting(d)
  BY <1>1 DEF Sound, Starting, SameRest
<1> QED BY <1>4, <1>5, <1>6, <1>7, <1>8 DEF Leads

-----------------------------------------------------------------------------
(* Steps of a scheduler that change only its record.                          *)

\* What may become of its record.
Good(g, d) ==
    /\ Fits(d, runner, status)
    /\ g = generation => Leads(d, runner, status, errors)
    /\ Hands(d) \subseteq Hands(sched[g])

\* Or it has nothing left.
Empties(d) ==
    /\ d \in Scheduler /\ AbortsFit(d)
    /\ d.active = {} /\ d.reducer = {} /\ d.settlements = <<>> /\ d.tail = <<>>
    /\ d.pc \notin {"starting", "loop", "waiting"}

LEMMA GoodParts ==
  ASSUME LimitsInv, NEW g \in Coordinator
  PROVE  /\ Fits(sched[g], runner, status) /\ Sound(sched[g]) /\ sched[g] \in Scheduler
         /\ g = generation => Leads(sched[g], runner, status, errors)
         /\ RowsInv(runner, status) /\ errors \in Nat /\ AbortsFit(sched[g])
BY DEF LimitsInv, Fits, Sound, TypeOK, AbortsFit

LEMMA FollowsGood ==
  ASSUME LimitsInv, NEW g \in Coordinator, NEW d, Follows(sched[g], d)
  PROVE  Good(g, d)
<1> DEFINE c == sched[g]
<1>1. /\ Fits(c, runner, status)
      /\ g = generation => Leads(c, runner, status, errors)
  BY GoodParts
<1>3. Follows(c, d)
  OBVIOUS
<1> HIDE DEF c
<1>4. Fits(d, runner, status)
  BY <1>1, <1>3, KeepsFit
<1>5. g = generation => Leads(d, runner, status, errors)
  BY <1>1, <1>3, KeepsLead
<1> QED BY <1>3, <1>4, <1>5 DEF Good, Follows, SameHands, Hands, c

LEMMA EmptiesGood ==
  ASSUME LimitsInv, NEW g \in Coordinator, NEW d, Empties(d)
  PROVE  Good(g, d)
<1>1. Fits(d, runner, status)
  BY EmptyFits DEF Empties, AbortsFit, Looping
<1>2. g = generation => Leads(d, runner, status, errors)
  BY GoodParts, EmptyLeads DEF Empties, Starting, Looping
<1> QED BY <1>1, <1>2 DEF Good, Empties, Hands

LEMMA TakesGood ==
  ASSUME LimitsInv, NEW g \in Coordinator, sched[g].pc = "waiting",
         NEW d, TakesFirst(sched[g], d, Head(sched[g].settlements))
  PROVE  Good(g, d)
<1> DEFINE c == sched[g]
           e == Head(c.settlements)
<1>1. /\ Fits(c, runner, status)
      /\ g = generation => Leads(c, runner, status, errors)
  BY GoodParts
<1>2. TakesFirst(c, d, e) /\ Looping(c)
  BY DEF Looping
<1>3. e = Head(c.settlements) /\ RowsInv(runner, status) /\ errors \in Nat
  BY GoodParts
<1> HIDE DEF c, e
<1>4. Fits(d, runner, status)
  BY <1>1, <1>2, <1>3, DropsFit
<1>5. g = generation => Leads(d, runner, status, errors)
  BY <1>1, <1>2, <1>3, DropsLead
<1>6. Hands(d) \subseteq Hands(c)
  BY <1>2 DEF TakesFirst, Drops, Hands
<1> QED BY <1>4, <1>5, <1>6 DEF Good, c

-----------------------------------------------------------------------------
(* The whole system, after a step of g.                                       *)

\* What a step of another coordinator does to the rows of those that h holds.
Spares(h) ==
    \A w \in Hands(sched[h]) :
        /\ runner'[w] = runner[w]
        /\ status[w] = "succeeded" => status'[w] = "succeeded"
        /\ status[w] \notin Active => status'[w] \notin Active

LEMMA SystemKeeps ==
  ASSUME LimitsInv, TypeOK', lost' \in 0 .. MaxLost, generation' = generation,
         NEW g \in Coordinator, NEW d, sched' = [sched EXCEPT ![g] = d],
         RowsInv(runner', status'), Fits(d, runner', status'),
         g = generation => Leads(d, runner', status', errors'),
         g # generation => status' = status /\ errors' = errors,
         \A h \in Coordinator \ {g} : Spares(h) /\ Hands(d) \cap Hands(sched[h]) = {}
  PROVE  LimitsInv'
<1>1. /\ sched \in [Coordinator -> Scheduler] /\ d \in Scheduler
      /\ \A h \in Coordinator : sched'[h] = IF h = g THEN d ELSE sched[h]
  BY DEF LimitsInv, MemoryOK, Fits, Sound
<1>2. MemoryOK'
  BY <1>1 DEF MemoryOK, RowsInv
<1>3. ASSUME NEW h \in Coordinator PROVE Fits(sched'[h], runner', status')
  <2>1. CASE h = g
    BY <1>1, <2>1
  <2>2. CASE h # g
    <3>1. Fits(sched[h], runner, status) /\ Spares(h)
      BY <2>2 DEF LimitsInv
    <3> DEFINE c == sched[h]
    <3>2. /\ Fits(c, runner, status)
          /\ \A w \in Hands(c) : /\ runner'[w] = runner[w]
                                 /\ status[w] = "succeeded" => status'[w] = "succeeded"
                                 /\ status[w] \notin Active => status'[w] \notin Active
      BY <3>1 DEF Spares
    <3> HIDE DEF c
    <3>3. Fits(c, runner', status')
      BY <3>2, FitsElsewhere
    <3> QED BY <1>1, <2>2, <3>3 DEF c
  <2> QED BY <2>1, <2>2
<1>4. ASSUME NEW h \in Coordinator, h = generation'
      PROVE  Leads(sched'[h], runner', status', errors')
  <2>1. CASE h = g
    BY <1>1, <1>4, <2>1
  <2>2. CASE h # g
    <3>1. Leads(sched[h], runner, status, errors) /\ Spares(h)
      BY <1>4, <2>2 DEF LimitsInv
    <3> DEFINE c == sched[h]
    <3>2. Leads(c, runner, status, errors) /\ \A w \in Hands(c) : runner'[w] = runner[w]
      BY <3>1 DEF Spares
    <3> HIDE DEF c
    <3>3. Leads(c, runner', status, errors)
      BY <3>2, LeadsElsewhere
    <3>4. status' = status /\ errors' = errors
      BY <1>4, <2>2
    <3> QED BY <1>1, <2>2, <3>3, <3>4 DEF c
  <2> QED BY <2>1, <2>2
<1>5. ASSUME NEW h \in Coordinator, NEW k \in Coordinator, h # k
      PROVE  Hands(sched'[h]) \cap Hands(sched'[k]) = {}
  BY <1>1, <1>5 DEF LimitsInv
<1>6. generation' = 1 => Untouched(status', errors')
  <2>1. g # 1
    BY DEF Coordinator
  <2> QED BY <2>1 DEF LimitsInv
<1> QED BY <1>2, <1>3, <1>4, <1>5, <1>6 DEF LimitsInv

LEMMA SchedulerKeeps ==
  ASSUME LimitsInv, NEW g \in Coordinator, NEW d, sched' = [sched EXCEPT ![g] = d],
         Good(g, d), UNCHANGED <<vars, runner>>, lost' \in 0 .. MaxLost
  PROVE  LimitsInv'
<1>1. TypeOK'
  BY DEF LimitsInv, TypeOK, vars, runVars, scanVars, workerVars
<1>2. /\ runner' = runner /\ status' = status /\ errors' = errors /\ generation' = generation
  BY DEF vars, runVars, workerVars
<1>3. \A h \in Coordinator \ {g} : Spares(h) /\ Hands(d) \cap Hands(sched[h]) = {}
  BY <1>2 DEF Spares, LimitsInv, Good
<1>4. /\ RowsInv(runner', status') /\ Fits(d, runner', status')
      /\ g = generation => Leads(d, runner', status', errors')
  BY <1>2, GoodParts DEF Good
<1> QED BY <1>1, <1>2, <1>3, <1>4, SystemKeeps

-----------------------------------------------------------------------------
(* The records that these steps make.                                         *)

LEMMA AbortAllFollows ==
  ASSUME NEW c \in Scheduler, NEW b \in Scheduler, SameHands(c, b), b.pc = c.pc,
         b.errors = c.errors, b.failures = c.failures,
         NEW why \in AbortReason \ {"none"}, NEW d, d = AbortAll(b, why)
  PROVE  Follows(c, d)
<1>1. /\ d \in Scheduler /\ SameHands(b, d)
      /\ d.abort # "none" /\ d.discoveryAbort # "none"
      /\ d.pc = b.pc /\ d.errors = b.errors /\ d.failures = b.failures
  <2>1. d \in Scheduler
    <3>1. d = [b EXCEPT !.abort = IF b.abort = "none" THEN why ELSE b.abort,
                        !.discoveryAbort = IF b.discoveryAbort = "none" THEN why
                                           ELSE b.discoveryAbort]
      BY DEF AbortAll
    <3>2. why \in AbortReason /\ b.abort \in AbortReason /\ b.discoveryAbort \in AbortReason
      BY DEF Scheduler
    <3> QED BY <3>1, <3>2 DEF Scheduler
  <2>2. SameHands(b, d)
    BY DEF AbortAll, Scheduler, SameHands
  <2>3. d.abort # "none" /\ d.discoveryAbort # "none"
    BY DEF AbortAll, Scheduler
  <2>4. d.pc = b.pc /\ d.errors = b.errors /\ d.failures = b.failures
    BY DEF AbortAll, Scheduler
  <2> QED BY <2>1, <2>2, <2>3, <2>4
<1>2. SameHands(c, d)
  BY <1>1 DEF SameHands
<1> QED BY <1>1, <1>2 DEF Follows, AbortsFit

LEMMA CanceledRecord ==
  ASSUME NEW c \in Scheduler, NEW d, d = [c EXCEPT !.canceled = TRUE]
  PROVE  d \in Scheduler /\ SameHands(c, d) /\ d.pc = c.pc /\ d.errors = c.errors
         /\ d.failures = c.failures
BY DEF Scheduler, SameHands

LEMMA ExternalRecord ==
  ASSUME NEW c \in Scheduler, NEW r \in Result,
         NEW d, d = [c EXCEPT !.external = TRUE, !.result = r]
  PROVE  d \in Scheduler /\ SameHands(c, d) /\ d.pc = c.pc /\ d.errors = c.errors
         /\ d.failures = c.failures
BY DEF Scheduler, SameHands

LEMMA DeadlineRecord ==
  ASSUME NEW c \in Scheduler, NEW d,
         d = [c EXCEPT !.deadline = TRUE,
                       !.discoveryAbort = IF @ = "none" THEN "deadline" ELSE @]
  PROVE  Follows(c, d)
<1>1. "deadline" \in AbortReason
  BY DEF AbortReason
<1>2. d \in Scheduler /\ SameHands(c, d) /\ d.pc = c.pc /\ d.errors = c.errors
      /\ d.failures = c.failures
  BY <1>1 DEF Scheduler, SameHands
<1>3. d.discoveryAbort # "none"
  BY DEF Scheduler
<1>4. d.deadline
  BY Zenon DEF Scheduler
<1> QED BY <1>2, <1>3, <1>4 DEF Follows, AbortsFit

Leaving == {"unwinding", "catching", "failing", "publishing", "finishing", "refinishing"}

LEMMA LeavingRecord ==
  ASSUME NEW c \in Scheduler, AbortsFit(c), NEW to \in Leaving, NEW d, d = [c EXCEPT !.pc = to]
  PROVE  Follows(c, d)
<1>1. to \in Pc
  BY DEF Leaving, Pc
<1>2. /\ d \in Scheduler /\ SameHands(c, d) /\ d.pc = to
      /\ d.abort = c.abort /\ d.discoveryAbort = c.discoveryAbort
      /\ d.errors = c.errors /\ d.failures = c.failures
  BY <1>1 DEF Scheduler, SameHands
<1>3. d.deadline = c.deadline
  BY Zenon DEF Scheduler
<1> QED BY <1>2, <1>3 DEF Follows, AbortsFit, Leaving

LEMMA EndedRecord ==
  ASSUME NEW c \in Scheduler, NEW outcome \in Result, NEW d, d = Ended(c, outcome)
  PROVE  Empties(d)
BY EndedIsScheduler DEF Empties, AbortsFit

-----------------------------------------------------------------------------
LEMMA CancelStep ==
  ASSUME LimitsInv, NEW g \in Coordinator, NEW why \in {"shutdown", "user"}, Cancel(g, why)
  PROVE  LimitsInv'
<1> DEFINE c == sched[g]
           b == [c EXCEPT !.canceled = TRUE]
           d == AbortAll(b, why)
<1>1. why \in AbortReason \ {"none"}
  BY DEF AbortReason
<1>2. c \in Scheduler
  BY GoodParts
<1>3. sched' = [sched EXCEPT ![g] = d] /\ UNCHANGED <<vars, runner>> /\ lost' = lost
  BY DEF Cancel, Step
<1> HIDE DEF c, b, d
<1>4. b \in Scheduler /\ SameHands(c, b) /\ b.pc = c.pc /\ b.errors = c.errors
      /\ b.failures = c.failures
  BY <1>2, CanceledRecord DEF b
<1>5. Follows(c, d)
  BY <1>1, <1>2, <1>4, AbortAllFollows DEF d
<1>6. Good(g, d)
  BY <1>5, FollowsGood DEF c
<1> QED BY <1>3, <1>6, SchedulerKeeps DEF LimitsInv, MemoryOK

LEMMA WatchStep ==
  ASSUME LimitsInv, NEW g \in Coordinator, Watch(g)
  PROVE  LimitsInv'
<1> DEFINE c == sched[g]
           r == IF runStatus = "running" THEN "replaced" ELSE runStatus
           b == [c EXCEPT !.external = TRUE, !.result = r]
           d == AbortAll(b, "lost")
<1>1. "lost" \in AbortReason \ {"none"} /\ r \in Result
  BY DEF AbortReason, Result, LimitsInv, TypeOK
<1>2. c \in Scheduler
  BY GoodParts
<1>3. sched' = [sched EXCEPT ![g] = d] /\ UNCHANGED <<vars, runner>> /\ lost' = lost
  BY DEF Watch, Step
<1> HIDE DEF c, r, b, d
<1>4. b \in Scheduler /\ SameHands(c, b) /\ b.pc = c.pc /\ b.errors = c.errors
      /\ b.failures = c.failures
  BY <1>1, <1>2, ExternalRecord DEF b
<1>5. Follows(c, d)
  BY <1>1, <1>2, <1>4, AbortAllFollows DEF d
<1>6. Good(g, d)
  BY <1>5, FollowsGood DEF c
<1> QED BY <1>3, <1>6, SchedulerKeeps DEF LimitsInv, MemoryOK

LEMMA DeadlineStep ==
  ASSUME LimitsInv, NEW g \in Coordinator, Deadline(g)
  PROVE  LimitsInv'
<1> DEFINE c == sched[g]
           d == [c EXCEPT !.deadline = TRUE,
                          !.discoveryAbort = IF @ = "none" THEN "deadline" ELSE @]
<1>1. c \in Scheduler
  BY GoodParts
<1>2. sched' = [sched EXCEPT ![g] = d] /\ UNCHANGED <<vars, runner>> /\ lost' = lost
  BY DEF Deadline, Step
<1>3. d = [c EXCEPT !.deadline = TRUE,
                    !.discoveryAbort = IF @ = "none" THEN "deadline" ELSE @]
  OBVIOUS
<1> HIDE DEF c, d
<1>4. Follows(c, d)
  BY <1>1, <1>3, DeadlineRecord
<1>5. Good(g, d)
  BY <1>4, FollowsGood DEF c
<1> QED BY <1>2, <1>5, SchedulerKeeps DEF LimitsInv, MemoryOK

\* Steps that leave for another place of run(), or end it.
LEMMA LeavingStep ==
  ASSUME LimitsInv, NEW g \in Coordinator, UNCHANGED vars, lost' \in 0 .. MaxLost,
         \/ \E to \in Leaving : Step(g, [sched[g] EXCEPT !.pc = to])
         \/ \E outcome \in Result : Step(g, Ended(sched[g], outcome))
  PROVE  LimitsInv'
<1>0. sched[g] \in Scheduler /\ AbortsFit(sched[g])
  BY GoodParts
<1>1. ASSUME NEW to \in Leaving, Step(g, [sched[g] EXCEPT !.pc = to]) PROVE LimitsInv'
  <2> DEFINE c == sched[g]
             d == [c EXCEPT !.pc = to]
  <2>1. sched' = [sched EXCEPT ![g] = d] /\ runner' = runner
    BY <1>1 DEF Step
  <2> HIDE DEF c, d
  <2>2. Follows(c, d)
    BY <1>0, LeavingRecord DEF c, d
  <2>3. Good(g, d)
    BY <2>2, FollowsGood DEF c
  <2> QED BY <2>1, <2>3, SchedulerKeeps
<1>2. ASSUME NEW outcome \in Result, Step(g, Ended(sched[g], outcome)) PROVE LimitsInv'
  <2> DEFINE d == Ended(sched[g], outcome)
  <2>1. sched' = [sched EXCEPT ![g] = d] /\ runner' = runner
    BY <1>2 DEF Step
  <2>2. Empties(d)
    BY <1>0, EndedRecord
  <2> HIDE DEF d
  <2>3. Good(g, d)
    BY <2>2, EmptiesGood
  <2> QED BY <2>1, <2>3, SchedulerKeeps
<1> QED BY <1>1, <1>2

LEMMA NothingHeld ==
  ASSUME NEW run, NEW st, NEW c, Fits(c, run, st)
  PROVE  /\ Hands(c) = {} => c.settlements = <<>> /\ c.tail = <<>>
         /\ (\A w \in Hands(c) : run[w] = "settled") => c.tail = <<>>
<1> DEFINE s == c.settlements
           t == c.tail
<1>1. s \in Seq(Answer) /\ t \in Seq(Task)
  BY DEF Fits, Sound, Scheduler
<1>2. /\ \A i \in DOMAIN s : Hands(c) # {}
      /\ \A i \in DOMAIN t : t[i] \in Hands(c) /\ run[t[i]] # "settled"
  BY DEF Fits, SettlementsFit, SettlementFits, TailFits, Request
<1> HIDE DEF s, t
<1>3. s # <<>> => 1 \in DOMAIN s
  BY <1>1, EmptySeq, LenProperties
<1>4. t # <<>> => 1 \in DOMAIN t
  BY <1>1, EmptySeq, LenProperties
<1> QED BY <1>2, <1>3, <1>4 DEF s, t

LEMMA StartedLeads ==
  ASSUME NEW run, NEW st, NEW errs \in Nat, RowsInv(run, st),
         NEW c, Sound(c), Leads(c, run, st, errs), Starting(c), ~OverTheLimit(c),
         NEW d, d.active = {}, d.reducer = {}, d.pc = "loop", d.failures = c.failures,
         d.discoveryAbort = c.discoveryAbort
  PROVE  Leads(d, run, st, errs)
<1>1. c.active = {} /\ c.reducer = {}
  BY DEF Sound, Starting, Hands
<1>2. PoolInv(d, st)
  BY <1>1 DEF Leads, PoolInv, Unborn
<1>3. c.errors = errs /\ c.failures = FailureStreak(st) /\ errs < ErrorLimit
      /\ c.failures < ErrorLimit
  <2>1. c.errors = errs /\ c.failures = FailureStreak(st) /\ FailureStreak(st) \in Nat
    BY StreakIsFinite DEF Leads, RowsInv
  <2> QED BY <2>1, CoordinatorAssumption DEF OverTheLimit
<1>4. ErrorsInv(d, run, errs)
  BY <1>3, CoordinatorAssumption DEF ErrorsInv
<1>5. FailuresInv(d, run, st)
  <2>1. FailureStreak(st) + Cardinality(Unsettled(d.reducer, run)) <= ErrorLimit
    BY <1>1 DEF Leads, FailuresInv
  <2>2. FailureStreak(st) <= d.failures
    BY <1>3, StreakIsFinite DEF RowsInv
  <2> QED BY <1>3, <2>1, <2>2 DEF FailuresInv
<1> QED BY <1>2, <1>4, <1>5 DEF Leads, LastReducer, Starting

LEMMA StartRecord ==
  ASSUME NEW c \in Scheduler, NEW d,
         \/ d = [c EXCEPT !.pc = "reconciling", !.reason = "saturated"]
         \/ d = [c EXCEPT !.pc = "loop"]
  PROVE  /\ d \in Scheduler /\ SameHands(c, d) /\ d.pc \in {"reconciling", "loop"}
         /\ d.abort = c.abort /\ d.discoveryAbort = c.discoveryAbort
         /\ d.failures = c.failures
         /\ AbortsFit(c) => AbortsFit(d)
<1>1. "reconciling" \in Pc /\ "loop" \in Pc /\ "saturated" \in TerminalReason
  BY DEF Pc, TerminalReason
<1>2. CASE d = [c EXCEPT !.pc = "reconciling", !.reason = "saturated"]
  <2>1. d.deadline = c.deadline
    BY <1>2, Zenon DEF Scheduler
  <2> QED BY <1>1, <1>2, <2>1 DEF Scheduler, SameHands, AbortsFit
<1>3. CASE d = [c EXCEPT !.pc = "loop"]
  <2>1. d.deadline = c.deadline
    BY <1>3, Zenon DEF Scheduler
  <2> QED BY <1>1, <1>3, <2>1 DEF Scheduler, SameHands, AbortsFit
<1> QED BY <1>2, <1>3

LEMMA StartedGood ==
  ASSUME LimitsInv, NEW g \in Coordinator, Starting(sched[g]), ~OverTheLimit(sched[g]),
         NEW d, d \in Scheduler, SameHands(sched[g], d), d.pc \in {"reconciling", "loop"},
         d.discoveryAbort = sched[g].discoveryAbort, d.failures = sched[g].failures,
         AbortsFit(d)
  PROVE  Good(g, d)
<1> DEFINE c == sched[g]
<1>1. /\ Fits(c, runner, status) /\ Sound(c) /\ Starting(c) /\ ~OverTheLimit(c)
      /\ g = generation => Leads(c, runner, status, errors)
  BY GoodParts
<1>2. Hands(c) = {} /\ SameHands(c, d)
  BY <1>1 DEF Sound, Starting
<1>3. d.failures = c.failures /\ d.discoveryAbort = c.discoveryAbort
  OBVIOUS
<1> HIDE DEF c
<1>4. d.active = {} /\ d.reducer = {} /\ d.settlements = <<>> /\ d.tail = <<>> /\ Hands(d) = {}
  BY <1>1, <1>2, NothingHeld DEF SameHands, Hands
<1>5. Fits(d, runner, status)
  <2>1. d.failures < ErrorLimit
    BY <1>1, <1>3, GoodParts, CoordinatorAssumption DEF OverTheLimit, Scheduler, c
  <2> QED BY <1>4, <2>1, EmptyFits DEF AbortsFit
<1>6. ASSUME g = generation PROVE Leads(d, runner, status, errors)
  <2>1. RowsInv(runner, status) /\ errors \in Nat
    BY GoodParts
  <2>2. CASE d.pc = "loop"
    BY <1>1, <1>3, <1>4, <1>6, <2>1, <2>2, StartedLeads
  <2>3. CASE d.pc = "reconciling"
    BY <1>1, <1>4, <1>6, <2>1, <2>3, EmptyLeads DEF Starting, Looping
  <2> QED BY <2>2, <2>3
<1> QED BY <1>4, <1>5, <1>6 DEF Good

LEMMA StartStep ==
  ASSUME LimitsInv, NEW g \in Coordinator, Start(g)
  PROVE  LimitsInv'
<1> DEFINE c == sched[g]
<1>0. UNCHANGED vars /\ lost' \in 0 .. MaxLost /\ "none" \in Result /\ "catching" \in Leaving
  BY DEF Start, LimitsInv, MemoryOK, Result, RunStatus, Leaving
<1>1. CASE Step(g, Ended(c, "none")) \/ Step(g, [c EXCEPT !.pc = "catching"])
  BY <1>0, <1>1, LeavingStep
<1>2. CASE /\ ~OverTheLimit(c)
           /\ Step(g, IF Saturated(c)
                      THEN [c EXCEPT !.pc = "reconciling", !.reason = "saturated"]
                      ELSE [c EXCEPT !.pc = "loop"])
  <2> DEFINE d == IF Saturated(c)
                  THEN [c EXCEPT !.pc = "reconciling", !.reason = "saturated"]
                  ELSE [c EXCEPT !.pc = "loop"]
  <2>1. sched' = [sched EXCEPT ![g] = d] /\ runner' = runner
    BY <1>2 DEF Step
  <2>2. \/ d = [c EXCEPT !.pc = "reconciling", !.reason = "saturated"]
        \/ d = [c EXCEPT !.pc = "loop"]
    OBVIOUS
  <2>3. Starting(c) /\ ~OverTheLimit(c) /\ c \in Scheduler /\ AbortsFit(c)
    BY <1>2, GoodParts DEF Start, Starting
  <2> HIDE DEF c, d
  <2>4. /\ d \in Scheduler /\ SameHands(c, d) /\ d.pc \in {"reconciling", "loop"}
        /\ d.discoveryAbort = c.discoveryAbort
        /\ d.failures = c.failures /\ AbortsFit(d)
    BY <2>2, <2>3, StartRecord
  <2>5. Good(g, d)
    BY <2>3, <2>4, StartedGood DEF c
  <2> QED BY <1>0, <2>1, <2>5, SchedulerKeeps
<1> QED BY <1>1, <1>2 DEF Start

LEMMA PlainSteps ==
  ASSUME LimitsInv, NEW g \in Coordinator,
         TurnAborted(g) \/ Unwind(g) \/ Publish(g) \/ Catch(g)
  PROVE  LimitsInv'
<1>0. /\ {"unwinding", "catching", "finishing", "failing"} \subseteq Leaving
      /\ "none" \in Result /\ "replaced" \in Result /\ runStatus \in Result
      /\ lost \in 0 .. MaxLost
  BY DEF Leaving, Result, RunStatus, LimitsInv, MemoryOK, TypeOK
<1>1. CASE TurnAborted(g)
  BY <1>0, <1>1, LeavingStep DEF TurnAborted
<1>2. CASE Unwind(g)
  BY <1>0, <1>2, LeavingStep DEF Unwind
<1>3. CASE Publish(g)
  BY <1>0, <1>3, LeavingStep DEF Publish
<1>4. CASE Catch(g)
  <2>1. UNCHANGED vars /\ lost' \in 0 .. MaxLost
    BY <1>0, <1>4, CoordinatorAssumption DEF Catch
  <2> DEFINE r == IF runStatus = "running" THEN "replaced" ELSE runStatus
  <2>2. r \in Result
    BY <1>0
  <2>3. \/ Step(g, Ended(sched[g], "none"))
        \/ Step(g, [sched[g] EXCEPT !.pc = "failing"])
        \/ Step(g, Ended(sched[g], r))
    BY <1>4 DEF Catch
  <2> HIDE DEF r
  <2> QED BY <1>0, <2>1, <2>2, <2>3, LeavingStep
<1> QED BY <1>1, <1>2, <1>3, <1>4

-----------------------------------------------------------------------------
(* Settlements are taken.                                                     *)

\* Taken, of a record.
Dropped(c) ==
    LET w == Head(c.settlements).worker
    IN  [c EXCEPT !.settlements = Tail(@), !.active = @ \ {w}, !.reducer = @ \ {w},
                  !.pc = "loop"]

LEMMA DroppedRecord ==
  ASSUME NEW c \in Scheduler, c.settlements # <<>>, NEW t, t = Dropped(c)
  PROVE  /\ t \in Scheduler /\ Drops(c, t) /\ t.pc = "loop"
         /\ t.abort = c.abort /\ t.discoveryAbort = c.discoveryAbort
         /\ t.failures = c.failures
         /\ AbortsFit(c) => AbortsFit(t)
<1>1. Tail(c.settlements) \in Seq(Answer) /\ "loop" \in Pc
  BY HeadTailProperties DEF Scheduler, Pc
<1>2. t.deadline = c.deadline
  BY Zenon DEF Dropped, Scheduler
<1>3. /\ t \in Scheduler /\ t.pc = "loop"
      /\ t.abort = c.abort /\ t.discoveryAbort = c.discoveryAbort
      /\ t.failures = c.failures
  BY <1>1 DEF Dropped, Scheduler
<1>4. Drops(c, t)
  BY DEF Dropped, Drops, Scheduler
<1> QED BY <1>2, <1>3, <1>4 DEF AbortsFit

LEMMA GivenUpRecord ==
  ASSUME NEW c, NEW t \in Scheduler, Drops(c, t), t.discoveryAbort = c.discoveryAbort,
         NEW e, NEW d, d = GiveUp(t)
  PROVE  TakesFirst(c, d, e)
<1>1. "failure" \in AbortReason \ {"none"} /\ "unwinding" \in Pc
  BY DEF AbortReason, Pc
<1> DEFINE b == AbortAll(t, "failure")
<1>2. b \in Scheduler /\ SameHands(t, b) /\ b.abort # "none" /\ b.discoveryAbort # "none"
  BY <1>1 DEF AbortAll, Scheduler, SameHands, AbortReason
<1>3. d = [b EXCEPT !.pc = "unwinding"]
  BY DEF GiveUp
<1> HIDE DEF b
<1>4. /\ d \in Scheduler /\ SameHands(b, d) /\ d.pc = "unwinding"
      /\ d.abort # "none" /\ d.discoveryAbort # "none"
  BY <1>1, <1>2, <1>3 DEF Scheduler, SameHands
<1>5. Drops(c, d)
  BY <1>2, <1>4 DEF Drops, SameHands
<1> QED BY <1>4, <1>5 DEF TakesFirst, AbortsFit, Looping

\* What the parts of a record that are not listed do not matter for.
SameTaken(t, d) ==
    /\ d \in Scheduler /\ SameHands(t, d) /\ d.pc = t.pc
    /\ d.abort = t.abort /\ d.discoveryAbort = t.discoveryAbort
    /\ AbortsFit(t) => AbortsFit(d)

LEMMA ReplacedRecord ==
  ASSUME NEW t \in Scheduler, NEW n \in Nat,
         NEW d, d = [t EXCEPT !.replaced = TRUE, !.errors = n]
  PROVE  SameTaken(t, d)
<1>1. d.deadline = t.deadline
  BY Zenon DEF Scheduler
<1> QED BY <1>1 DEF SameTaken, SameHands, Scheduler, AbortsFit

LEMMA AcceptedRecord ==
  ASSUME NEW t \in Scheduler, NEW w \in Discovery,
         NEW d, d = [t EXCEPT !.accepted = TRUE, !.errors = 0, !.buffer = @ \cup {w}]
  PROVE  SameTaken(t, d)
<1>1. d.deadline = t.deadline
  BY Zenon DEF Scheduler
<1> QED BY <1>1 DEF SameTaken, SameHands, Scheduler, AbortsFit

LEMMA FailedReducerRecord ==
  ASSUME NEW t \in Scheduler, NEW S \in SUBSET Discovery, NEW n \in Nat,
         NEW d, d = [t EXCEPT !.buffer = S, !.held = {}, !.failures = n]
  PROVE  SameTaken(t, d)
<1>1. d.deadline = t.deadline
  BY Zenon DEF Scheduler
<1> QED BY <1>1 DEF SameTaken, SameHands, Scheduler, AbortsFit

LEMMA ReducedRecord ==
  ASSUME NEW t \in Scheduler, NEW m \in Nat, NEW n \in Nat,
         NEW d, d = [t EXCEPT !.held = {}, !.failures = 0, !.previous = TRUE,
                              !.noNew = m, !.errors = n]
  PROVE  SameTaken(t, d)
<1>1. d.deadline = t.deadline
  BY Zenon DEF Scheduler
<1> QED BY <1>1 DEF SameTaken, SameHands, Scheduler, AbortsFit

LEMMA SaturatedRecord ==
  ASSUME NEW t \in Scheduler,
         NEW d, d = [AbortAll(t, "saturated") EXCEPT !.pc = "reconciling", !.reason = "saturated"]
  PROVE  /\ d \in Scheduler /\ SameHands(t, d) /\ d.pc = "reconciling" /\ AbortsFit(d)
         /\ d.discoveryAbort # "none"
<1>1. /\ "saturated" \in AbortReason \ {"none"} /\ "saturated" \in TerminalReason
      /\ "reconciling" \in Pc
  BY DEF AbortReason, Pc, TerminalReason
<1> DEFINE b == AbortAll(t, "saturated")
<1>2. b \in Scheduler /\ SameHands(t, b) /\ b.abort # "none" /\ b.discoveryAbort # "none"
  BY <1>1 DEF AbortAll, Scheduler, SameHands, AbortReason
<1>3. d = [b EXCEPT !.pc = "reconciling", !.reason = "saturated"]
  OBVIOUS
<1> HIDE DEF b
<1>4. /\ d \in Scheduler /\ SameHands(b, d) /\ d.pc = "reconciling"
      /\ d.abort # "none" /\ d.discoveryAbort # "none"
  BY <1>1, <1>2, <1>3 DEF Scheduler, SameHands
<1> QED BY <1>2, <1>4 DEF SameHands, AbortsFit

\* What there is of a settlement that is taken.
LEMMA TakenFacts ==
  ASSUME LimitsInv, NEW g \in Coordinator, NEW outcomes, NEW kind, Takes(g, outcomes, kind),
         NEW c, c = sched[g], NEW e, e = Head(c.settlements), NEW t, t = Taken(g)
  PROVE  /\ t \in Scheduler /\ Drops(c, t) /\ t.pc = "loop" /\ AbortsFit(t)
         /\ t.discoveryAbort = c.discoveryAbort /\ t.failures = c.failures
         /\ e \in Answer /\ e.worker \in kind /\ e.outcome \in outcomes
         /\ c.failures \in Nat /\ c \in Scheduler
         /\ e.worker \in Reducer => t.reducer = {}
<1>1. /\ c \in Scheduler /\ AbortsFit(c) /\ c.settlements # <<>>
      /\ e.worker \in kind /\ e.outcome \in outcomes /\ Fits(c, runner, status)
  BY GoodParts DEF Takes
<1>2. t = Dropped(c)
  BY DEF Taken, Dropped
<1>3. /\ t \in Scheduler /\ Drops(c, t) /\ t.pc = "loop"
      /\ t.abort = c.abort /\ t.discoveryAbort = c.discoveryAbort
      /\ t.failures = c.failures /\ AbortsFit(t)
  BY <1>1, <1>2, DroppedRecord
<1>4. e \in Answer /\ SettlementFits(c, e, runner, status)
  <2> DEFINE l == Tail(c.settlements)
  <2>1. l = Tail(c.settlements)
    OBVIOUS
  <2> HIDE DEF l
  <2> QED BY <1>1, <2>1, HeadFacts
<1>5. ASSUME e.worker \in Reducer PROVE t.reducer = {}
  <2>1. e.worker \in c.reducer
    BY <1>4, <1>5, <1>1, WorkersAssumption DEF SettlementFits, Hands, Scheduler
  <2>2. c.reducer = {e.worker}
    BY <1>1, <2>1 DEF Fits, Sound
  <2> QED BY <1>3, <2>2 DEF Drops
<1>6. c.failures \in Nat
  BY <1>1 DEF Scheduler
<1> QED BY <1>1, <1>3, <1>4, <1>5, <1>6

LEMMA TakingKeeps ==
  ASSUME LimitsInv, NEW g \in Coordinator, sched[g].pc = "waiting",
         NEW d, TakesFirst(sched[g], d, Head(sched[g].settlements)), Step(g, d),
         UNCHANGED <<vars, lost>>
  PROVE  LimitsInv'
<1>1. Good(g, d)
  BY TakesGood
<1> QED BY <1>1, SchedulerKeeps DEF Step, LimitsInv, MemoryOK

LEMMA TakeFailureStep ==
  ASSUME LimitsInv, NEW g \in Coordinator, TakeFailure(g), UNCHANGED <<vars, lost>>
  PROVE  LimitsInv'
<1> DEFINE c == sched[g]
           e == Head(c.settlements)
           t == Taken(g)
           d == GiveUp(t)
<1>1. sched[g].pc = "waiting" /\ Step(g, d)
  BY DEF TakeFailure, Takes
<1>2. c = sched[g] /\ e = Head(c.settlements) /\ t = Taken(g) /\ d = GiveUp(t)
  OBVIOUS
<1> HIDE DEF c, e, t, d
<1>3. t \in Scheduler /\ Drops(c, t) /\ t.discoveryAbort = c.discoveryAbort
  BY <1>2, TakenFacts DEF TakeFailure
<1>4. TakesFirst(c, d, e)
  BY <1>2, <1>3, GivenUpRecord
<1> QED BY <1>1, <1>4, TakingKeeps DEF c, e

\* A settlement that leaves the scheduler in its loop.
LEMMA GoingOn ==
  ASSUME NEW c, NEW e, NEW t \in Scheduler, Drops(c, t), t.pc = "loop", AbortsFit(t),
         t.discoveryAbort = c.discoveryAbort, NEW d, SameTaken(t, d),
         ~Fatal(e), d.failures < ErrorLimit,
         \/ e.worker \in Discovery /\ d.failures = c.failures
         \/ e.worker \in Reducer /\ e.outcome = "failed" /\ d.failures = c.failures + 1
         \/ e.worker \in Reducer /\ e.outcome = "succeeded" /\ d.failures = 0
  PROVE  TakesFirst(c, d, e)
<1>1. Drops(c, d)
  BY DEF Drops, SameTaken, SameHands
<1> QED BY <1>1 DEF TakesFirst, SameTaken

\* Replaced or not, the error limit decides.
LEMMA LimitDecides ==
  ASSUME NEW c, NEW e, NEW t \in Scheduler, Drops(c, t), t.pc = "loop", AbortsFit(t),
         t.discoveryAbort = c.discoveryAbort, NEW b, SameTaken(t, b),
         NEW n \in Nat, NEW d, d = Unless(n >= ErrorLimit, b),
         n >= ErrorLimit \/ TakesFirst(c, b, e)
  PROVE  TakesFirst(c, d, e)
<1>1. CASE n >= ErrorLimit
  <2>1. Drops(c, b) /\ b \in Scheduler /\ b.discoveryAbort = c.discoveryAbort
    BY DEF Drops, SameTaken, SameHands
  <2>2. d = GiveUp(b)
    BY <1>1 DEF Unless
  <2> QED BY <2>1, <2>2, GivenUpRecord
<1>2. CASE ~(n >= ErrorLimit)
  BY <1>2 DEF Unless
<1> QED BY <1>1, <1>2

LEMMA TakeReplacedStep ==
  ASSUME LimitsInv, NEW g \in Coordinator, TakeReplaced(g), UNCHANGED <<vars, lost>>
  PROVE  LimitsInv'
<1> DEFINE c == sched[g]
           e == Head(c.settlements)
           t == Taken(g)
           n == e.errors
           b == [t EXCEPT !.replaced = TRUE, !.errors = n]
           d == Unless(n >= ErrorLimit, b)
<1>1. sched[g].pc = "waiting" /\ Step(g, d)
  BY DEF TakeReplaced, Takes
<1>2. /\ c = sched[g] /\ e = Head(c.settlements) /\ t = Taken(g) /\ n = e.errors
      /\ b = [t EXCEPT !.replaced = TRUE, !.errors = n] /\ d = Unless(n >= ErrorLimit, b)
  OBVIOUS
<1>3. Takes(g, {"replaced"}, Discovery)
  BY DEF TakeReplaced
<1> HIDE DEF c, e, t, n, b, d
<1>4. /\ t \in Scheduler /\ Drops(c, t) /\ t.pc = "loop" /\ AbortsFit(t)
      /\ t.discoveryAbort = c.discoveryAbort /\ t.failures = c.failures
      /\ e \in Answer /\ e.worker \in Discovery /\ e.outcome = "replaced"
  BY <1>2, <1>3, TakenFacts
<1>5. n \in Nat
  BY <1>2, <1>4 DEF Answer
<1>6. SameTaken(t, b) /\ b.failures = t.failures
  <2>1. SameTaken(t, b)
    BY <1>2, <1>4, <1>5, ReplacedRecord
  <2>2. b.failures = t.failures
    BY <1>2, <1>4, <1>5 DEF Scheduler
  <2> QED BY <2>1, <2>2
<1>7. c.failures < ErrorLimit
  BY <1>1, <1>2, GoodParts DEF Sound, Looping
<1>8. n >= ErrorLimit \/ TakesFirst(c, b, e)
  <2> SUFFICES ASSUME ~(n >= ErrorLimit) PROVE TakesFirst(c, b, e)
    OBVIOUS
  <2>1. ~Fatal(e)
    BY <1>2, <1>4 DEF Fatal
  <2>2. b.failures < ErrorLimit /\ b.failures = c.failures
    BY <1>4, <1>6, <1>7
  <2> QED BY <1>4, <1>6, <2>1, <2>2, GoingOn
<1>9. TakesFirst(c, d, e)
  <2>1. d = Unless(n >= ErrorLimit, b) /\ SameTaken(t, b)
    BY <1>2, <1>6
  <2> QED BY <1>4, <1>5, <1>8, <2>1, LimitDecides
<1> QED BY <1>1, <1>9, TakingKeeps DEF c, e

LEMMA TakeCanceledStep ==
  ASSUME LimitsInv, NEW g \in Coordinator, TakeCanceled(g), UNCHANGED <<vars, lost>>
  PROVE  LimitsInv'
<1> DEFINE c == sched[g]
           e == Head(c.settlements)
           t == Taken(g)
<1>1. sched[g].pc = "waiting" /\ Step(g, t) /\ Takes(g, {"canceled"}, Discovery)
  BY DEF TakeCanceled, Takes
<1>2. /\ c = sched[g] /\ e = Head(c.settlements) /\ t = Taken(g)
  OBVIOUS
<1> HIDE DEF c, e, t
<1>4. /\ t \in Scheduler /\ Drops(c, t) /\ t.pc = "loop" /\ AbortsFit(t)
      /\ t.discoveryAbort = c.discoveryAbort /\ t.failures = c.failures
      /\ e \in Answer /\ e.worker \in Discovery /\ e.outcome = "canceled"
  BY <1>1, <1>2, TakenFacts
<1>5. SameTaken(t, t)
  BY <1>4 DEF SameTaken, SameHands
<1>7. c.failures < ErrorLimit
  BY <1>1, <1>2, GoodParts DEF Sound, Looping
<1>8. ~Fatal(e) /\ t.failures < ErrorLimit
  BY <1>4, <1>7 DEF Fatal
<1>9. TakesFirst(c, t, e)
  BY <1>4, <1>5, <1>8, GoingOn
<1> QED BY <1>1, <1>9, TakingKeeps DEF c, e

LEMMA TakeAcceptedStep ==
  ASSUME LimitsInv, NEW g \in Coordinator, TakeAccepted(g), UNCHANGED <<vars, lost>>
  PROVE  LimitsInv'
<1> DEFINE c == sched[g]
           e == Head(c.settlements)
           t == Taken(g)
           d == [t EXCEPT !.accepted = TRUE, !.errors = 0, !.buffer = @ \cup {e.worker}]
<1>1. sched[g].pc = "waiting" /\ Step(g, d) /\ Takes(g, {"succeeded"}, Discovery)
  BY DEF TakeAccepted, Takes
<1>2. /\ c = sched[g] /\ e = Head(c.settlements) /\ t = Taken(g)
      /\ d = [t EXCEPT !.accepted = TRUE, !.errors = 0, !.buffer = @ \cup {e.worker}]
  OBVIOUS
<1> HIDE DEF c, e, t, d
<1>4. /\ t \in Scheduler /\ Drops(c, t) /\ t.pc = "loop" /\ AbortsFit(t)
      /\ t.discoveryAbort = c.discoveryAbort /\ t.failures = c.failures
      /\ e \in Answer /\ e.worker \in Discovery /\ e.outcome = "succeeded"
  BY <1>1, <1>2, TakenFacts
<1>5. SameTaken(t, d) /\ d.failures = t.failures
  <2>1. SameTaken(t, d)
    BY <1>2, <1>4, AcceptedRecord
  <2>2. d.failures = t.failures
    BY <1>2, <1>4 DEF Scheduler
  <2> QED BY <2>1, <2>2
<1>7. c.failures < ErrorLimit
  BY <1>1, <1>2, GoodParts DEF Sound, Looping
<1>8. ~Fatal(e) /\ d.failures < ErrorLimit /\ d.failures = c.failures
  BY <1>4, <1>5, <1>7 DEF Fatal
<1>9. TakesFirst(c, d, e)
  BY <1>4, <1>5, <1>8, GoingOn
<1> QED BY <1>1, <1>9, TakingKeeps DEF c, e

LEMMA TakeFailedReducerStep ==
  ASSUME LimitsInv, NEW g \in Coordinator, TakeFailedReducer(g), UNCHANGED <<vars, lost>>
  PROVE  LimitsInv'
<1> DEFINE c == sched[g]
           e == Head(c.settlements)
           t == Taken(g)
           n == t.failures + 1
           b == [t EXCEPT !.buffer = Returned(g), !.held = {}, !.failures = n]
           d == Unless(b.failures >= ErrorLimit, b)
<1>1. sched[g].pc = "waiting" /\ Step(g, d) /\ Takes(g, {"failed"}, Reducer)
  BY DEF TakeFailedReducer, Takes
<1>2. /\ c = sched[g] /\ e = Head(c.settlements) /\ t = Taken(g) /\ n = t.failures + 1
      /\ b = [t EXCEPT !.buffer = Returned(g), !.held = {}, !.failures = n]
      /\ d = Unless(b.failures >= ErrorLimit, b)
  OBVIOUS
<1> HIDE DEF c, e, t, n, b, d
<1>4. /\ t \in Scheduler /\ Drops(c, t) /\ t.pc = "loop" /\ AbortsFit(t)
      /\ t.discoveryAbort = c.discoveryAbort /\ t.failures = c.failures
      /\ e \in Answer /\ e.worker \in Reducer /\ e.outcome = "failed"
      /\ c.failures \in Nat /\ c \in Scheduler
  BY <1>1, <1>2, TakenFacts
<1>5. n \in Nat /\ n = c.failures + 1 /\ Returned(g) \in SUBSET Discovery
  BY <1>2, <1>4 DEF Returned, Scheduler
<1>6. SameTaken(t, b) /\ b.failures = n
  <2>1. SameTaken(t, b)
    BY <1>2, <1>4, <1>5, FailedReducerRecord
  <2>2. b.failures = n
    BY <1>2, <1>4, <1>5 DEF Scheduler
  <2> QED BY <2>1, <2>2
<1>8. b.failures >= ErrorLimit \/ TakesFirst(c, b, e)
  <2> SUFFICES ASSUME ~(b.failures >= ErrorLimit) PROVE TakesFirst(c, b, e)
    OBVIOUS
  <2>1. ~Fatal(e)
    BY <1>4, WorkersAssumption DEF Fatal
  <2>2. b.failures < ErrorLimit /\ b.failures = c.failures + 1
    BY <1>5, <1>6, CoordinatorAssumption
  <2> QED BY <1>4, <1>6, <2>1, <2>2, GoingOn
<1>9. TakesFirst(c, d, e)
  <2>1. d = Unless(n >= ErrorLimit, b) /\ (n >= ErrorLimit \/ TakesFirst(c, b, e))
    BY <1>2, <1>6, <1>8
  <2> QED BY <1>4, <1>5, <1>6, <2>1, LimitDecides
<1> QED BY <1>1, <1>9, TakingKeeps DEF c, e

LEMMA TakeReducedStep ==
  ASSUME LimitsInv, NEW g \in Coordinator, TakeReduced(g), UNCHANGED <<vars, lost>>
  PROVE  LimitsInv'
<1> DEFINE c == sched[g]
           e == Head(c.settlements)
           t == Taken(g)
           b == [t EXCEPT !.held = {}, !.failures = 0, !.previous = TRUE,
                          !.noNew = e.noNew, !.errors = e.errors]
           d == Reduced(b)
<1>1. sched[g].pc = "waiting" /\ Step(g, d) /\ Takes(g, {"succeeded"}, Reducer)
  BY DEF TakeReduced, Takes
<1>2. /\ c = sched[g] /\ e = Head(c.settlements) /\ t = Taken(g)
      /\ b = [t EXCEPT !.held = {}, !.failures = 0, !.previous = TRUE,
                       !.noNew = e.noNew, !.errors = e.errors]
      /\ d = Reduced(b)
  OBVIOUS
<1> HIDE DEF c, e, t, b, d
<1>4. /\ t \in Scheduler /\ Drops(c, t) /\ t.pc = "loop" /\ AbortsFit(t)
      /\ t.discoveryAbort = c.discoveryAbort /\ t.failures = c.failures
      /\ e \in Answer /\ e.worker \in Reducer /\ e.outcome = "succeeded"
      /\ t.reducer = {}
  BY <1>1, <1>2, TakenFacts
<1>5. e.noNew \in Nat /\ e.errors \in Nat
  BY <1>4 DEF Answer
<1>6. SameTaken(t, b) /\ b.failures = 0
  <2>1. SameTaken(t, b)
    BY <1>2, <1>4, <1>5, ReducedRecord
  <2>2. b.failures = 0
    BY <1>2, <1>4, <1>5 DEF Scheduler
  <2> QED BY <2>1, <2>2
<1>7. CASE Saturated(b)
  <2>1. d = [AbortAll(b, "saturated") EXCEPT !.pc = "reconciling", !.reason = "saturated"]
    BY <1>2, <1>7 DEF Reduced
  <2>2. b \in Scheduler
    BY <1>6 DEF SameTaken
  <2>3. /\ d \in Scheduler /\ SameHands(b, d) /\ d.pc = "reconciling" /\ AbortsFit(d)
        /\ d.discoveryAbort # "none"
    BY <2>1, <2>2, SaturatedRecord
  <2>4. Drops(c, d) /\ d.reducer = {}
    BY <1>4, <1>6, <2>3 DEF Drops, SameTaken, SameHands
  <2>5. TakesFirst(c, d, e)
    BY <2>3, <2>4 DEF TakesFirst, Looping
  <2> QED BY <1>1, <2>5, TakingKeeps DEF c, e
<1>8. CASE ~Saturated(b)
  <2>1. d = b
    BY <1>2, <1>8 DEF Reduced
  <2>2. ~Fatal(e) /\ b.failures < ErrorLimit
    BY <1>4, <1>6, CoordinatorAssumption DEF Fatal
  <2>3. TakesFirst(c, d, e)
    BY <1>4, <1>6, <2>1, <2>2, GoingOn
  <2> QED BY <1>1, <2>3, TakingKeeps DEF c, e
<1> QED BY <1>7, <1>8

LEMMA TakeStep ==
  ASSUME LimitsInv, NEW g \in Coordinator, TakeSettlement(g)
  PROVE  LimitsInv'
BY TakeFailureStep, TakeReplacedStep, TakeCanceledStep, TakeAcceptedStep,
   TakeFailedReducerStep, TakeReducedStep DEF TakeSettlement

-----------------------------------------------------------------------------
(* The end of the loop, and its turns.                                        *)

\* Nothing is left in its hands.
Cleared(d) == d.active = {} /\ d.reducer = {} /\ d.settlements = <<>> /\ d.tail = <<>>

LEMMA ReconciledRecord ==
  ASSUME NEW c \in Scheduler, c.reducer = {}, c.tail = <<>>, AbortsFit(c),
         NEW S \in SUBSET Discovery, NEW a \in BOOLEAN,
         NEW d, d = [c EXCEPT !.omitted = S, !.active = {}, !.settlements = <<>>, !.accepted = a]
  PROVE  d \in Scheduler /\ AbortsFit(d) /\ Cleared(d)
<1>1. d.deadline = c.deadline
  BY Zenon DEF Scheduler
<1>2. <<>> \in Seq(Answer)
  BY EmptySeq
<1> QED BY <1>1, <1>2 DEF Scheduler, AbortsFit, Cleared

LEMMA ReconcileStep ==
  ASSUME LimitsInv, NEW g \in Coordinator, Reconcile(g)
  PROVE  LimitsInv'
<1> DEFINE c == sched[g]
           S == LateAccepted(g)
           b == [c EXCEPT !.omitted = S, !.active = {}, !.settlements = <<>>,
                          !.accepted = @ \/ S # {}]
<1>1. /\ Fits(c, runner, status) /\ c \in Scheduler /\ AbortsFit(c)
      /\ c.pc = "reconciling" /\ \A w \in Hands(c) : runner[w] = "settled"
  BY GoodParts DEF Reconcile, Pending, Owned, Hands
<1>2. c.reducer = {} /\ c.tail = <<>>
  BY <1>1, NothingHeld DEF Fits, Sound
<1>3. S \in SUBSET Discovery
  <2> SUFFICES ASSUME NEW w \in S PROVE w \in Discovery
    OBVIOUS
  <2>1. PICK i \in DOMAIN c.settlements : w = c.settlements[i].worker
    BY DEF LateAccepted, Entries
  <2>2. w \in Hands(c)
    BY <1>1, <2>1 DEF Fits, SettlementsFit, SettlementFits
  <2> QED BY <1>1, <1>2, <2>2 DEF Hands, Scheduler
<1>4. \/ Step(g, [b EXCEPT !.pc = "catching"]) \/ Step(g, Ended(b, "none"))
      \/ Step(g, [b EXCEPT !.pc = "publishing"])
  BY DEF Reconcile
<1>5. UNCHANGED <<vars, lost>>
  BY DEF Reconcile
<1> DEFINE a == c.accepted \/ S # {}
<1>6. b = [c EXCEPT !.omitted = S, !.active = {}, !.settlements = <<>>, !.accepted = a]
      /\ a \in BOOLEAN
  OBVIOUS
<1> HIDE DEF c, S, b, a
<1>7. b \in Scheduler /\ AbortsFit(b) /\ Cleared(b)
  BY <1>1, <1>2, <1>3, <1>6, ReconciledRecord
<1>8. ASSUME NEW to \in {"catching", "publishing"}, Step(g, [b EXCEPT !.pc = to])
      PROVE  LimitsInv'
  <2> DEFINE d == [b EXCEPT !.pc = to]
  <2>1. d = [b EXCEPT !.pc = to] /\ to \in Leaving
    BY DEF Leaving
  <2>2. sched' = [sched EXCEPT ![g] = d] /\ runner' = runner
    BY <1>8 DEF Step
  <2>4. d.pc \notin {"starting", "loop", "waiting"}
    BY <1>7, <2>1 DEF Scheduler
  <2> HIDE DEF d
  <2>3. Follows(b, d)
    BY <1>7, <2>1, LeavingRecord
  <2>5. Empties(d)
    BY <1>7, <2>3, <2>4 DEF Empties, Follows, SameHands, Cleared
  <2>6. Good(g, d)
    BY <2>5, EmptiesGood
  <2> QED BY <1>5, <2>2, <2>6, SchedulerKeeps DEF LimitsInv, MemoryOK
<1>9. ASSUME Step(g, Ended(b, "none")) PROVE LimitsInv'
  <2> DEFINE d == Ended(b, "none")
  <2>1. sched' = [sched EXCEPT ![g] = d] /\ runner' = runner
    BY <1>9 DEF Step
  <2>2. Empties(d)
    BY <1>7, EndedRecord DEF Result, RunStatus
  <2> HIDE DEF d
  <2>3. Good(g, d)
    BY <2>2, EmptiesGood
  <2> QED BY <1>5, <2>1, <2>3, SchedulerKeeps DEF LimitsInv, MemoryOK
<1> QED BY <1>4, <1>8, <1>9

LEMMA RoomIsFree ==
  ASSUME NEW c, Sound(c)
  PROVE  /\ Room(c) \in Int
         /\ Room(c) > 0 => ~c.deadline
         /\ Room(c) >= 0 => Cardinality(c.active) + Room(c) <= Workers
<1>1. Cardinality(c.active) \in Nat /\ Cardinality(c.active) <= Workers /\ c.dispatched \in Int
  BY FiniteDiscoveries DEF Sound, Scheduler
<1> DEFINE k == Cardinality(c.active)
<1>2. k \in Nat /\ k <= Workers /\ Workers \in Nat /\ MaxDiscoveryRuns \in Nat
  BY <1>1, CoordinatorAssumption, ConfigAssumption
<1>3. Room(c) = IF c.deadline \/ (c.previous /\ c.noNew >= StopAfterNoNew) THEN 0
                ELSE IF Workers - k < MaxDiscoveryRuns - c.dispatched THEN Workers - k
                ELSE MaxDiscoveryRuns - c.dispatched
  BY DEF Room
<1> HIDE DEF k
<1>4. /\ Room(c) \in Int
      /\ Room(c) > 0 => ~c.deadline
      /\ Room(c) >= 0 => k + Room(c) <= Workers
  <2>1. CASE c.deadline \/ (c.previous /\ c.noNew >= StopAfterNoNew)
    BY <1>2, <1>3, <2>1
  <2>2. CASE ~(c.deadline \/ (c.previous /\ c.noNew >= StopAfterNoNew))
    <3>1. ~c.deadline
      BY <2>2
    <3>2. Room(c) = IF Workers - k < MaxDiscoveryRuns - c.dispatched THEN Workers - k
                    ELSE MaxDiscoveryRuns - c.dispatched
      BY <1>3, <2>2
    <3>3. Room(c) \in Int /\ (Room(c) >= 0 => k + Room(c) <= Workers)
      BY <1>1, <1>2, <3>2
    <3> QED BY <3>1, <3>3
  <2> QED BY <2>1, <2>2
<1> QED BY <1>4 DEF k

LEMMA TurnedRecord ==
  ASSUME NEW c \in Scheduler, NEW A \in SUBSET Discovery, NEW n \in Int, NEW R \in SUBSET Reducer,
         NEW H \in SUBSET Discovery, NEW B \in SUBSET Discovery, NEW to \in Pc,
         NEW d, d = [c EXCEPT !.active = A, !.dispatched = n, !.reducer = R, !.held = H,
                              !.buffer = B, !.pc = to]
  PROVE  d \in Scheduler
BY DEF Scheduler

LEMMA TurnStep ==
  ASSUME LimitsInv, NEW g \in Coordinator, Turn(g), TypeOK'
  PROVE  LimitsInv'
<1> DEFINE c == sched[g]
           quiet == c.settlements = <<>>
           new == IF quiet THEN Fresh(Discovery, Room(c)) ELSE {}
           A == c.active \cup new
           n == c.dispatched + Cardinality(new)
           reduces == quiet /\ c.reducer = {} /\ ReducerReady(c, A, n)
           R == IF reduces THEN Fresh(Reducer, 1) ELSE c.reducer
           more == R \ c.reducer
           out == A = {} /\ R = {}
           H == IF reduces THEN c.buffer ELSE c.held
           B == IF reduces THEN {} ELSE c.buffer
           to == IF ~out THEN "waiting"
                 ELSE IF c.buffer # {} THEN "loop"
                 ELSE IF ~c.previous /\ c.replaced THEN "catching"
                 ELSE "reconciling"
           d == [c EXCEPT !.active = A, !.dispatched = n, !.reducer = R, !.held = H,
                          !.buffer = B, !.pc = to]
           S == new \cup more
<1>1. /\ c.pc = "loop" /\ c.abort = "none"
      /\ sched' = [sched EXCEPT ![g] = d]
      /\ runner' = Prepared(runner, S)
      /\ UNCHANGED <<vars, lost>>
  BY DEF Turn, Prepared
<1>2. /\ Fits(c, runner, status) /\ c \in Scheduler /\ Sound(c) /\ AbortsFit(c)
      /\ RowsInv(runner, status) /\ errors \in Nat
      /\ g = generation => Leads(c, runner, status, errors)
  BY GoodParts
<1>3. /\ Idle(Discovery, runner) \subseteq Discovery /\ Idle(Reducer, runner) \subseteq Reducer
      /\ Fresh(Discovery, Room(c)) = Least(Idle(Discovery, runner), Room(c))
      /\ Fresh(Reducer, 1) = Least(Idle(Reducer, runner), 1)
  BY DEF Fresh, Least, Idle
<1> DEFINE D == Fresh(Discovery, Room(c))
<1>4. /\ D \subseteq Idle(Discovery, runner)
      /\ D # {} => ~c.deadline /\ Cardinality(c.active) + Cardinality(D) <= Workers
  <2>1. /\ Room(c) \in Int /\ Room(c) > 0 => ~c.deadline
    BY <1>2, RoomIsFree
  <2>2. Room(c) >= 0 => Cardinality(c.active) + Room(c) <= Workers
    BY <1>2, RoomIsFree
  <2>3. /\ D \subseteq Idle(Discovery, runner)
        /\ Room(c) <= 0 => D = {}
        /\ Room(c) >= 0 => Cardinality(D) <= Room(c)
    BY <1>3, <2>1, LeastIsSmall, RoomIsFree, <1>2
  <2>4. Room(c) \in Int /\ Cardinality(D) \in Nat /\ Cardinality(c.active) \in Nat
    BY <1>2, <1>3, <2>3, RoomIsFree, FiniteDiscoveries DEF Scheduler
  <2> DEFINE r == Room(c)
             k == Cardinality(D)
             m == Cardinality(c.active)
  <2>5. /\ r \in Int /\ k \in Nat /\ m \in Nat
        /\ r > 0 => ~c.deadline
        /\ r >= 0 => m + r <= Workers
        /\ r <= 0 => D = {}
        /\ r >= 0 => k <= r
    BY <1>2, <2>2, <2>3, <2>4, RoomIsFree
  <2> HIDE DEF r, k, m, D
  <2>6. D # {} => ~c.deadline /\ m + k <= Workers
    BY <2>5, CoordinatorAssumption
  <2> QED BY <2>3, <2>6 DEF k, m
<1>5. /\ new \subseteq Idle(Discovery, runner) /\ new \subseteq Discovery
      /\ new # {} => /\ c.settlements = <<>> /\ ~c.deadline
                     /\ Cardinality(c.active) + Cardinality(new) <= Workers
  BY <1>3, <1>4
<1>6. /\ more \subseteq Idle(Reducer, runner) /\ R = c.reducer \cup more /\ R \subseteq Reducer
      /\ more # {} => /\ c.settlements = <<>> /\ c.reducer = {}
                      /\ \A r \in more : /\ r \in Idle(Reducer, runner)
                                         /\ \A v \in Idle(Reducer, runner) : r <= v
  <2>1. \A r \in Fresh(Reducer, 1) : /\ r \in Idle(Reducer, runner)
                                     /\ \A v \in Idle(Reducer, runner) : r <= v
    BY <1>3, LeastIsFirst
  <2>2. CASE reduces
    BY <1>3, <2>1, <2>2
  <2>3. CASE ~reduces
    BY <1>2, <2>3 DEF Scheduler
  <2> QED BY <2>2, <2>3
<1>7. /\ A \in SUBSET Discovery /\ n \in Int /\ R \in SUBSET Reducer
      /\ H \in SUBSET Discovery /\ B \in SUBSET Discovery /\ to \in Pc
  <2>1. Cardinality(new) \in Nat /\ c.dispatched \in Int
    BY <1>2, <1>5, FiniteDiscoveries DEF Scheduler
  <2>2. /\ c.active \in SUBSET Discovery /\ c.buffer \in SUBSET Discovery
        /\ c.held \in SUBSET Discovery
    BY <1>2 DEF Scheduler
  <2>3. n \in Int
    <3> DEFINE m == Cardinality(new)
    <3>1. n = c.dispatched + m /\ m \in Nat /\ c.dispatched \in Int
      BY <2>1
    <3> HIDE DEF m
    <3> QED BY <3>1
  <2>4. A \in SUBSET Discovery
    BY <1>5, <2>2
  <2>5. H \in SUBSET Discovery /\ B \in SUBSET Discovery
    BY <2>2
  <2>6. to \in Pc
    BY DEF Pc
  <2> QED BY <1>6, <2>3, <2>4, <2>5, <2>6
<1>8. /\ to = "waiting" => A # {} \/ R # {}
      /\ to = "reconciling" => R = {}
      /\ to # "starting"
  OBVIOUS
<1>9. d = [c EXCEPT !.active = A, !.dispatched = n, !.reducer = R, !.held = H,
                    !.buffer = B, !.pc = to]
      /\ A = c.active \cup new /\ S = new \cup more
  OBVIOUS
<1> HIDE DEF c, quiet, new, A, n, reduces, R, more, out, H, B, to, d, S, D
<1>10. /\ d \in Scheduler /\ d.active = A /\ d.reducer = R /\ d.pc = to
       /\ d.settlements = c.settlements /\ d.tail = c.tail
       /\ d.abort = c.abort /\ d.discoveryAbort = c.discoveryAbort
       /\ d.failures = c.failures /\ d.deadline = c.deadline
  <2>1. d \in Scheduler
    BY <1>2, <1>7, <1>9, TurnedRecord
  <2>2. /\ d.active = A /\ d.reducer = R /\ d.pc = to
        /\ d.settlements = c.settlements /\ d.tail = c.tail
        /\ d.abort = c.abort /\ d.discoveryAbort = c.discoveryAbort
        /\ d.failures = c.failures
    BY <1>2, <1>9 DEF Scheduler
  <2>3. d.deadline = c.deadline
    BY <1>2, <1>9, Zenon DEF Scheduler
  <2> QED BY <2>1, <2>2, <2>3
<1>11. Grows(c, d, runner, new, more)
  BY <1>5, <1>6, <1>9, <1>10 DEF Grows
<1>12. Looping(c) /\ ~Starting(d)
  BY <1>1, <1>8, <1>10 DEF Looping, Starting
<1>13. Fits(d, runner', status)
  BY <1>1, <1>2, <1>8, <1>9, <1>10, <1>11, <1>12, GrowsFit DEF Hands
<1>14. g = generation => Leads(d, runner', status, errors)
  BY <1>1, <1>2, <1>9, <1>11, <1>12, <1>13, GrowsLead DEF Fits
<1>15. /\ RowsInv(runner', status)
       /\ \A w \in Task : runner[w] # "idle" => runner'[w] = runner[w]
       /\ \A w \in S : runner[w] = "idle"
  BY <1>1, <1>2, <1>9, <1>11, GrownRunners
<1>16. ASSUME NEW h \in Coordinator \ {g}
       PROVE  Spares(h) /\ Hands(d) \cap Hands(sched[h]) = {}
  <2>1. /\ Hands(sched[h]) \subseteq Task /\ \A w \in Hands(sched[h]) : runner[w] # "idle"
        /\ Hands(c) \cap Hands(sched[h]) = {}
    BY GoodParts DEF Fits, Scheduler, Hands, Task, LimitsInv, c
  <2>2. Hands(d) = Hands(c) \cup S
    BY <1>6, <1>9, <1>10 DEF Hands
  <2>3. status' = status
    BY <1>1 DEF vars, workerVars
  <2> QED BY <1>15, <2>1, <2>2, <2>3 DEF Spares
<1>17. /\ status' = status /\ errors' = errors /\ generation' = generation /\ lost' \in 0 .. MaxLost
  BY <1>1 DEF vars, runVars, workerVars, LimitsInv, MemoryOK
<1> QED BY <1>1, <1>13, <1>14, <1>15, <1>16, <1>17, SystemKeeps

-----------------------------------------------------------------------------
(* Steps that cancel the workers at work, all at once.                        *)

LEMMA MaybeSwept ==
  ASSUME NEW run, NEW st, RowsInv(run, st), NEW st2 \in {st, Swept(st)}
  PROVE  /\ RowsInv(run, st2)
         /\ \A w \in Worker : /\ st[w] = "succeeded" => st2[w] = "succeeded"
                              /\ st[w] \notin Active => st2[w] \notin Active
                              /\ st[w] = "none" => st2[w] = "none"
<1>1. CASE st2 = st
  BY <1>1
<1>2. CASE st2 = Swept(st)
  <2>1. RowsInv(run, Swept(st))
    BY SweptRows
  <2>2. \A w \in Worker : /\ st[w] = "succeeded" => Swept(st)[w] = "succeeded"
                          /\ st[w] \notin Active => Swept(st)[w] \notin Active
                          /\ st[w] = "none" => Swept(st)[w] = "none"
    BY SweptRows
  <2> QED BY <1>2, <2>1, <2>2
<1> QED BY <1>1, <1>2

LEMMA SweptFit ==
  ASSUME NEW run, NEW st, RowsInv(run, st), NEW st2 \in {st, Swept(st)},
         NEW c, Fits(c, run, st)
  PROVE  Fits(c, run, st2)
<1>1. Hands(c) \subseteq Worker
  BY DEF Fits, Sound, Scheduler, Hands, Worker
<1>2. \A w \in Hands(c) : /\ run[w] = run[w]
                          /\ st[w] = "succeeded" => st2[w] = "succeeded"
                          /\ st[w] \notin Active => st2[w] \notin Active
  <2>1. \A w \in Worker : /\ st[w] = "succeeded" => st2[w] = "succeeded"
                          /\ st[w] \notin Active => st2[w] \notin Active
    BY MaybeSwept
  <2> QED BY <1>1, <2>1
<1> QED BY <1>2, FitsElsewhere

LEMMA SweptLead ==
  ASSUME NEW run, NEW st, NEW errs, RowsInv(run, st), NEW st2 \in {st, Swept(st)},
         NEW c, Sound(c), Leads(c, run, st, errs)
  PROVE  Leads(c, run, st2, errs)
BY SweptLeads

LEMMA SweepStep ==
  ASSUME LimitsInv, TypeOK', lost' \in 0 .. MaxLost, runner' = runner, errors' = errors,
         generation' = generation, status' \in {status, Swept(status)},
         NEW g \in Coordinator, g = generation,
         NEW d, Empties(d) \/ Follows(sched[g], d), sched' = [sched EXCEPT ![g] = d]
  PROVE  LimitsInv'
<1> DEFINE c == sched[g]
           st == status
           st2 == status'
<1>1. /\ Fits(c, runner, st) /\ Leads(c, runner, st, errors) /\ Sound(c)
      /\ RowsInv(runner, st) /\ errors \in Nat /\ st2 \in {st, Swept(st)}
  BY GoodParts
<1>2. Empties(d) \/ Follows(c, d)
  OBVIOUS
<1>3. \A h \in Coordinator \ {g} : Hands(c) \cap Hands(sched[h]) = {}
  BY DEF LimitsInv
<1>4. \A h \in Coordinator : Hands(sched[h]) \subseteq Worker
  BY GoodParts DEF Scheduler, Hands, Worker
<1>5. /\ RowsInv(runner, st2)
      /\ \A w \in Worker : /\ st[w] = "succeeded" => st2[w] = "succeeded"
                           /\ st[w] \notin Active => st2[w] \notin Active
  BY <1>1, MaybeSwept
<1>6. \A h \in Coordinator \ {g} : Spares(h)
  BY <1>4, <1>5 DEF Spares
<1> HIDE DEF c, st, st2
<1>7. Fits(c, runner, st2) /\ Leads(c, runner, st2, errors)
  BY <1>1, SweptFit, SweptLead
<1>8. /\ Fits(d, runner, st2) /\ Leads(d, runner, st2, errors)
      /\ Hands(d) \subseteq Hands(c)
  <2>1. CASE Empties(d)
    <3>1. Fits(d, runner, st2)
      BY <2>1, EmptyFits DEF Empties, AbortsFit, Looping
    <3>2. Leads(d, runner, st2, errors)
      BY <1>1, <1>5, <1>7, <2>1, EmptyLeads DEF Empties, Starting, Looping
    <3> QED BY <2>1, <3>1, <3>2 DEF Empties, Hands
  <2>2. CASE Follows(c, d)
    <3>1. Fits(d, runner, st2)
      BY <1>7, <2>2, KeepsFit
    <3>2. Leads(d, runner, st2, errors)
      BY <1>7, <2>2, KeepsLead
    <3> QED BY <2>2, <3>1, <3>2 DEF Follows, SameHands, Hands
  <2> QED BY <1>2, <2>1, <2>2
<1>9. /\ RowsInv(runner', status') /\ Fits(d, runner', status')
      /\ Leads(d, runner', status', errors')
  BY <1>5, <1>8 DEF st2
<1>10. \A h \in Coordinator \ {g} : Spares(h) /\ Hands(d) \cap Hands(sched[h]) = {}
  BY <1>3, <1>6, <1>8
<1> QED BY <1>9, <1>10, SystemKeeps

LEMMA EnvironmentStep ==
  ASSUME LimitsInv, TypeOK', Environment
  PROVE  LimitsInv'
<1>1. /\ sched' = sched /\ runner' = runner /\ lost' = lost
  BY DEF Environment, localVars
<1>2. errors' = errors /\ generation' = generation /\ status' \in {status, Swept(status)}
  BY DEF Environment, BeginDeepScan, CompleteScan, ReachDeadline, FailScan, CancelScan,
         CancelActiveWorkers, Swept, runVars, workerVars
<1>3. RowsInv(runner, status)
  BY DEF LimitsInv
<1> DEFINE st2 == status'
<1>4. st2 \in {status, Swept(status)}
  BY <1>2
<1> HIDE DEF st2
<1>5. /\ RowsInv(runner, st2)
      /\ \A w \in Worker : status[w] = "none" => st2[w] = "none"
  BY <1>3, <1>4, MaybeSwept
<1>6. ASSUME NEW g \in Coordinator
      PROVE  /\ Fits(sched[g], runner, st2)
             /\ g = generation => Leads(sched[g], runner, st2, errors)
  <2> DEFINE c == sched[g]
  <2>1. /\ Fits(c, runner, status) /\ Sound(c)
        /\ g = generation => Leads(c, runner, status, errors)
    BY GoodParts
  <2> HIDE DEF c
  <2>2. Fits(c, runner, st2)
    BY <1>3, <1>4, <2>1, SweptFit
  <2>3. g = generation => Leads(c, runner, st2, errors)
    BY <1>3, <1>4, <2>1, SweptLead
  <2> QED BY <2>2, <2>3 DEF c
<1>7. generation = 1 => Untouched(st2, errors)
  BY <1>5 DEF LimitsInv, Untouched, Task, Worker
<1> QED BY <1>1, <1>2, <1>5, <1>6, <1>7 DEF LimitsInv, MemoryOK, st2

LEMMA OnlyTheCurrent ==
  ASSUME NEW g \in Coordinator, CurrentCoordinator(g)
  PROVE  g = generation
BY ConfigAssumption DEF Coordinator, CurrentCoordinator, NoGeneration

LEMMA FinishStep ==
  ASSUME LimitsInv, TypeOK', NEW g \in Coordinator, Finish(g)
  PROVE  LimitsInv'
<1> DEFINE c == sched[g]
           to == IF c.pc = "finishing" THEN "refinishing" ELSE "catching"
<1>1. /\ lost' \in 0 .. MaxLost /\ "succeeded" \in Result /\ to \in Leaving
      /\ c \in Scheduler /\ AbortsFit(c)
  BY GoodParts, CoordinatorAssumption
     DEF Finish, LimitsInv, MemoryOK, Result, RunStatus, Leaving
<1>2. /\ runner' = runner
      /\ sched' = [sched EXCEPT ![g] = Ended(c, "succeeded")]
            \/ sched' = [sched EXCEPT ![g] = [c EXCEPT !.pc = to]]
  BY DEF Finish, Step, AfterFinish
<1>3. UNCHANGED vars \/ FinishRequest(g)
  BY DEF Finish
<1>4. CASE UNCHANGED vars
  <2>1. Step(g, Ended(c, "succeeded")) \/ Step(g, [c EXCEPT !.pc = to])
    BY <1>2 DEF Step
  <2> HIDE DEF to
  <2> QED BY <1>1, <1>4, <2>1, LeavingStep
<1>5. CASE FinishRequest(g)
  <2>1. g = generation
    BY <1>5, OnlyTheCurrent DEF FinishRequest, FinishDeepScan
  <2>2. /\ errors' = errors /\ generation' = generation /\ status' \in {status, Swept(status)}
    BY <1>5 DEF FinishRequest, FinishDeepScan, CancelActiveWorkers, Swept
  <2>3. ASSUME NEW d, d = Ended(c, "succeeded") PROVE Empties(d)
    <3> HIDE DEF c
    <3> QED BY <1>1, <2>3, EndedRecord
  <2>4. ASSUME NEW d, d = [c EXCEPT !.pc = to] PROVE Follows(c, d)
    <3> HIDE DEF c, to
    <3> QED BY <1>1, <2>4, LeavingRecord
  <2> HIDE DEF to
  <2>5. PICK d : /\ sched' = [sched EXCEPT ![g] = d]
                 /\ d = Ended(c, "succeeded") \/ d = [c EXCEPT !.pc = to]
    BY <1>2
  <2>6. Empties(d) \/ Follows(c, d)
    BY <2>3, <2>4, <2>5
  <2> QED BY <1>1, <1>2, <2>1, <2>2, <2>5, <2>6, SweepStep
<1> QED BY <1>3, <1>4, <1>5

LEMMA FailStep ==
  ASSUME LimitsInv, TypeOK', NEW g \in Coordinator, Fail(g)
  PROVE  LimitsInv'
<1> DEFINE d == Ended(sched[g], "failed")
<1>1. /\ lost' \in 0 .. MaxLost /\ "failed" \in Result /\ sched[g] \in Scheduler
  BY GoodParts, CoordinatorAssumption DEF Fail, LimitsInv, MemoryOK, Result, RunStatus
<1>2. Step(g, d) /\ (UNCHANGED vars \/ FailDeepScan(g, "failed"))
  BY DEF Fail
<1>3. CASE UNCHANGED vars
  BY <1>1, <1>2, <1>3, LeavingStep
<1>4. CASE FailDeepScan(g, "failed")
  <2>1. g = generation
    BY <1>4, OnlyTheCurrent DEF FailDeepScan
  <2>2. /\ errors' = errors /\ generation' = generation /\ status' \in {status, Swept(status)}
    BY <1>4 DEF FailDeepScan, CancelActiveWorkers, Swept
  <2>3. Empties(d)
    BY <1>1, EndedRecord
  <2>4. sched' = [sched EXCEPT ![g] = d] /\ runner' = runner
    BY <1>2 DEF Step
  <2> HIDE DEF d
  <2> QED BY <1>1, <2>1, <2>2, <2>3, <2>4, SweepStep
<1> QED BY <1>2, <1>3, <1>4

-----------------------------------------------------------------------------
(* The runners.                                                               *)

\* WithoutHead, of a tail.
Rest(t, w) == IF t # <<>> /\ Head(t) = w THEN Tail(t) ELSE t

\* The runner of w is at work, and has no other request in the tail.
AtTurn(c, w, run) ==
    /\ run[w] # "settled"
    /\ \A i \in DOMAIN Rest(c.tail, w) : Rest(c.tail, w)[i] # w

LEMMA RestFacts ==
  ASSUME NEW t \in Seq(Task), \A i, j \in DOMAIN t : t[i] = t[j] => i = j,
         NEW w, NEW u, u = Rest(t, w)
  PROVE  /\ u \in Seq(Task)
         /\ \A i \in DOMAIN u : \E j \in DOMAIN t : u[i] = t[j]
         /\ \A i, j \in DOMAIN u : u[i] = u[j] => i = j
         /\ t # <<>> /\ Head(t) = w => \A i \in DOMAIN u : u[i] # w
<1>1. CASE t # <<>> /\ Head(t) = w
  <2>1. u = Tail(t)
    BY <1>1 DEF Rest
  <2>2. /\ u \in Seq(Task) /\ Len(u) = Len(t) - 1 /\ Head(t) = t[1]
        /\ \A i \in 1 .. Len(u) : u[i] = t[i + 1]
    BY <1>1, <2>1, HeadTailProperties, ElementOfSeq
  <2>3. Len(t) \in Nat \ {0} /\ DOMAIN t = 1 .. Len(t) /\ DOMAIN u = 1 .. Len(u)
    BY <1>1, <2>2, EmptySeq, LenProperties
  <2> DEFINE n == Len(t)
  <2>4. n \in Nat \ {0} /\ DOMAIN t = 1 .. n /\ DOMAIN u = 1 .. (n - 1)
    BY <2>2, <2>3
  <2> HIDE DEF n
  <2>5. ASSUME NEW i \in DOMAIN u
        PROVE  i + 1 \in DOMAIN t /\ u[i] = t[i + 1] /\ u[i] # w
    <3>1. i + 1 \in DOMAIN t /\ i + 1 # 1 /\ 1 \in DOMAIN t
      BY <2>4
    <3>2. u[i] = t[i + 1]
      BY <2>2, <2>3
    <3>3. t[1] = w
      BY <1>1, <2>2
    <3> QED BY <3>1, <3>2, <3>3
  <2>6. ASSUME NEW i \in DOMAIN u, NEW j \in DOMAIN u, u[i] = u[j] PROVE i = j
    <3>1. i + 1 = j + 1
      BY <2>5, <2>6
    <3> QED BY <2>4, <3>1
  <2> QED BY <2>2, <2>5, <2>6
<1>2. CASE ~(t # <<>> /\ Head(t) = w)
  BY <1>2 DEF Rest
<1> QED BY <1>1, <1>2

LEMMA WithTheEnd ==
  ASSUME NEW u \in Seq(Task), NEW w \in Task, \A i \in DOMAIN u : u[i] # w,
         \A i, j \in DOMAIN u : u[i] = u[j] => i = j, NEW v, v = Append(u, w)
  PROVE  /\ v \in Seq(Task)
         /\ \A i \in DOMAIN v : v[i] = w \/ (v[i] # w /\ i \in DOMAIN u /\ v[i] = u[i])
         /\ \A i, j \in DOMAIN v : v[i] = v[j] => i = j
<1>1. /\ v \in Seq(Task) /\ Len(v) = Len(u) + 1
      /\ \A i \in 1 .. Len(u) : v[i] = u[i]
      /\ v[Len(u) + 1] = w
  BY AppendProperties
<1>2. Len(u) \in Nat /\ DOMAIN u = 1 .. Len(u) /\ DOMAIN v = 1 .. Len(v)
  BY <1>1, LenProperties
<1> DEFINE n == Len(u)
<1>3. /\ n \in Nat /\ DOMAIN u = 1 .. n /\ DOMAIN v = 1 .. (n + 1)
      /\ v[n + 1] = w /\ \A i \in 1 .. n : v[i] = u[i]
  BY <1>1, <1>2
<1> HIDE DEF n
<1>4. \A i \in DOMAIN v : (i = n + 1 /\ v[i] = w) \/ (i \in DOMAIN u /\ v[i] = u[i])
  BY <1>3
<1> QED BY <1>1, <1>3, <1>4

\* What is left in the tail once its first request is made.
LEMMA TailIsMoved ==
  ASSUME NEW run, NEW st, NEW c, Fits(c, run, st), NEW w \in Task, AtTurn(c, w, run),
         NEW run2, NEW x, run2[w] = x, NEW d, d \in Scheduler,
         d.tail = IF x \in Request THEN Append(Rest(c.tail, w), w) ELSE Rest(c.tail, w)
  PROVE  TailMoves(c, d, w, run2)
<1> DEFINE t == c.tail
           u == Rest(t, w)
           v == Append(u, w)
<1>1. /\ t \in Seq(Task) /\ \A i, j \in DOMAIN t : t[i] = t[j] => i = j
  BY DEF Fits, Sound, Scheduler, TailFits
<1>2. /\ u = Rest(t, w) /\ v = Append(u, w)
      /\ \A i \in DOMAIN u : u[i] # w
      /\ d.tail = IF x \in Request THEN v ELSE u
  BY DEF AtTurn
<1> HIDE DEF t, u, v
<1>3. /\ u \in Seq(Task)
      /\ \A i \in DOMAIN u : \E j \in DOMAIN t : u[i] = t[j]
      /\ \A i, j \in DOMAIN u : u[i] = u[j] => i = j
  BY <1>1, <1>2, RestFacts
<1>4. /\ v \in Seq(Task)
      /\ \A i \in DOMAIN v : v[i] = w \/ (v[i] # w /\ i \in DOMAIN u /\ v[i] = u[i])
      /\ \A i, j \in DOMAIN v : v[i] = v[j] => i = j
  BY <1>2, <1>3, WithTheEnd
<1>5. CASE x \in Request
  <2>1. d.tail = v
    BY <1>2, <1>5
  <2>2. ASSUME NEW i \in DOMAIN v
        PROVE  \/ v[i] = w /\ run2[w] \in Request
               \/ v[i] # w /\ \E j \in DOMAIN t : v[i] = t[j]
    BY <1>3, <1>4, <1>5
  <2> QED BY <1>4, <2>1, <2>2 DEF TailMoves, t
<1>6. CASE x \notin Request
  <2>1. d.tail = u
    BY <1>2, <1>6
  <2> QED BY <1>2, <1>3, <2>1 DEF TailMoves, t
<1> QED BY <1>5, <1>6

LEMMA GoesRecord ==
  ASSUME NEW run, NEW st, NEW c, Fits(c, run, st), run \in Runners, NEW w \in Hands(c),
         AtTurn(c, w, run), NEW x \in RunnerStep \ {"idle", "settled"},
         NEW run2, run2 = [run EXCEPT ![w] = x], NEW st2, RowMoves(w, st, st2),
         NEW u, u = IF x \in Request THEN Append(Rest(c.tail, w), w) ELSE Rest(c.tail, w),
         NEW d, d = [c EXCEPT !.tail = u]
  PROVE  Goes(c, d, w, run, run2, st, st2)
<1>1. c \in Scheduler /\ w \in Task
  BY DEF Fits, Sound, Scheduler, Hands, Task
<1>2. u \in Seq(Task)
  <2> DEFINE t == c.tail
             r == Rest(t, w)
  <2>1. /\ t \in Seq(Task) /\ \A i, j \in DOMAIN t : t[i] = t[j] => i = j
    BY DEF Fits, Sound, Scheduler, TailFits
  <2>2. r = Rest(t, w) /\ u = IF x \in Request THEN Append(r, w) ELSE r
    OBVIOUS
  <2> HIDE DEF t, r
  <2>3. r \in Seq(Task)
    BY <2>1, <2>2, RestFacts
  <2>4. Append(r, w) \in Seq(Task)
    BY <1>1, <2>3, AppendProperties
  <2> QED BY <2>2, <2>3, <2>4
<1>3. d \in Scheduler /\ d.tail = u /\ d.settlements = c.settlements
  BY <1>1, <1>2 DEF Scheduler
<1>4. d.deadline = c.deadline
  BY <1>1, Zenon DEF Scheduler
<1>5. SameRest(c, d)
  BY <1>1, <1>4 DEF Scheduler, SameRest
<1>6. run2[w] = x
  BY <1>1 DEF Runners
<1>7. TailMoves(c, d, w, run2)
  BY <1>1, <1>3, <1>6, TailIsMoved
<1> QED BY <1>3, <1>5, <1>7 DEF Goes, AtTurn

LEMMA SettlesRecord ==
  ASSUME NEW run, NEW st, NEW c, Fits(c, run, st), run \in Runners, NEW w \in Hands(c),
         AtTurn(c, w, run), NEW run2, run2 = [run EXCEPT ![w] = "settled"],
         NEW st2, RowMoves(w, st, st2), NEW e \in Answer, e.worker = w,
         e.outcome = "succeeded" => st2[w] = "succeeded",
         w \in Discovery /\ e.outcome # "rejected" =>
             st2[w] \notin Active \/ c.discoveryAbort # "none",
         NEW u, u = Rest(c.tail, w), NEW l, l = Append(c.settlements, e),
         NEW d, d = [c EXCEPT !.tail = u, !.settlements = l]
  PROVE  SettlesWith(c, d, w, run, run2, st, st2, e)
<1>1. c \in Scheduler /\ w \in Task /\ "settled" \notin Request
  BY DEF Fits, Sound, Scheduler, Hands, Task, Request
<1>2. u \in Seq(Task) /\ l \in Seq(Answer)
  <2> DEFINE t == c.tail
  <2>1. /\ t \in Seq(Task) /\ \A i, j \in DOMAIN t : t[i] = t[j] => i = j
        /\ c.settlements \in Seq(Answer) /\ u = Rest(t, w)
    BY DEF Fits, Sound, Scheduler, TailFits
  <2> HIDE DEF t
  <2>2. u \in Seq(Task)
    BY <2>1, RestFacts
  <2> QED BY <2>1, <2>2, AppendProperties
<1>3. d \in Scheduler /\ d.tail = u /\ d.settlements = l
  BY <1>1, <1>2 DEF Scheduler
<1>4. d.deadline = c.deadline
  BY <1>1, Zenon DEF Scheduler
<1>5. SameRest(c, d)
  BY <1>1, <1>4 DEF Scheduler, SameRest
<1>6. run2[w] = "settled"
  BY <1>1 DEF Runners
<1>7. TailMoves(c, d, w, run2)
  BY <1>1, <1>3, <1>6, TailIsMoved
<1> QED BY <1>3, <1>5, <1>7 DEF SettlesWith, AtTurn

-----------------------------------------------------------------------------
(* The whole system, after a step of a runner.                                *)

LEMMA RunnerKeeps ==
  ASSUME LimitsInv, TypeOK', lost' \in 0 .. MaxLost, generation' = generation,
         NEW g \in Coordinator, NEW w \in Hands(sched[g]), NEW x,
         runner' = [runner EXCEPT ![w] = x], RowMoves(w, status, status'),
         NEW d, SameRest(sched[g], d), sched' = [sched EXCEPT ![g] = d],
         RowsInv(runner', status'), Fits(d, runner', status'),
         g = generation => Leads(d, runner', status', errors'),
         g # generation => status' = status /\ errors' = errors
  PROVE  LimitsInv'
<1>1. Hands(d) = Hands(sched[g])
  BY DEF SameRest, Hands
<1>2. ASSUME NEW h \in Coordinator \ {g}
      PROVE  Spares(h) /\ Hands(d) \cap Hands(sched[h]) = {}
  <2>1. Hands(sched[g]) \cap Hands(sched[h]) = {} /\ Hands(sched[h]) \subseteq Task
    BY GoodParts DEF LimitsInv, Scheduler, Hands, Task
  <2>2. \A v \in Hands(sched[h]) : v # w /\ v \in Task /\ v \in Worker
    BY <2>1 DEF Task, Worker
  <2>3. \A v \in Hands(sched[h]) : runner'[v] = runner[v] /\ status'[v] = status[v]
    BY <2>2 DEF RowMoves, LimitsInv, MemoryOK, Runners
  <2> QED BY <1>1, <2>1, <2>3 DEF Spares
<1> QED BY <1>2, SystemKeeps

LEMMA GoesKeeps ==
  ASSUME LimitsInv, TypeOK', lost' \in 0 .. MaxLost, generation' = generation,
         NEW g \in Coordinator, NEW w \in Hands(sched[g]), AtTurn(sched[g], w, runner),
         NEW x \in RunnerStep \ {"idle", "settled"}, GoesTo(g, w, x),
         RowMoves(w, status, status'), errors' <= errors, ~NewlyFailed(w, status, status'),
         g = generation \/ (status' = status /\ errors' = errors)
  PROVE  LimitsInv'
<1> DEFINE c == sched[g]
           u == IF x \in Request THEN Append(Rest(c.tail, w), w) ELSE Rest(c.tail, w)
           d == [c EXCEPT !.tail = u]
           st2 == status'
           run2 == runner'
           errs2 == errors'
<1>1. /\ Fits(c, runner, status) /\ RowsInv(runner, status) /\ errors \in Nat
      /\ g = generation => Leads(c, runner, status, errors)
      /\ runner \in Runners /\ errs2 \in Nat
  BY GoodParts DEF LimitsInv, MemoryOK, TypeOK
<1>2. /\ sched' = [sched EXCEPT ![g] = d]
      /\ run2 = [runner EXCEPT ![w] = x]
      /\ RowMoves(w, status, st2) /\ errs2 <= errors /\ ~NewlyFailed(w, status, st2)
  BY DEF GoesTo, WithoutHead, Rest
<1>3. /\ d = [c EXCEPT !.tail = u] /\ w \in Hands(c) /\ AtTurn(c, w, runner)
      /\ u = IF x \in Request THEN Append(Rest(c.tail, w), w) ELSE Rest(c.tail, w)
  OBVIOUS
<1> HIDE DEF c, u, d, st2, run2, errs2
<1>4. Goes(c, d, w, runner, run2, status, st2)
  BY <1>1, <1>2, <1>3, GoesRecord
<1>5. Fits(d, run2, st2) /\ RowsInv(run2, st2)
  BY <1>1, <1>4, GoesFit
<1>6. g = generation => Leads(d, run2, st2, errs2)
  BY <1>1, <1>2, <1>4, GoesLead
<1>7. SameRest(c, d)
  BY <1>4 DEF Goes
<1> QED BY <1>2, <1>5, <1>6, <1>7, RunnerKeeps DEF st2, run2, errs2, c

LEMMA SettleKeeps ==
  ASSUME LimitsInv, TypeOK', lost' \in 0 .. MaxLost, generation' = generation,
         NEW g \in Coordinator, NEW w \in Hands(sched[g]), AtTurn(sched[g], w, runner),
         NEW o \in Outcome, Settle(g, w, o), RowMoves(w, status, status'),
         o = "succeeded" => status'[w] = "succeeded",
         w \in Discovery /\ o # "rejected" =>
             status'[w] \notin Active \/ sched[g].discoveryAbort # "none",
         NewlyFailed(w, status, status') => o \in {"failed", "rejected"},
         \/ errors' <= errors
         \/ errors' = errors + 1 /\ w \in Discovery /\ o \in {"rejected", "replaced"},
         g = generation \/ (status' = status /\ errors' = errors)
  PROVE  LimitsInv'
<1> DEFINE c == sched[g]
           e == [worker |-> w, outcome |-> o,
                 noNew |-> IF o = "succeeded" /\ w \in Reducer THEN noNew' ELSE 0,
                 errors |-> IF o = "replaced" \/ (o = "succeeded" /\ w \in Reducer)
                            THEN errors' ELSE 0]
           u == Rest(c.tail, w)
           l == Append(c.settlements, e)
           d == [c EXCEPT !.tail = u, !.settlements = l]
           st2 == status'
           run2 == runner'
           errs2 == errors'
<1>1. /\ Fits(c, runner, status) /\ RowsInv(runner, status) /\ errors \in Nat
      /\ g = generation => Leads(c, runner, status, errors)
      /\ runner \in Runners /\ errs2 \in Nat /\ noNew' \in Nat
      /\ w \in Task
  BY GoodParts DEF LimitsInv, MemoryOK, TypeOK, Hands, Scheduler, Task
<1>2. /\ sched' = [sched EXCEPT ![g] = d]
      /\ run2 = [runner EXCEPT ![w] = "settled"]
      /\ RowMoves(w, status, st2)
  BY DEF Settle, WithoutHead, Rest
<1>3. /\ d = [c EXCEPT !.tail = u, !.settlements = l] /\ w \in Hands(c) /\ AtTurn(c, w, runner)
      /\ u = Rest(c.tail, w) /\ l = Append(c.settlements, e)
  OBVIOUS
<1>4. /\ e \in Answer /\ e.worker = w /\ e.outcome = o
      /\ o = "replaced" => e.errors = errs2
  BY <1>1 DEF Answer
<1>5. /\ e.outcome = "succeeded" => st2[w] = "succeeded"
      /\ w \in Discovery /\ e.outcome # "rejected" =>
            st2[w] \notin Active \/ c.discoveryAbort # "none"
  BY <1>4
<1>6. Accounts(w, status, st2, errors, errs2, e)
  BY <1>4 DEF Accounts
<1> HIDE DEF c, e, u, l, d, st2, run2, errs2
<1>7. SettlesWith(c, d, w, runner, run2, status, st2, e)
  BY <1>1, <1>2, <1>3, <1>4, <1>5, SettlesRecord
<1>8. Fits(d, run2, st2) /\ RowsInv(run2, st2)
  BY <1>1, <1>7, SettlesFit
<1>9. g = generation => Leads(d, run2, st2, errs2)
  BY <1>1, <1>6, <1>7, SettlesLead
<1>10. SameRest(c, d)
  BY <1>7 DEF SettlesWith
<1> QED BY <1>2, <1>8, <1>9, <1>10, RunnerKeeps DEF st2, run2, errs2, c

-----------------------------------------------------------------------------
(* What a runner's transaction does to the row of its worker.                 *)

Accepting == {"accept", "acceptAgain", "commit", "commitAgain"}

\* What there is of it to know.
Writes(g, w) ==
    /\ g = generation /\ generation' = generation
    /\ RowMoves(w, status, status')
    /\ errors' <= errors \/ (errors' = errors + 1 /\ w \in Discovery /\ runner[w] = "replace")
    /\ NewlyFailed(w, status, status') => runner[w] \in {"fail", "abandon"}
    /\ runner[w] \in Accepting => status'[w] = "succeeded"
    /\ runner[w] \in {"replace", "fail", "abandon", "cancel"} => status'[w] \notin Active

LEMMA RowIsWritten ==
  ASSUME TypeOK, TypeOK', NEW w \in Task, NEW x, StatusIs(w, x), x # "none",
         status[w] \in Active \cup {"none"}
  PROVE  RowMoves(w, status, status') /\ status'[w] = x
<1>1. w \in Worker /\ status \in Rows /\ status' \in Rows
  BY DEF TypeOK, Rows, Task, Worker
<1> QED BY <1>1 DEF StatusIs, RowMoves, Rows

LEMMA TransactionWrites ==
  ASSUME TypeOK, TypeOK', NEW g \in Coordinator, NEW w \in Task, Transaction(g, w)
  PROVE  Writes(g, w)
<1>0. errors \in Nat /\ errors' \in Nat
  BY DEF TypeOK
<1>1. CASE w \in Discovery /\ runner[w] = "queue" /\ InsertWorker(g, w, "queued", 1, "none")
  <2>1. g = generation
    BY <1>1, OnlyTheCurrent DEF InsertWorker
  <2>2. RowMoves(w, status, status') /\ status'[w] = "queued"
    BY <1>1, RowIsWritten DEF InsertWorker
  <2>3. errors' = errors /\ generation' = generation
    BY <1>1 DEF InsertWorker
  <2> QED BY <1>0, <1>1, <2>1, <2>2, <2>3 DEF Writes, NewlyFailed, Accepting
<1>2. CASE /\ w \in Discovery /\ runner[w] \in {"accept", "acceptAgain"}
           /\ AcceptDiscovery(g, w, attempt[w])
  <2>1. g = generation
    BY <1>2, OnlyTheCurrent DEF AcceptDiscovery
  <2>2. RowMoves(w, status, status') /\ status'[w] = "succeeded"
    BY <1>2, RowIsWritten DEF AcceptDiscovery, Active
  <2>3. errors' = 0 /\ generation' = generation
    BY <1>2 DEF AcceptDiscovery
  <2> QED BY <1>0, <1>2, <2>1, <2>2, <2>3 DEF Writes, NewlyFailed, Accepting
<1>3. CASE /\ w \in Discovery /\ runner[w] = "replace"
           /\ CancelWorker(g, w, attempt[w], "message", TRUE)
  <2>1. g = generation
    BY <1>3, OnlyTheCurrent DEF CancelWorker
  <2>2. RowMoves(w, status, status') /\ status'[w] = "canceled"
    BY <1>3, RowIsWritten DEF CancelWorker
  <2>3. errors' = errors + 1 /\ generation' = generation
    BY <1>3 DEF CancelWorker
  <2> QED BY <1>0, <1>3, <2>1, <2>2, <2>3 DEF Writes, NewlyFailed, Accepting, Active
<1>4. CASE w \in Reducer /\ runner[w] = "claim" /\ ClaimDedup(g, w, sched[g].held)
  <2>1. g = generation
    BY <1>4, OnlyTheCurrent DEF ClaimDedup
  <2>2. RowMoves(w, status, status') /\ status'[w] = "queued"
    BY <1>4, RowIsWritten DEF ClaimDedup
  <2>3. errors' = errors /\ generation' = generation
    BY <1>4 DEF ClaimDedup
  <2> QED BY <1>0, <1>4, <2>1, <2>2, <2>3 DEF Writes, NewlyFailed, Accepting
<1>5. CASE /\ w \in Reducer /\ runner[w] \in {"commit", "commitAgain"}
           /\ \E newFindings \in BOOLEAN : CommitDedup(g, w, newFindings)
  <2>1. g = generation
    BY <1>5, OnlyTheCurrent DEF CommitDedup
  <2>2. RowMoves(w, status, status') /\ status'[w] = "succeeded"
    BY <1>5, RowIsWritten DEF CommitDedup
  <2>3. errors' = errors /\ generation' = generation
    BY <1>5 DEF CommitDedup
  <2> QED BY <1>0, <1>5, <2>1, <2>2, <2>3 DEF Writes, NewlyFailed, Accepting
<1>6. CASE /\ runner[w] \in {"start", "retry"}
           /\ \E a \in Nat, e \in {"none", "message"} : UpdateWorker(g, w, "running", a, e)
  <2>1. g = generation
    BY <1>6, OnlyTheCurrent DEF UpdateWorker
  <2>2. RowMoves(w, status, status') /\ status'[w] = "running"
    BY <1>6, RowIsWritten DEF UpdateWorker
  <2>3. errors' = errors /\ generation' = generation
    BY <1>6 DEF UpdateWorker, runVars
  <2> QED BY <1>0, <1>6, <2>1, <2>2, <2>3 DEF Writes, NewlyFailed, Accepting
<1>7. CASE runner[w] \in {"fail", "abandon"} /\ FailWorker(g, w, attempt[w], "message")
  <2>1. g = generation
    BY <1>7, OnlyTheCurrent DEF FailWorker
  <2>2. RowMoves(w, status, status') /\ status'[w] = "failed"
    BY <1>7, RowIsWritten DEF FailWorker
  <2>3. errors' = errors /\ generation' = generation
    BY <1>7 DEF FailWorker
  <2> QED BY <1>0, <1>7, <2>1, <2>2, <2>3 DEF Writes, NewlyFailed, Accepting, Active
<1>8. CASE /\ runner[w] = "cancel"
           /\ CancelWorker(g, w, CancelAttempt(w), CancelMessage(g, w), FALSE)
  <2>1. g = generation
    BY <1>8, OnlyTheCurrent DEF CancelWorker
  <2>2. RowMoves(w, status, status') /\ status'[w] = "canceled"
    BY <1>8, RowIsWritten DEF CancelWorker
  <2>3. errors' = errors /\ generation' = generation
    BY <1>8 DEF CancelWorker
  <2> QED BY <1>0, <1>8, <2>1, <2>2, <2>3 DEF Writes, NewlyFailed, Accepting, Active
<1>9. attempt[w] \in Nat /\ NextAttempt(w) \in Nat
  BY ConfigAssumption DEF TypeOK, Task, Worker, NextAttempt
<1> QED
  BY <1>1, <1>2, <1>3, <1>4, <1>5, <1>6, <1>7, <1>8, <1>9
     DEF Transaction, DiscoveryTransaction, ReducerTransaction

LEMMA RepeatWrites ==
  ASSUME TypeOK, NEW g \in Coordinator, NEW w \in Task, Repeats(g, w), UNCHANGED vars
  PROVE  Writes(g, w)
<1>1. g = generation
  BY OnlyTheCurrent DEF Repeats
<1>2. status' = status /\ errors' = errors /\ generation' = generation /\ errors \in Nat
      /\ status \in Rows
  BY DEF vars, runVars, workerVars, TypeOK, Rows
<1>3. \/ runner[w] \in Accepting /\ status[w] = "succeeded"
      \/ runner[w] = "cancel" /\ status[w] = "canceled"
  BY DEF Repeats, Accepting
<1> QED BY <1>1, <1>2, <1>3 DEF Writes, RowMoves, NewlyFailed, Accepting, Active

LEMMA NothingIsWritten ==
  ASSUME TypeOK, NEW w \in Task, UNCHANGED vars
  PROVE  /\ RowMoves(w, status, status') /\ ~NewlyFailed(w, status, status')
         /\ status' = status /\ errors' = errors /\ errors' <= errors
         /\ generation' = generation
BY DEF vars, runVars, workerVars, TypeOK, Rows, RowMoves, NewlyFailed

LEMMA RestLeavesTheHead ==
  ASSUME NEW t \in Seq(Task), \A i, j \in DOMAIN t : t[i] = t[j] => i = j,
         t # <<>>, NEW u, u = Rest(t, Head(t))
  PROVE  \A i \in DOMAIN u : u[i] # Head(t)
<1> DEFINE w == Head(t)
<1>1. u = Rest(t, w) /\ t # <<>> /\ Head(t) = w
  OBVIOUS
<1> HIDE DEF w
<1>2. \A i \in DOMAIN u : u[i] # w
  BY <1>1, RestFacts
<1> QED BY <1>2 DEF w

\* Whose request is next, or who makes none, has its turn.
LEMMA TurnsAreTaken ==
  ASSUME LimitsInv, NEW g \in Coordinator, NEW w \in Hands(sched[g]),
         IsNext(g, w) \/ runner[w] \in {"prepare", "run", "sleep"}
  PROVE  AtTurn(sched[g], w, runner)
<1> DEFINE t == sched[g].tail
           u == Rest(t, w)
<1>1. /\ t \in Seq(Task) /\ \A i, j \in DOMAIN t : t[i] = t[j] => i = j
      /\ \A i \in DOMAIN t : runner[t[i]] \in Request
  BY GoodParts DEF Scheduler, Fits, TailFits
<1>2. u = Rest(t, w)
  OBVIOUS
<1>6. IsNext(g, w) => t # <<>> /\ Head(t) = w
  BY DEF IsNext
<1> HIDE DEF t, u
<1>7. /\ t \in Seq(Task) /\ \A i, j \in DOMAIN t : t[i] = t[j] => i = j
  BY <1>1
<1>3. /\ \A i \in DOMAIN u : \E j \in DOMAIN t : u[i] = t[j]
      /\ IsNext(g, w) => \A i \in DOMAIN u : u[i] # w
  <2>1. \A i \in DOMAIN u : \E j \in DOMAIN t : u[i] = t[j]
    BY <1>2, <1>7, RestFacts
  <2>2. ASSUME IsNext(g, w) PROVE \A i \in DOMAIN u : u[i] # w
    <3>1. t # <<>> /\ Head(t) = w
      BY <1>6, <2>2
    <3>2. u = Rest(t, Head(t))
      BY <1>2, <3>1
    <3>3. \A i \in DOMAIN u : u[i] # Head(t)
      BY <1>7, <3>1, <3>2, RestLeavesTheHead
    <3> QED BY <3>1, <3>3
  <2> QED BY <2>1, <2>2
<1>4. CASE IsNext(g, w)
  <2>1. 1 \in DOMAIN t /\ t[1] = w
    BY <1>1, <1>4, <1>6, EmptySeq, LenProperties, ElementOfSeq, HeadTailProperties
  <2>2. runner[w] # "settled"
    BY <1>1, <2>1 DEF Request
  <2> QED BY <1>3, <1>4, <2>2 DEF AtTurn, t, u
<1>5. CASE runner[w] \in {"prepare", "run", "sleep"}
  <2>1. runner[w] \notin Request /\ runner[w] # "settled"
    BY <1>5 DEF Request
  <2>2. \A i \in DOMAIN u : u[i] # w
    BY <1>1, <1>3, <2>1
  <2> QED BY <2>1, <2>2 DEF AtTurn, t, u
<1> QED BY <1>4, <1>5

\* A request that was made, and answered.
LEMMA AnsweredKeeps ==
  ASSUME LimitsInv, TypeOK', lost' \in 0 .. MaxLost, NEW g \in Coordinator,
         NEW w \in Hands(sched[g]), AtTurn(sched[g], w, runner), Writes(g, w), Answered(g, w)
  PROVE  LimitsInv'
<1>1. /\ {"start", "cancel", "run", "sleep"} \subseteq RunnerStep \ {"idle", "settled"}
      /\ {"succeeded", "replaced", "failed", "rejected", "canceled"} \subseteq Outcome
  BY DEF RunnerStep, Request, Outcome
<1>2. /\ g = generation /\ generation' = generation /\ RowMoves(w, status, status')
      /\ errors' <= errors \/ (errors' = errors + 1 /\ w \in Discovery /\ runner[w] = "replace")
      /\ NewlyFailed(w, status, status') => runner[w] \in {"fail", "abandon"}
      /\ runner[w] \in Accepting => status'[w] = "succeeded"
      /\ runner[w] \in {"replace", "fail", "abandon", "cancel"} => status'[w] \notin Active
  BY DEF Writes
<1>3. w \in Discovery => w \notin Reducer
  BY WorkersAssumption
<1>4. ASSUME NEW x \in {"start", "cancel", "run", "sleep"}, GoesTo(g, w, x),
             runner[w] \in {"queue", "claim", "start", "retry"}
      PROVE  LimitsInv'
  BY <1>1, <1>2, <1>4, GoesKeeps
<1>5. CASE runner[w] \in {"queue", "claim"} /\ GoesTo(g, w, UnlessAborted(g, w, "start"))
  <2>1. UnlessAborted(g, w, "start") \in {"start", "cancel"}
    BY DEF UnlessAborted
  <2> QED BY <1>4, <1>5, <2>1
<1>6. CASE runner[w] \in Accepting /\ Settle(g, w, "succeeded")
  <2>1. status'[w] = "succeeded" /\ status'[w] \notin Active
    BY <1>2, <1>6 DEF Active
  <2>2. errors' <= errors /\ ~NewlyFailed(w, status, status')
    BY <1>2, <1>6 DEF Accepting
  <2> QED BY <1>1, <1>2, <1>6, <2>1, <2>2, SettleKeeps
<1>7. CASE runner[w] = "replace" /\ Settle(g, w, "replaced")
  <2>1. ~NewlyFailed(w, status, status') /\ status'[w] \notin Active
    BY <1>2, <1>7
  <2> QED BY <1>1, <1>2, <1>7, <2>1, SettleKeeps
<1>8. CASE runner[w] = "fail" /\ Settle(g, w, "failed")
  <2>1. status'[w] \notin Active /\ errors' <= errors
    BY <1>2, <1>8
  <2> QED BY <1>1, <1>2, <1>8, <2>1, SettleKeeps
<1>9. CASE runner[w] = "abandon" /\ Settle(g, w, IF w \in Discovery THEN "failed" ELSE "rejected")
  <2>1. status'[w] \notin Active /\ errors' <= errors
    BY <1>2, <1>9
  <2>2. PICK o \in {"failed", "rejected"} : Settle(g, w, o)
    BY <1>9
  <2> QED BY <1>1, <1>2, <2>1, <2>2, SettleKeeps
<1>10. CASE runner[w] = "cancel" /\ Settle(g, w, IF w \in Discovery THEN "canceled" ELSE "rejected")
  <2>1. status'[w] \notin Active /\ errors' <= errors /\ ~NewlyFailed(w, status, status')
    BY <1>2, <1>10
  <2>2. PICK o \in {"canceled", "rejected"} : Settle(g, w, o)
    BY <1>10
  <2> QED BY <1>1, <1>2, <2>1, <2>2, SettleKeeps
<1> QED BY <1>4, <1>5, <1>6, <1>7, <1>8, <1>9, <1>10 DEF Answered, Accepting

\* A request that was made, or not, and failed.
LEMMA RejectedKeeps ==
  ASSUME LimitsInv, TypeOK', lost' \in 0 .. MaxLost, NEW g \in Coordinator,
         NEW w \in Hands(sched[g]), w \in Task, AtTurn(sched[g], w, runner),
         Writes(g, w) \/ UNCHANGED vars, Rejected(g, w)
  PROVE  LimitsInv'
<1>1. {"rejected", "canceled"} \subseteq Outcome /\ TypeOK
  BY DEF Outcome, LimitsInv
<1>2. /\ generation' = generation /\ RowMoves(w, status, status')
      /\ errors' <= errors \/ (errors' = errors + 1 /\ w \in Discovery /\ runner[w] = "replace")
      /\ NewlyFailed(w, status, status') => runner[w] \in {"fail", "abandon"}
      /\ g = generation \/ (status' = status /\ errors' = errors)
  BY <1>1, NothingIsWritten DEF Writes
<1>3. CASE Settle(g, w, "rejected")
  BY <1>1, <1>2, <1>3, SettleKeeps
<1>4. CASE Settle(g, w, "canceled") /\ runner[w] \in {"accept", "acceptAgain"} /\ Aborted(g, w)
  <2>1. errors' <= errors /\ ~NewlyFailed(w, status, status')
    BY <1>2, <1>4
  <2>2. w \in Discovery => sched[g].discoveryAbort # "none"
    BY <1>4 DEF Aborted, AbortedWith
  <2> QED BY <1>1, <1>2, <1>4, <2>1, <2>2, SettleKeeps
<1> QED BY <1>3, <1>4 DEF Rejected

\* A runner that makes no request.
LEMMA LocalKeeps ==
  ASSUME LimitsInv, TypeOK', lost' \in 0 .. MaxLost, NEW g \in Coordinator,
         NEW w \in Hands(sched[g]), w \in Task, AtTurn(sched[g], w, runner), UNCHANGED vars,
         \/ \E x \in RunnerStep \ {"idle", "settled"} : GoesTo(g, w, x)
         \/ Settle(g, w, "rejected")
  PROVE  LimitsInv'
<1>1. "rejected" \in Outcome /\ TypeOK
  BY DEF Outcome, LimitsInv
<1>2. /\ RowMoves(w, status, status') /\ ~NewlyFailed(w, status, status')
      /\ status' = status /\ errors' = errors /\ errors' <= errors
      /\ generation' = generation
  BY <1>1, NothingIsWritten
<1>3. ASSUME NEW x \in RunnerStep \ {"idle", "settled"}, GoesTo(g, w, x) PROVE LimitsInv'
  BY <1>2, <1>3, GoesKeeps
<1>4. CASE Settle(g, w, "rejected")
  BY <1>1, <1>2, <1>4, SettleKeeps
<1> QED BY <1>3, <1>4

LEMMA RunnerStepKeeps ==
  ASSUME LimitsInv, TypeOK', NEW g \in Coordinator, NEW w \in Task, RunnerNext(g, w)
  PROVE  LimitsInv'
<1>1. w \in Hands(sched[g]) /\ TypeOK /\ lost \in 0 .. MaxLost
  BY DEF RunnerNext, Owned, Hands, LimitsInv, MemoryOK
<1>2. /\ Request \subseteq RunnerStep \ {"idle", "settled"}
      /\ {"queue", "claim", "cancel", "start", "acceptAgain", "commitAgain"} \subseteq Request
  BY DEF Request, RunnerStep
<1>3. CASE Prepare(g, w)
  <2>1. AtTurn(sched[g], w, runner) /\ lost' \in 0 .. MaxLost /\ UNCHANGED vars
    BY <1>1, <1>3, TurnsAreTaken DEF Prepare
  <2>2. \/ \E x \in RunnerStep \ {"idle", "settled"} : GoesTo(g, w, x)
        \/ Settle(g, w, "rejected")
    BY <1>2, <1>3 DEF Prepare
  <2> QED BY <1>1, <2>1, <2>2, LocalKeeps
<1>4. CASE MakeRequest(g, w)
  <2>1. AtTurn(sched[g], w, runner) /\ lost' \in 0 .. MaxLost
    BY <1>1, <1>4, TurnsAreTaken DEF MakeRequest
  <2>2. \/ (Transaction(g, w) \/ (Repeats(g, w) /\ UNCHANGED vars)) /\ Answered(g, w)
        \/ (Transaction(g, w) \/ UNCHANGED vars) /\ Rejected(g, w)
    BY <1>4 DEF MakeRequest
  <2>3. Transaction(g, w) \/ (Repeats(g, w) /\ UNCHANGED vars) => Writes(g, w)
    BY <1>1, TransactionWrites, RepeatWrites
  <2> QED BY <1>1, <2>1, <2>2, <2>3, AnsweredKeeps, RejectedKeeps
<1>5. CASE LoseAnswer(g, w)
  <2>1. AtTurn(sched[g], w, runner) /\ lost' \in 0 .. MaxLost
    BY <1>1, <1>5, TurnsAreTaken, CoordinatorAssumption DEF LoseAnswer
  <2>2. Writes(g, w) \/ UNCHANGED vars
    BY <1>1, <1>5, TransactionWrites DEF LoseAnswer
  <2>3. CASE Rejected(g, w)
    BY <1>1, <2>1, <2>2, <2>3, RejectedKeeps
  <2>4. CASE /\ runner[w] \in Replayed
             /\ GoesTo(g, w, IF runner[w] = "accept" THEN "acceptAgain" ELSE "commitAgain")
    <3>1. PICK x \in {"acceptAgain", "commitAgain"} : GoesTo(g, w, x)
      BY <2>4
    <3>2. x \in RunnerStep \ {"idle", "settled"}
      BY <1>2
    <3>3. /\ generation' = generation /\ RowMoves(w, status, status')
          /\ errors' <= errors /\ ~NewlyFailed(w, status, status')
          /\ g = generation \/ (status' = status /\ errors' = errors)
      BY <1>1, <2>2, <2>4, NothingIsWritten DEF Writes, Replayed
    <3> QED BY <1>1, <2>1, <3>1, <3>2, <3>3, GoesKeeps
  <2> QED BY <1>5, <2>3, <2>4 DEF LoseAnswer
<1>6. CASE Execute(g, w)
  <2>1. AtTurn(sched[g], w, runner) /\ lost' \in 0 .. MaxLost /\ UNCHANGED vars
    BY <1>1, <1>6, TurnsAreTaken DEF Execute
  <2>2. PICK x \in {IF w \in Discovery THEN "accept" ELSE "commit"} \cup AfterError(w) :
            GoesTo(g, w, UnlessAborted(g, w, x))
    BY <1>6 DEF Execute
  <2>3. UnlessAborted(g, w, x) \in Request
    BY DEF UnlessAborted, AfterError, Request
  <2> QED BY <1>1, <1>2, <2>1, <2>2, <2>3, LocalKeeps
<1>7. CASE Wake(g, w)
  <2>1. AtTurn(sched[g], w, runner) /\ lost' \in 0 .. MaxLost /\ UNCHANGED vars
    BY <1>1, <1>7, TurnsAreTaken DEF Wake
  <2>2. UnlessAborted(g, w, "start") \in Request
    BY DEF UnlessAborted, Request
  <2>3. \/ \E x \in RunnerStep \ {"idle", "settled"} : GoesTo(g, w, x)
        \/ Settle(g, w, "rejected")
    BY <1>2, <1>7, <2>2 DEF Wake
  <2> QED BY <1>1, <2>1, <2>3, LocalKeeps
<1> QED BY <1>3, <1>4, <1>5, <1>6, <1>7 DEF RunnerNext

-----------------------------------------------------------------------------
(* Coordinators come and go.                                                  *)

\* What a coordinator would find that had nothing.
LEMMA ReadyToLead ==
  ASSUME LimitsInv
  PROVE  Leads(Unstarted, runner, status, errors)
<1>1. /\ RowsInv(runner, status) /\ errors \in Nat /\ generation \in 1 .. MaxGeneration
  BY DEF LimitsInv, TypeOK
<1>2. /\ Unstarted.active = {} /\ Unstarted.reducer = {} /\ Unstarted.pc = "none"
  BY DEF Unstarted
<1>3. CASE generation = 1
  <2>1. errors = 0 /\ \A w \in Task : status[w] = "none"
    BY <1>3 DEF LimitsInv, Untouched
  <2>2. /\ AtWork(status) = {} /\ Unborn(Unstarted, status) = {} /\ Streak(status) = {}
        /\ Unsettled(Unstarted.active, runner) = {} /\ Unsettled(Unstarted.reducer, runner) = {}
    BY <1>2, <2>1 DEF AtWork, Unborn, Streak, Unsettled, Active, Task
  <2>3. Cardinality({}) = 0 /\ FailureStreak(status) = 0
    BY <2>2, FS_EmptySet DEF FailureStreak, Streak
  <2>4. PoolInv(Unstarted, status)
    BY <2>2, <2>3, CoordinatorAssumption DEF PoolInv
  <2>5. ErrorsInv(Unstarted, runner, errors)
    BY <2>1, CoordinatorAssumption DEF ErrorsInv
  <2>6. FailuresInv(Unstarted, runner, status)
    BY <1>2, <2>2, <2>3, CoordinatorAssumption DEF FailuresInv, Looping
  <2> QED BY <1>2, <2>4, <2>5, <2>6 DEF Leads, Starting, LastReducer
<1>4. CASE generation # 1
  <2>1. generation \in Coordinator
    BY <1>1, <1>4, ConfigAssumption DEF Coordinator
  <2> DEFINE c == sched[generation]
  <2>2. Sound(c) /\ Leads(c, runner, status, errors)
    BY <2>1, GoodParts
  <2> HIDE DEF c
  <2> QED BY <1>1, <1>2, <2>2, EmptyLeads DEF Starting, Looping
<1> QED BY <1>3, <1>4

LEMMA AdoptedLeads ==
  ASSUME NEW run, NEW st, NEW errs, Leads(Unstarted, run, st, errs), AtWork(st) = {},
         NEW d, d.active = {}, d.reducer = {}, d.pc = "starting", d.errors = errs,
         d.failures = FailureStreak(st)
  PROVE  Leads(d, run, st, errs)
<1>1. Unstarted.active = {} /\ Unstarted.reducer = {}
  BY DEF Unstarted
<1>2. PoolInv(d, st)
  BY <1>1 DEF Leads, PoolInv, Unborn
<1>3. ErrorsInv(d, run, errs)
  BY <1>1 DEF Leads, ErrorsInv, Looping
<1>4. FailuresInv(d, run, st)
  BY <1>1 DEF Leads, FailuresInv, Looping
<1> QED BY <1>2, <1>3, <1>4 DEF Leads, LastReducer

LEMMA AdoptStep ==
  ASSUME LimitsInv, TypeOK', NEW g \in Coordinator, Adopt(g)
  PROVE  LimitsInv'
<1> DEFINE st2 == status'
           acc == \E w \in Discovery : status'[w] = "succeeded"
           p == \E r \in Reducer : status'[r] = "succeeded"
           f == FailureStreak(st2)
           S == Unmerged
           n == dispatched'
           m == noNew'
           e == errors'
           late == deadlineReached
           why == IF late THEN "deadline" ELSE "none"
           d == [Unstarted EXCEPT
                    !.pc = "starting", !.buffer = S, !.accepted = acc, !.dispatched = n,
                    !.noNew = m, !.errors = e, !.failures = f, !.previous = p, !.deadline = late,
                    !.discoveryAbort = why]
<1>1. /\ g = generation + 1 /\ sched' = [sched EXCEPT ![g] = d]
      /\ runner' = runner /\ lost' = lost
  BY DEF Adopt
<1>2. PICK fresh \in BOOLEAN : ClaimCoordinator(fresh)
  BY DEF Adopt
<1>3. /\ generation' = g /\ e = errors
      /\ st2 = status \/ st2 = Swept(status)
      /\ generation > 1 => st2 = Swept(status)
  BY <1>1, <1>2 DEF ClaimCoordinator, RecoverExpiredCoordinator, CancelActiveWorkers, Swept,
                    workerVars
<1>4. RowsInv(runner, status) /\ generation \in Nat \ {0} /\ errors \in Nat
  BY DEF LimitsInv, TypeOK
<1>5. RowsInv(runner, st2) /\ st2 \in {status, Swept(status)}
  BY <1>3, <1>4, MaybeSwept
<1>6. /\ S \in SUBSET Discovery /\ n \in Int /\ m \in Nat /\ e \in Nat /\ late \in BOOLEAN
      /\ f \in Nat /\ acc \in BOOLEAN /\ p \in BOOLEAN
      /\ why \in {"deadline", "none"} /\ (why = "deadline" => late = TRUE)
  BY <1>5, StreakIsFinite DEF Unmerged, TypeOK, LimitsInv, RowsInv
<1>7. AtWork(st2) = {}
  <2>1. CASE generation > 1
    BY <1>3, <1>4, <2>1, SweptRows
  <2>2. CASE generation = 1
    <3>1. \A w \in Task : status[w] = "none"
      BY <2>2 DEF LimitsInv, Untouched
    <3>2. \A w \in Task : st2[w] = "none"
      BY <1>4, <1>5, <3>1, MaybeSwept DEF Task, Worker
    <3> QED BY <3>2 DEF AtWork, Active, Task
  <2> QED BY <1>4, <2>1, <2>2
<1>8. d = [Unstarted EXCEPT
              !.pc = "starting", !.buffer = S, !.accepted = acc, !.dispatched = n,
              !.noNew = m, !.errors = e, !.failures = f, !.previous = p, !.deadline = late,
              !.discoveryAbort = why]
      /\ f = FailureStreak(st2)
  OBVIOUS
<1> HIDE DEF d, S, acc, p, f, n, m, e, late, why, st2
<1>9. /\ d \in Scheduler /\ AbortsFit(d) /\ Cleared(d)
      /\ d.pc = "starting" /\ d.errors = e /\ d.failures = f
  <2>1. "starting" \in Pc /\ {"deadline", "none"} \subseteq AbortReason
    BY DEF Pc, AbortReason
  <2>2. Unstarted \in Scheduler
    BY UnstartedIsScheduler
  <2>3. d.deadline = late
    BY <1>8, <2>2, Zenon DEF Scheduler
  <2>4. d.pc = "starting" /\ d.errors = e /\ d.failures = f /\ d.discoveryAbort = why
    BY <1>8, <2>2 DEF Scheduler
  <2>5. Cleared(d)
    BY <1>8, UnstartedIsScheduler DEF Cleared, Scheduler
  <2>6. d \in Scheduler
    <3> DEFINE d0 == [Unstarted EXCEPT
                        !.pc = "starting", !.buffer = S, !.dispatched = n, !.noNew = m,
                        !.errors = e, !.failures = f, !.discoveryAbort = why]
               d1 == [d0 EXCEPT !.accepted = acc]
               d2 == [d1 EXCEPT !.previous = p]
               d3 == [d2 EXCEPT !.deadline = late]
    <3>1. d0 \in Scheduler
      BY <1>6, <2>1, <2>2 DEF Scheduler
    <3> HIDE DEF d0
    <3>2. d1 \in Scheduler
      BY <1>6, <3>1 DEF Scheduler
    <3> HIDE DEF d1
    <3>3. d2 \in Scheduler
      BY <1>6, <3>2 DEF Scheduler
    <3> HIDE DEF d2
    <3>4. d3 \in Scheduler
      BY <1>6, <3>3 DEF Scheduler
    <3>5. d = d3
      BY <1>8, <2>2 DEF d0, d1, d2, Scheduler
    <3> QED BY <3>4, <3>5
  <2>7. AbortsFit(d)
    BY <1>6, <2>3, <2>4 DEF AbortsFit
  <2> QED BY <2>4, <2>5, <2>6, <2>7
<1>10. Fits(d, runner, st2) /\ Hands(d) = {}
  BY <1>9, EmptyFits DEF Cleared, AbortsFit, Looping, Hands
<1>11. Leads(d, runner, st2, e)
  <2>1. Leads(Unstarted, runner, status, errors)
    BY ReadyToLead
  <2>2. Sound(Unstarted)
    BY UnstartedIsScheduler, EmptyFits DEF Fits, Unstarted, Looping
  <2>3. Leads(Unstarted, runner, st2, errors)
    BY <1>4, <1>5, <2>1, <2>2, SweptLead
  <2> QED BY <1>3, <1>7, <1>8, <1>9, <2>3, AdoptedLeads DEF Cleared
<1>12. MemoryOK'
  BY <1>1, <1>9 DEF MemoryOK, LimitsInv
<1>13. ASSUME NEW h \in Coordinator
       PROVE  /\ Fits(sched'[h], runner, st2)
              /\ h = g => Leads(sched'[h], runner, st2, e)
              /\ Hands(sched'[h]) = IF h = g THEN {} ELSE Hands(sched[h])
  <2>1. CASE h = g
    BY <1>1, <1>10, <1>11, <2>1 DEF LimitsInv, MemoryOK
  <2>2. CASE h # g
    <3> DEFINE c == sched[h]
    <3>1. Fits(c, runner, status) /\ sched'[h] = c
      BY <1>1, <2>2, GoodParts DEF LimitsInv, MemoryOK
    <3> HIDE DEF c
    <3>2. Fits(c, runner, st2)
      BY <1>4, <1>5, <3>1, SweptFit
    <3> QED BY <2>2, <3>1, <3>2 DEF c
  <2> QED BY <2>1, <2>2
<1>14. \A h, k \in Coordinator : h # k => Hands(sched'[h]) \cap Hands(sched'[k]) = {}
  BY <1>13 DEF LimitsInv
<1>15. generation' # 1
  BY <1>1, <1>3, <1>4
<1> QED BY <1>1, <1>3, <1>5, <1>12, <1>13, <1>14, <1>15 DEF LimitsInv, st2, e

LEMMA CrashStep ==
  ASSUME LimitsInv, NEW g \in Coordinator, Crash(g)
  PROVE  LimitsInv'
<1> DEFINE c == sched[g]
           d == [Unstarted EXCEPT !.pc = "crashed"]
           run2 == [w \in Task |-> IF w \in Hands(c) THEN "settled" ELSE runner[w]]
<1>1. /\ sched' = [sched EXCEPT ![g] = d] /\ runner' = run2
      /\ UNCHANGED <<vars, lost>>
  BY DEF Crash, Owned, Hands
<1>2. /\ status' = status /\ errors' = errors /\ generation' = generation
      /\ TypeOK' /\ lost' \in 0 .. MaxLost
  BY <1>1 DEF vars, runVars, scanVars, workerVars, LimitsInv, TypeOK, MemoryOK
<1>3. /\ Fits(c, runner, status) /\ Sound(c) /\ RowsInv(runner, status) /\ errors \in Nat
      /\ g = generation => Leads(c, runner, status, errors)
  BY GoodParts
<1>4. RowsInv(run2, status)
  <2>1. run2 \in Runners
    BY <1>3 DEF RowsInv, Runners, RunnerStep
  <2>2. \A w \in Task : run2[w] = "idle" <=> runner[w] = "idle"
    BY <1>3 DEF Fits
  <2>3. Reducer \subseteq Task
    BY DEF Task
  <2> HIDE DEF run2
  <2> QED BY <1>3, <2>1, <2>2, <2>3 DEF RowsInv
<1>5. d \in Scheduler /\ AbortsFit(d) /\ Cleared(d) /\ d.pc = "crashed"
  BY UnstartedIsScheduler DEF Scheduler, Pc, AbortsFit, Cleared
<1>6. ASSUME NEW h \in Coordinator \ {g}
      PROVE  Spares(h)
  <2>1. Hands(sched[h]) \cap Hands(c) = {} /\ Hands(sched[h]) \subseteq Task
    BY GoodParts DEF LimitsInv, Scheduler, Hands, Task
  <2> QED BY <1>1, <1>2, <2>1 DEF Spares
<1> HIDE DEF c, d, run2
<1>7. Fits(d, run2, status) /\ Hands(d) = {}
  BY <1>5, EmptyFits DEF Cleared, AbortsFit, Looping, Hands
<1>8. g = generation => Leads(d, run2, status, errors)
  BY <1>3, <1>5, EmptyLeads DEF Cleared, Starting, Looping
<1> QED BY <1>1, <1>2, <1>4, <1>6, <1>7, <1>8, SystemKeeps

-----------------------------------------------------------------------------
(* The whole system.                                                          *)

LEMMA InitStep == SystemInit => LimitsInv
<1> SUFFICES ASSUME SystemInit PROVE LimitsInv
  OBVIOUS
<1>1. /\ TypeOK /\ generation = 1 /\ errors = 0 /\ status = [w \in Worker |-> "none"]
      /\ sched = [g \in Coordinator |-> Unstarted] /\ runner = [w \in Task |-> "idle"]
      /\ lost = 0
  BY TypeInit DEF SystemInit, Init, NoWorkers
<1>2. Unstarted \in Scheduler /\ "idle" \in RunnerStep /\ lost \in 0 .. MaxLost
  BY <1>1, UnstartedIsScheduler, CoordinatorAssumption DEF RunnerStep
<1>3. MemoryOK
  BY <1>1, <1>2 DEF MemoryOK, Runners
<1>4. Untouched(status, errors)
  BY <1>1 DEF Untouched, Task, Worker
<1>5. RowsInv(runner, status)
  <2>1. FailedReducers(status) = {}
    BY <1>4 DEF FailedReducers, Untouched, Task
  <2>2. status \in Rows
    BY <1>1 DEF Rows, WorkerStatus
  <2>3. \A w \in Task : runner[w] = "idle"
    BY <1>1
  <2>4. Reducer \subseteq Task
    BY DEF Task
  <2>5. runner \in Runners
    BY <1>3 DEF MemoryOK
  <2> QED BY <1>4, <2>1, <2>2, <2>3, <2>4, <2>5, FS_EmptySet DEF RowsInv, Untouched
<1>6. Fits(Unstarted, runner, status) /\ Hands(Unstarted) = {}
  BY UnstartedIsScheduler, EmptyFits DEF Unstarted, Looping, Hands
<1>7. \A g \in Coordinator : sched[g] = Unstarted /\ g # generation
  BY <1>1, ConfigAssumption DEF Coordinator
<1> QED BY <1>1, <1>3, <1>4, <1>5, <1>6, <1>7 DEF LimitsInv

LEMMA CoordinatorKeeps ==
  ASSUME LimitsInv, TypeOK', NEW g \in Coordinator, CoordinatorStep(g)
  PROVE  LimitsInv'
<1>1. CASE Start(g)
  BY <1>1, StartStep
<1>2. CASE Turn(g)
  BY <1>2, TurnStep
<1>3. CASE TurnAborted(g) \/ Unwind(g) \/ Publish(g) \/ Catch(g)
  BY <1>3, PlainSteps
<1>4. CASE TakeSettlement(g)
  BY <1>4, TakeStep
<1>5. CASE Reconcile(g)
  BY <1>5, ReconcileStep
<1>6. CASE Finish(g)
  BY <1>6, FinishStep
<1>7. CASE Fail(g)
  BY <1>7, FailStep
<1> QED BY <1>1, <1>2, <1>3, <1>4, <1>5, <1>6, <1>7 DEF CoordinatorStep

LEMMA LimitsStep == LimitsInv /\ [SystemNext]_systemVars => LimitsInv'
<1> SUFFICES ASSUME LimitsInv, [SystemNext]_systemVars PROVE LimitsInv'
  OBVIOUS
<1>1. TypeOK'
  BY SystemStep, TypeStep DEF LimitsInv
<1>2. CASE Environment
  BY <1>1, <1>2, EnvironmentStep
<1>3. ASSUME NEW g \in Coordinator, Adopt(g) PROVE LimitsInv'
  BY <1>1, <1>3, AdoptStep
<1>4. ASSUME NEW g \in Coordinator, Crash(g) PROVE LimitsInv'
  BY <1>4, CrashStep
<1>5. ASSUME NEW g \in Coordinator, Watch(g) PROVE LimitsInv'
  BY <1>5, WatchStep
<1>6. ASSUME NEW g \in Coordinator, Deadline(g) PROVE LimitsInv'
  BY <1>6, DeadlineStep
<1>7. ASSUME NEW g \in Coordinator, CoordinatorStep(g) PROVE LimitsInv'
  BY <1>1, <1>7, CoordinatorKeeps
<1>8. ASSUME NEW g \in Coordinator, NEW why \in {"shutdown", "user"}, Cancel(g, why)
      PROVE  LimitsInv'
  BY <1>8, CancelStep
<1>9. ASSUME NEW g \in Coordinator, NEW w \in Task, RunnerNext(g, w) PROVE LimitsInv'
  BY <1>1, <1>9, RunnerStepKeeps
<1>10. CASE UNCHANGED systemVars
  <2>1. /\ sched' = sched /\ runner' = runner /\ lost' = lost
        /\ status' = status /\ errors' = errors /\ generation' = generation
    BY <1>10 DEF systemVars, localVars, vars, runVars, scanVars, workerVars
  <2> QED BY <1>1, <2>1 DEF LimitsInv, MemoryOK
<1> QED BY <1>2, <1>3, <1>4, <1>5, <1>6, <1>7, <1>8, <1>9, <1>10 DEF SystemNext

LEMMA SystemInvariant == SystemSpec => []LimitsInv
BY InitStep, LimitsStep, PTL DEF SystemSpec

LEMMA LimitsFollow == LimitsInv => LimitsAreKept
<1> SUFFICES ASSUME LimitsInv PROVE LimitsAreKept
  OBVIOUS
<1> DEFINE c == Unstarted
           pool == AtWork(status) \cup Unborn(c, status)
<1>1. Leads(c, runner, status, errors) /\ RowsInv(runner, status) /\ errors \in Nat
  BY ReadyToLead DEF LimitsInv, TypeOK
<1>2. c.active = {} /\ c.reducer = {}
  BY UnstartedIsScheduler
<1>3. /\ Unborn(c, status) = {}
      /\ Unsettled(c.active, runner) = {} /\ Unsettled(c.reducer, runner) = {}
  BY <1>2 DEF Unborn, Unsettled
<1>4. Cardinality({}) = 0
  BY FS_EmptySet
<1>5. PoolIsBounded
  BY <1>1, <1>3 DEF Leads, PoolInv, PoolIsBounded, AtWork
<1>6. errors < ErrorLimit + Workers
  BY <1>1, <1>3, <1>4, CoordinatorAssumption DEF Leads, ErrorsInv
<1>7. FailureStreak(status) <= ErrorLimit
  <2>1. FailureStreak(status) \in Nat
    BY <1>1, StreakIsFinite DEF RowsInv
  <2> QED BY <1>1, <1>3, <1>4, <2>1, CoordinatorAssumption DEF Leads, FailuresInv
<1> QED BY <1>5, <1>6, <1>7 DEF LimitsAreKept, FailuresAreBounded

LEMMA DrivenFollows == LimitsInv => SchedulerIsDriven
<1> SUFFICES ASSUME LimitsInv, NEW g \in Coordinator
             PROVE  LET c == sched[g]
                    IN  /\ c.pc = "waiting" => c.settlements # <<>> \/ Pending(g) # {}
                        /\ (/\ c.pc = "loop" /\ c.abort = "none" /\ c.settlements = <<>>
                            /\ Owned(g) = {} /\ c.buffer # {})
                              => Room(c) > 0 \/ ReducerReady(c, {}, c.dispatched)
  BY DEF SchedulerIsDriven
<1> DEFINE c == sched[g]
<1>1. Fits(c, runner, status) /\ Sound(c) /\ c \in Scheduler
  BY GoodParts
<1>2. Owned(g) = Hands(c) /\ Pending(g) = {w \in Hands(c) : runner[w] # "settled"}
  BY DEF Owned, Pending, Hands
<1> HIDE DEF c
<1>3. ASSUME c.pc = "waiting", c.settlements = <<>>
      PROVE  \E w \in Hands(c) : runner[w] # "settled"
  <2>1. PICK w \in Hands(c) : TRUE
    BY <1>1, <1>3 DEF Sound
  <2>2. DOMAIN c.settlements = {}
    BY <1>3
  <2>3. runner[w] # "settled"
    BY <1>1, <2>1, <2>2 DEF Fits, SettlementsFit
  <2> QED BY <2>1, <2>3
<1>4. ASSUME Hands(c) = {}, c.buffer # {}
      PROVE  Room(c) > 0 \/ ReducerReady(c, {}, c.dispatched)
  <2> DEFINE k == Cardinality(c.active)
  <2>1. k = 0
    BY <1>4, FS_EmptySet DEF Hands
  <2>2. c.dispatched \in Int /\ Workers \in Nat \ {0} /\ MaxDiscoveryRuns \in Nat \ {0}
    BY <1>1, CoordinatorAssumption, ConfigAssumption DEF Scheduler
  <2>3. CASE c.previous \/ c.deadline \/ c.dispatched >= MaxDiscoveryRuns
    BY <1>4, <2>3 DEF ReducerReady
  <2>4. CASE ~(c.previous \/ c.deadline \/ c.dispatched >= MaxDiscoveryRuns)
    <3>1. Room(c) = IF Workers - k < MaxDiscoveryRuns - c.dispatched THEN Workers - k
                    ELSE MaxDiscoveryRuns - c.dispatched
      BY <2>4 DEF Room
    <3> HIDE DEF k
    <3> QED BY <2>1, <2>2, <2>4, <3>1
  <2> QED BY <2>3, <2>4
<1> QED BY <1>2, <1>3, <1>4 DEF c

\* What coordinators, runners and the write tail have in memory keeps to the values it
\* declares: every worker that a scheduler holds, buffers or hears of is one of the run.
THEOREM SystemTypeCorrect == SystemSpec => []SystemTypeOK
<1>1. LimitsInv => SystemTypeOK
  <2> SUFFICES ASSUME LimitsInv PROVE SystemTypeOK
    OBVIOUS
  <2>1. TypeOK /\ MemoryOK
    BY DEF LimitsInv
  <2>2. runner \in [Task -> RunnerStep] /\ lost \in 0 .. MaxLost /\ DOMAIN sched = Coordinator
    BY <2>1 DEF MemoryOK, Runners
  <2>3. ASSUME NEW g \in Coordinator
        PROVE  /\ sched[g].pc \in Pc
               /\ sched[g].active \in SUBSET Discovery /\ sched[g].buffer \in SUBSET Discovery
               /\ sched[g].held \in SUBSET Discovery /\ sched[g].omitted \in SUBSET Discovery
               /\ sched[g].reducer \in SUBSET Reducer
               /\ \A e \in Entries(g) : e.worker \in Task /\ e.outcome \in Outcome
               /\ sched[g].abort \in AbortReason /\ sched[g].discoveryAbort \in AbortReason
               /\ sched[g].result \in Result
    <3> DEFINE c == sched[g]
               s == c.settlements
    <3>1. c \in Scheduler
      BY <2>1 DEF MemoryOK
    <3>2. Entries(g) = {s[i] : i \in DOMAIN s}
      BY DEF Entries
    <3> HIDE DEF c
    <3>3. s \in Seq(Answer)
      BY <3>1 DEF Scheduler
    <3> HIDE DEF s
    <3>4. \A i \in DOMAIN s : s[i] \in Answer
      BY <3>3
    <3>5. \A e \in Entries(g) : e.worker \in Task /\ e.outcome \in Outcome
      BY <3>2, <3>4 DEF Answer
    <3>6. /\ c.pc \in Pc /\ c.active \in SUBSET Discovery /\ c.buffer \in SUBSET Discovery
          /\ c.held \in SUBSET Discovery /\ c.omitted \in SUBSET Discovery
          /\ c.reducer \in SUBSET Reducer
          /\ c.abort \in AbortReason /\ c.discoveryAbort \in AbortReason /\ c.result \in Result
      BY <3>1 DEF Scheduler
    <3> QED BY <3>5, <3>6 DEF c
  <2> QED BY <2>1, <2>2, <2>3 DEF SystemTypeOK
<1> QED BY <1>1, SystemInvariant, PTL

\* Failures in a row end the run at the limit, and the pool holds no more discoveries than
\* it was configured for: for any number of workers, over any number of coordinators that
\* crash, overlap and lose answers.
THEOREM LimitsAreAlwaysKept == SystemSpec => []LimitsAreKept
BY LimitsFollow, SystemInvariant, PTL

\* A scheduler that sleeps has a settlement or a runner that will wake it, and one that
\* finds results in its buffer and nothing at work can start a discovery or a reducer.
THEOREM SchedulersAreDriven == SystemSpec => []SchedulerIsDriven
BY DrivenFollows, SystemInvariant, PTL

-----------------------------------------------------------------------------
(* What the coordinator that has the run knows of the rows.                   *)

Alive(c) == c.pc \notin {"none", "ended", "crashed"}
AtHome(c) == Starting(c) \/ Looping(c)

\* Nothing was aborted but discoveries at the deadline, and then no acceptance can have
\* been given up because both of its answers were lost: n is how many were.
Calm(c, n) == c.abort = "none" /\ (n <= 1 \/ c.discoveryAbort = "none")

Remaining(st, ms) == {d \in Discovery : st[d] = "succeeded" /\ ms[d] # "merged"}
Unread(c, st) == {d \in c.active : st[d] = "succeeded"}
Withheld(c, st) == {d \in c.held : \A r \in c.reducer : st[r] # "succeeded"}

\* What is accepted and not merged is in one place.
Knows(c, st, ms, inp) ==
    /\ Remaining(st, ms) = c.buffer \cup Unread(c, st) \cup Withheld(c, st)
    /\ c.buffer \cap c.held = {} /\ c.active \cap (c.buffer \cup c.held) = {}
    /\ c.reducer = {} => c.held = {}
    /\ \A d \in c.held : st[d] = "succeeded"
    /\ \A r \in c.reducer : st[r] # "none" => inp[r] = c.held

\* What settles without success did not succeed.
Without == {"replaced", "failed", "canceled"}
Tells(c, st) ==
    \A i \in DOMAIN c.settlements :
        c.settlements[i].outcome \in Without => st[c.settlements[i].worker] # "succeeded"

\* A discovery that has no row yet is counted already.
Counts(c, st, n) ==
    Alive(c) => n + Cardinality(Unborn(c, st)) <= c.dispatched /\ c.dispatched <= MaxDiscoveryRuns

Remembers(c, st, ms, inp, disp, n) ==
    /\ Counts(c, st, disp)
    /\ AtHome(c) /\ Calm(c, n) => Knows(c, st, ms, inp) /\ Tells(c, st)

\* An abort has a cause, and a deadline was reached.
Informed(c, late) ==
    /\ AtHome(c) /\ c.abort # "none" => c.canceled \/ c.external
    /\ Alive(c) /\ c.deadline => late

\* Before its request is made a worker has no row, and what is repeated was lost once.
RunnersInv(run, st, n) ==
    \A w \in Task :
        /\ run[w] \in {"idle", "prepare", "queue", "claim"} => st[w] = "none"
        /\ run[w] = "acceptAgain" => n >= 1

MemoryInv ==
    /\ generation # 1 => runStatus # "none"
    /\ RunnersInv(runner, status, lost)
    /\ \A g \in Coordinator : Informed(sched[g], deadlineReached)
    /\ \A g \in Coordinator : g = generation /\ RunIsOpen =>
          Remembers(sched[g], status, mergeState, inputs, dispatched, lost)

Known == LimitsInv /\ StoreInv /\ DispatchBudget

-----------------------------------------------------------------------------
(* A record that keeps what it knows.                                         *)

\* Workers and results are where they were.
SamePlaces(c, d) ==
    /\ d.active = c.active /\ d.reducer = c.reducer /\ d.held = c.held
    /\ d.buffer = c.buffer /\ d.settlements = c.settlements /\ d.dispatched = c.dispatched
    /\ c.abort # "none" => d.abort # "none"
    /\ c.discoveryAbort # "none" => d.discoveryAbort # "none"
    /\ AtHome(d) => AtHome(c)
    /\ Alive(d) => Alive(c)

LEMMA PlacesRemember ==
  ASSUME NEW c, NEW d, SamePlaces(c, d), NEW st, NEW ms, NEW inp, NEW disp, NEW n \in Nat,
         NEW m \in Nat, n <= m, Remembers(c, st, ms, inp, disp, n)
  PROVE  Remembers(d, st, ms, inp, disp, m)
<1>1. Calm(d, m) => Calm(c, n)
  BY DEF Calm, SamePlaces
<1>2. Unborn(d, st) = Unborn(c, st) /\ Unread(d, st) = Unread(c, st)
      /\ Withheld(d, st) = Withheld(c, st)
  BY DEF SamePlaces, Unborn, Unread, Withheld
<1>3. Counts(d, st, disp)
  BY <1>2 DEF Remembers, Counts, SamePlaces
<1>4. Knows(c, st, ms, inp) => Knows(d, st, ms, inp)
  BY <1>2 DEF Knows, SamePlaces
<1>5. Tells(c, st) => Tells(d, st)
  BY DEF Tells, SamePlaces
<1>6. AtHome(d) => AtHome(c)
  BY DEF SamePlaces
<1> QED BY <1>1, <1>3, <1>4, <1>5, <1>6 DEF Remembers

\* Away from the loop only the dispatches count.
LEMMA LeavingRemembers ==
  ASSUME NEW c, NEW d, d.active \subseteq c.active, c.active \subseteq Discovery,
         d.dispatched = c.dispatched, c.dispatched \in Int, Alive(d) => Alive(c), ~AtHome(d),
         NEW st, NEW ms, NEW inp, NEW disp \in Int, NEW n, NEW m,
         Remembers(c, st, ms, inp, disp, n)
  PROVE  Remembers(d, st, ms, inp, disp, m)
<1>1. Unborn(d, st) \subseteq Unborn(c, st) /\ Unborn(c, st) \subseteq Discovery
  BY DEF Unborn
<1>2. /\ Cardinality(Unborn(d, st)) <= Cardinality(Unborn(c, st))
      /\ Cardinality(Unborn(d, st)) \in Nat /\ Cardinality(Unborn(c, st)) \in Nat
  BY <1>1, SmallerIsSmaller
<1>3. Counts(c, st, disp)
  BY DEF Remembers
<1>4. Counts(d, st, disp)
  <2> DEFINE u == Cardinality(Unborn(c, st))
             v == Cardinality(Unborn(d, st))
  <2>1. v <= u /\ u \in Nat /\ v \in Nat
    BY <1>2
  <2>2. Alive(c) => disp + u <= c.dispatched /\ c.dispatched <= MaxDiscoveryRuns
    BY <1>3 DEF Counts
  <2> HIDE DEF u, v
  <2>3. Alive(d) => disp + v <= d.dispatched /\ d.dispatched <= MaxDiscoveryRuns
    BY <2>1, <2>2
  <2> QED BY <2>3 DEF Counts, v
<1> QED BY <1>4 DEF Remembers

-----------------------------------------------------------------------------
(* The whole system.                                                          *)

\* Time does not come back, nor does a run that was not begun.
LEMMA TimePasses ==
  ASSUME [Next]_vars
  PROVE  /\ deadlineReached => deadlineReached'
         /\ runStatus # "none" => runStatus' # "none"
<1> USE DEF runVars, scanVars, workerVars
<1>1. CASE BeginDeepScan \/ ReachDeadline \/ \E fresh \in BOOLEAN : ClaimCoordinator(fresh)
  BY <1>1 DEF BeginDeepScan, ReachDeadline, ClaimCoordinator
<1>2. ASSUME NEW g \in Caller, WorkerNext(g)
      PROVE  UNCHANGED <<deadlineReached, runStatus>>
  <2> DEFINE Same == UNCHANGED <<deadlineReached, runStatus>>
  <2>1. \A w, st, a, e : InsertWorker(g, w, st, a, e) \/ UpdateWorker(g, w, st, a, e) => Same
    BY DEF InsertWorker, UpdateWorker
  <2>2. \A w, a, e : FailWorker(g, w, a, e) => Same
    BY DEF FailWorker
  <2>3. \A w, a, e, f : CancelWorker(g, w, a, e, f) => Same
    BY DEF CancelWorker
  <2>4. \A w, a : AcceptDiscovery(g, w, a) \/ FinishSetup(g, w, a) => Same
    BY DEF AcceptDiscovery, FinishSetup
  <2> QED BY <1>2, <2>1, <2>2, <2>3, <2>4 DEF WorkerNext
<1>3. ASSUME NEW g \in Caller, ReducerNext(g)
      PROVE  UNCHANGED <<deadlineReached, runStatus>>
  BY <1>3 DEF ReducerNext, ClaimDedup, CommitDedup
<1>4. ASSUME NEW g \in Caller, TerminalNext(g)
      PROVE  UNCHANGED deadlineReached /\ (runStatus # "none" => runStatus' # "none")
  BY <1>4 DEF TerminalNext, FinishDeepScan, ReplayFinish, FailDeepScan
<1>5. CASE FailScan \/ CancelScan \/ CompleteScan
  BY <1>5 DEF FailScan, CancelScan, CompleteScan
<1>6. CASE UNCHANGED vars
  BY <1>6 DEF vars
<1> QED BY <1>1, <1>2, <1>3, <1>4, <1>5, <1>6 DEF Next

\* A step of g that leaves the rows to the coordinator that has the run.
LEMMA MemoryKeeps ==
  ASSUME Known, MemoryInv, LimitsInv', [Next]_vars, generation' = generation,
         NEW g \in Coordinator, NEW d, sched' = [sched EXCEPT ![g] = d],
         lost \in Nat, lost' \in Nat, lost <= lost', RunnersInv(runner', status', lost'),
         Informed(sched[g], deadlineReached) => Informed(d, deadlineReached'),
         RunIsOpen' => RunIsOpen,
         g # generation => UNCHANGED vars,
         g = generation /\ RunIsOpen' /\ Remembers(sched[g], status, mergeState, inputs, dispatched, lost)
             => Remembers(d, status', mergeState', inputs', dispatched', lost')
  PROVE  MemoryInv'
<1>1. \A h \in Coordinator : sched'[h] = IF h = g THEN d ELSE sched[h]
  BY DEF Known, LimitsInv, MemoryOK
<1>2. ASSUME NEW h \in Coordinator PROVE Informed(sched'[h], deadlineReached')
  BY <1>1, TimePasses DEF MemoryInv, Informed
<1>3. ASSUME NEW h \in Coordinator, h = generation', RunIsOpen'
      PROVE  Remembers(sched'[h], status', mergeState', inputs', dispatched', lost')
  <2>1. Remembers(sched[h], status, mergeState, inputs, dispatched, lost)
    BY <1>3 DEF MemoryInv
  <2>2. CASE h = g
    BY <1>1, <1>3, <2>1, <2>2
  <2>3. CASE h # g
    <3>1. UNCHANGED <<status, mergeState, inputs, dispatched>>
      BY <1>3, <2>3 DEF vars, runVars, workerVars
    <3>2. sched'[h] = sched[h]
      BY <1>1, <2>3
    <3> DEFINE c == sched[h]
    <3>3. SamePlaces(c, c)
      BY DEF SamePlaces
    <3> HIDE DEF c
    <3>4. Remembers(c, status, mergeState, inputs, dispatched, lost')
      BY <2>1, <3>3, PlacesRemember DEF c
    <3> QED BY <3>1, <3>2, <3>4 DEF c
  <2> QED BY <2>2, <2>3
<1>4. generation' # 1 => runStatus' # "none"
  BY TimePasses DEF MemoryInv
<1> QED BY <1>2, <1>3, <1>4 DEF MemoryInv

\* A step that changes no row.
LEMMA RecordKeeps ==
  ASSUME Known, MemoryInv, LimitsInv', NEW g \in Coordinator, NEW d,
         sched' = [sched EXCEPT ![g] = d], UNCHANGED <<vars, runner>>,
         lost' \in Nat, lost <= lost',
         Informed(sched[g], deadlineReached) => Informed(d, deadlineReached),
         Remembers(sched[g], status, mergeState, inputs, dispatched, lost)
             => Remembers(d, status, mergeState, inputs, dispatched, lost')
  PROVE  MemoryInv'
<1>1. /\ [Next]_vars /\ generation' = generation /\ lost \in Nat
      /\ UNCHANGED <<status, mergeState, inputs, dispatched, deadlineReached>>
      /\ RunIsOpen' = RunIsOpen
  BY DEF vars, runVars, scanVars, workerVars, RunIsOpen, Known, LimitsInv, MemoryOK
<1>2. RunnersInv(runner', status', lost')
  BY <1>1 DEF MemoryInv, RunnersInv
<1> QED BY <1>1, <1>2, MemoryKeeps

-----------------------------------------------------------------------------
(* What happens to a coordinator.                                             *)

\* The record of g.
LEMMA RecordFacts ==
  ASSUME Known, MemoryInv, NEW g \in Coordinator
  PROVE  /\ sched[g] \in Scheduler /\ Sound(sched[g]) /\ Fits(sched[g], runner, status)
         /\ sched[g].active \subseteq Discovery /\ sched[g].dispatched \in Int
         /\ dispatched \in Int /\ lost \in Nat
BY GoodParts DEF Known, LimitsInv, MemoryOK, Scheduler, TypeOK

LEMMA NothingLost ==
  ASSUME Known, MemoryInv, lost' = lost
  PROVE  lost \in Nat /\ lost' \in Nat /\ lost <= lost'
<1>1. lost \in Nat
  BY CoordinatorAssumption DEF Known, LimitsInv, MemoryOK
<1> QED BY <1>1

\* Steps that only leave for another place, or set flags.
LEMMA FlagsKeep ==
  ASSUME Known, MemoryInv, LimitsInv', NEW g \in Coordinator, NEW d,
         sched' = [sched EXCEPT ![g] = d], UNCHANGED <<vars, runner>>,
         lost' \in Nat, lost <= lost', SamePlaces(sched[g], d),
         Informed(sched[g], deadlineReached) => Informed(d, deadlineReached)
  PROVE  MemoryInv'
<1> DEFINE c == sched[g]
<1>1. Remembers(c, status, mergeState, inputs, dispatched, lost)
        => Remembers(d, status, mergeState, inputs, dispatched, lost')
  BY RecordFacts, PlacesRemember
<1> QED BY <1>1, RecordKeeps

LEMMA CancelRemembers ==
  ASSUME Known, MemoryInv, LimitsInv', NEW g \in Coordinator, NEW why \in {"shutdown", "user"},
         Cancel(g, why)
  PROVE  MemoryInv'
<1> DEFINE c == sched[g]
           d == AbortAll([c EXCEPT !.canceled = TRUE], why)
<1>1. /\ sched' = [sched EXCEPT ![g] = d] /\ UNCHANGED <<vars, runner>>
      /\ c \in Scheduler /\ lost' = lost
  BY RecordFacts DEF Cancel, Step
<1>2. SamePlaces(c, d)
  BY <1>1 DEF SamePlaces, AbortAll, Scheduler, AtHome, Alive, Starting, Looping
<1>3. Informed(c, deadlineReached) => Informed(d, deadlineReached)
  BY <1>1 DEF Informed, AbortAll, Scheduler, AtHome, Alive, Starting, Looping
<1> HIDE DEF d
<1> QED BY <1>1, <1>2, <1>3, NothingLost, FlagsKeep

LEMMA WatchRemembers ==
  ASSUME Known, MemoryInv, LimitsInv', NEW g \in Coordinator, Watch(g)
  PROVE  MemoryInv'
<1> DEFINE c == sched[g]
           r == IF runStatus = "running" THEN "replaced" ELSE runStatus
           d == AbortAll([c EXCEPT !.external = TRUE, !.result = r], "lost")
<1>1. /\ sched' = [sched EXCEPT ![g] = d] /\ UNCHANGED <<vars, runner>>
      /\ c \in Scheduler /\ lost' = lost
  BY RecordFacts DEF Watch, Step
<1>2. SamePlaces(c, d)
  BY <1>1 DEF SamePlaces, AbortAll, Scheduler, AtHome, Alive, Starting, Looping
<1>3. Informed(c, deadlineReached) => Informed(d, deadlineReached)
  BY <1>1 DEF Informed, AbortAll, Scheduler, AtHome, Alive, Starting, Looping
<1> HIDE DEF d
<1> QED BY <1>1, <1>2, <1>3, NothingLost, FlagsKeep

LEMMA DeadlineRemembers ==
  ASSUME Known, MemoryInv, LimitsInv', NEW g \in Coordinator, Deadline(g)
  PROVE  MemoryInv'
<1> DEFINE c == sched[g]
           d == [c EXCEPT !.deadline = TRUE,
                          !.discoveryAbort = IF @ = "none" THEN "deadline" ELSE @]
<1>1. /\ sched' = [sched EXCEPT ![g] = d] /\ UNCHANGED <<vars, runner>>
      /\ c \in Scheduler /\ lost' = lost /\ deadlineReached
  BY RecordFacts DEF Deadline, Step
<1>2. SamePlaces(c, d)
  BY <1>1 DEF SamePlaces, Scheduler, AtHome, Alive, Starting, Looping
<1>3. Informed(c, deadlineReached) => Informed(d, deadlineReached)
  BY <1>1 DEF Informed, Scheduler, AtHome, Alive, Starting, Looping
<1> HIDE DEF d
<1> QED BY <1>1, <1>2, <1>3, NothingLost, FlagsKeep

\* It is away from its loop, with the dispatches it had, or it is gone.
Departs(c, d) ==
    /\ d.pc \notin {"none", "starting", "loop", "waiting"}
    /\ Alive(d) =>
          /\ Alive(c) /\ d.active \subseteq c.active /\ d.dispatched = c.dispatched
          /\ d.deadline = c.deadline

LEMMA DepartureRemembers ==
  ASSUME Known, MemoryInv, NEW g \in Coordinator, NEW d, Departs(sched[g], d)
  PROVE  /\ Informed(sched[g], deadlineReached) => Informed(d, deadlineReached)
         /\ \A st, ms, inp, n, m : Remembers(sched[g], st, ms, inp, dispatched, n)
                                     => Remembers(d, st, ms, inp, dispatched, m)
<1> DEFINE c == sched[g]
<1>1. ~AtHome(d)
  BY DEF Departs, AtHome, Starting, Looping
<1>2. Informed(c, deadlineReached) => Informed(d, deadlineReached)
  BY <1>1 DEF Informed, Departs
<1>3. ASSUME NEW st, NEW ms, NEW inp, NEW n, NEW m,
             Remembers(c, st, ms, inp, dispatched, n)
      PROVE  Remembers(d, st, ms, inp, dispatched, m)
  <2>1. CASE Alive(d)
    BY <1>1, <1>3, <2>1, RecordFacts, LeavingRemembers DEF Departs
  <2>2. CASE ~Alive(d)
    BY <1>1, <2>2 DEF Remembers, Counts
  <2> QED BY <2>1, <2>2
<1> QED BY <1>2, <1>3

LEMMA DepartureKeeps ==
  ASSUME Known, MemoryInv, LimitsInv', NEW g \in Coordinator, NEW d, Departs(sched[g], d),
         sched' = [sched EXCEPT ![g] = d], UNCHANGED <<vars, runner>>,
         lost' \in Nat, lost <= lost'
  PROVE  MemoryInv'
BY DepartureRemembers, RecordKeeps

LEMMA CrashRemembers ==
  ASSUME Known, MemoryInv, LimitsInv', NEW g \in Coordinator, Crash(g)
  PROVE  MemoryInv'
<1> DEFINE d == [Unstarted EXCEPT !.pc = "crashed"]
<1>1. /\ sched' = [sched EXCEPT ![g] = d] /\ UNCHANGED vars /\ lost' = lost /\ lost \in Nat /\ lost' \in Nat /\ lost <= lost'
      /\ runner' = [w \in Task |-> IF w \in Owned(g) THEN "settled" ELSE runner[w]]
  BY NothingLost DEF Crash
<1>2. Departs(sched[g], d)
  BY DEF Departs, Unstarted, Alive
<1>3. RunnersInv(runner', status', lost')
  BY <1>1 DEF MemoryInv, RunnersInv, vars, workerVars
<1>4. /\ [Next]_vars /\ generation' = generation
      /\ UNCHANGED <<status, mergeState, inputs, dispatched, deadlineReached>>
      /\ RunIsOpen' = RunIsOpen
  BY <1>1 DEF vars, runVars, scanVars, workerVars, RunIsOpen
<1> HIDE DEF d
<1> QED BY <1>1, <1>2, <1>3, <1>4, DepartureRemembers, MemoryKeeps

-----------------------------------------------------------------------------
(* The scheduler.                                                             *)

LEMMA EndedDeparts ==
  ASSUME NEW c, NEW outcome
  PROVE  Departs(c, Ended(c, outcome))
<1> DEFINE r == IF c.external THEN c.result ELSE IF c.canceled THEN "canceled" ELSE outcome
           d == [Unstarted EXCEPT !.pc = "ended", !.result = r]
<1>1. Ended(c, outcome) = d
  BY DEF Ended
<1> HIDE DEF r
<1>2. d.pc = "ended"
  BY DEF Unstarted
<1> QED BY <1>1, <1>2 DEF Departs, Alive

LEMMA StartRemembers ==
  ASSUME Known, MemoryInv, LimitsInv', NEW g \in Coordinator, Start(g)
  PROVE  MemoryInv'
<1> DEFINE c == sched[g]
<1>1. /\ c \in Scheduler /\ lost \in Nat /\ c.pc = "starting"
      /\ UNCHANGED <<vars, runner>> /\ lost' = lost /\ lost' \in Nat /\ lost <= lost'
  BY RecordFacts, NothingLost DEF Start, Step
<1>2. CASE Step(g, Ended(c, "none"))
  BY <1>1, <1>2, EndedDeparts, DepartureKeeps DEF Step
<1>3. CASE Step(g, [c EXCEPT !.pc = "catching"])
  <2> DEFINE d == [c EXCEPT !.pc = "catching"]
  <2>1. Departs(c, d)
    BY <1>1 DEF Departs, Scheduler, Alive
  <2>2. sched' = [sched EXCEPT ![g] = d]
    BY <1>3 DEF Step
  <2> HIDE DEF d
  <2> QED BY <1>1, <2>1, <2>2, DepartureKeeps
<1>4. CASE Step(g, [c EXCEPT !.pc = "reconciling", !.reason = "saturated"])
  <2> DEFINE d == [c EXCEPT !.pc = "reconciling", !.reason = "saturated"]
  <2>1. Departs(c, d)
    BY <1>1 DEF Departs, Scheduler, Alive
  <2>2. sched' = [sched EXCEPT ![g] = d]
    BY <1>4 DEF Step
  <2> HIDE DEF d
  <2> QED BY <1>1, <2>1, <2>2, DepartureKeeps
<1>5. CASE Step(g, [c EXCEPT !.pc = "loop"])
  <2> DEFINE d == [c EXCEPT !.pc = "loop"]
  <2>1. SamePlaces(c, d)
    BY <1>1 DEF SamePlaces, Scheduler, AtHome, Alive, Starting, Looping
  <2>2. Informed(c, deadlineReached) => Informed(d, deadlineReached)
    BY <1>1 DEF Informed, Scheduler, AtHome, Alive, Starting, Looping
  <2>3. sched' = [sched EXCEPT ![g] = d]
    BY <1>5 DEF Step
  <2> HIDE DEF d
  <2> QED BY <1>1, <2>1, <2>2, <2>3, FlagsKeep
<1> QED BY <1>2, <1>3, <1>4, <1>5 DEF Start

\* Steps that leave.
LEMMA LeaveRemembers ==
  ASSUME Known, MemoryInv, LimitsInv', NEW g \in Coordinator, Alive(sched[g]),
         NEW to \in Pc \ {"none", "starting", "loop", "waiting"},
         Step(g, [sched[g] EXCEPT !.pc = to]), UNCHANGED vars, lost' \in Nat, lost <= lost'
  PROVE  MemoryInv'
<1> DEFINE c == sched[g]
           d == [c EXCEPT !.pc = to]
<1>1. c \in Scheduler
  BY RecordFacts
<1>2. Departs(c, d)
  BY <1>1 DEF Departs, Scheduler
<1>3. sched' = [sched EXCEPT ![g] = d] /\ UNCHANGED <<vars, runner>>
  BY DEF Step
<1> HIDE DEF d
<1> QED BY <1>2, <1>3, DepartureKeeps

LEMMA EndRemembers ==
  ASSUME Known, MemoryInv, LimitsInv', NEW g \in Coordinator, NEW outcome,
         Step(g, Ended(sched[g], outcome)), UNCHANGED vars, lost' \in Nat, lost <= lost'
  PROVE  MemoryInv'
<1>1. sched' = [sched EXCEPT ![g] = Ended(sched[g], outcome)] /\ UNCHANGED <<vars, runner>>
  BY DEF Step
<1>2. Departs(sched[g], Ended(sched[g], outcome))
  BY EndedDeparts
<1> QED BY <1>1, <1>2, DepartureKeeps

LEMMA PlainRemembers ==
  ASSUME Known, MemoryInv, LimitsInv', NEW g \in Coordinator,
         TurnAborted(g) \/ Unwind(g) \/ Publish(g) \/ Catch(g)
  PROVE  MemoryInv'
<1> DEFINE c == sched[g]
<1>0. lost \in Nat
  BY RecordFacts
<1> DEFINE Left == Pc \ {"none", "starting", "loop", "waiting"}
<1>1. /\ Alive(c) /\ UNCHANGED vars
      /\ lost' = lost \/ lost' = lost + 1
      /\ \/ \E to \in Left : Step(g, [c EXCEPT !.pc = to])
         \/ \E outcome : Step(g, Ended(c, outcome))
  <2>1. {"unwinding", "catching", "finishing", "failing"} \subseteq Left
    BY DEF Pc
  <2> HIDE DEF Left
  <2>2. CASE TurnAborted(g)
    BY <2>1, <2>2 DEF TurnAborted, Alive
  <2>3. CASE Unwind(g)
    BY <2>1, <2>3 DEF Unwind, Alive
  <2>4. CASE Publish(g)
    BY <2>1, <2>4 DEF Publish, Alive
  <2>5. CASE Catch(g)
    <3>1. UNCHANGED vars /\ (lost' = lost \/ lost' = lost + 1) /\ Alive(c)
      BY <2>5 DEF Catch, Alive
    <3>2. CASE Step(g, Ended(c, "none"))
      BY <3>1, <3>2
    <3>3. CASE Step(g, [c EXCEPT !.pc = "failing"])
      BY <2>1, <3>1, <3>3
    <3>4. CASE Step(g, Ended(c, IF runStatus = "running" THEN "replaced" ELSE runStatus))
      BY <3>1, <3>4
    <3> QED BY <2>5, <3>2, <3>3, <3>4 DEF Catch
  <2> QED BY <2>2, <2>3, <2>4, <2>5
<1>2. lost' \in Nat /\ lost <= lost'
  BY <1>0, <1>1
<1>3. CASE \E to \in Left : Step(g, [c EXCEPT !.pc = to])
  BY <1>1, <1>2, <1>3, LeaveRemembers
<1>4. CASE \E outcome : Step(g, Ended(c, outcome))
  BY <1>1, <1>2, <1>4, EndRemembers
<1> QED BY <1>1, <1>3, <1>4

\* Ended by the workbench: a run that is closed needs no memory.
LEMMA ClosingRemembers ==
  ASSUME Known, MemoryInv, LimitsInv', [Next]_vars, NEW g \in Coordinator, NEW d,
         Departs(sched[g], d), sched' = [sched EXCEPT ![g] = d], runner' = runner,
         lost' \in Nat, lost <= lost', generation' = generation,
         g = generation /\ ~RunIsOpen',
         \A w \in Task : status[w] = "none" => status'[w] = "none"
  PROVE  MemoryInv'
<1>1. RunnersInv(runner', status', lost')
  BY RecordFacts DEF MemoryInv, RunnersInv
<1>2. Informed(sched[g], deadlineReached) => Informed(d, deadlineReached')
  <2>1. Informed(sched[g], deadlineReached) => Informed(d, deadlineReached)
    BY DepartureRemembers
  <2> QED BY <2>1, TimePasses DEF Informed
<1> QED BY <1>1, <1>2, RecordFacts, MemoryKeeps

LEMMA SweptNone ==
  ASSUME TypeOK, CancelActiveWorkers
  PROVE  \A w \in Task : status[w] = "none" => status'[w] = "none"
BY DEF CancelActiveWorkers, Task, Worker, Active

LEMMA FinishRemembers ==
  ASSUME Known, MemoryInv, LimitsInv', [Next]_vars, NEW g \in Coordinator, Finish(g)
  PROVE  MemoryInv'
<1> DEFINE c == sched[g]
<1>1. /\ c \in Scheduler /\ lost \in Nat /\ Alive(c)
      /\ TypeOK
  BY RecordFacts DEF Finish, Alive, Known, LimitsInv
<1>2. PICK d : /\ \/ \E outcome : d = Ended(c, outcome)
                  \/ d = [c EXCEPT !.pc = "refinishing"]
                  \/ d = [c EXCEPT !.pc = "catching"]
               /\ Step(g, d)
  BY DEF Finish, AfterFinish
<1>3. /\ lost' = lost \/ lost' = lost + 1
      /\ FinishRequest(g) \/ UNCHANGED vars
  BY DEF Finish
<1>4. Departs(c, d)
  <2>1. CASE \E outcome : d = Ended(c, outcome)
    BY <2>1, EndedDeparts
  <2>2. CASE d = [c EXCEPT !.pc = "refinishing"] \/ d = [c EXCEPT !.pc = "catching"]
    BY <1>1, <2>2 DEF Departs, Scheduler
  <2> QED BY <1>2, <2>1, <2>2
<1>5. sched' = [sched EXCEPT ![g] = d] /\ runner' = runner
  BY <1>2 DEF Step
<1>6. lost' \in Nat /\ lost <= lost'
  BY <1>1, <1>3
<1>7. CASE UNCHANGED vars
  BY <1>4, <1>5, <1>6, <1>7, DepartureKeeps
<1>8. CASE FinishRequest(g)
  <2>1. g = generation
    BY <1>8, OnlyTheCurrent DEF FinishRequest, FinishDeepScan
  <2>2. generation' = generation /\ ~RunIsOpen' /\ CancelActiveWorkers
    BY <1>8 DEF FinishRequest, FinishDeepScan, RunIsOpen
  <2> QED BY <1>1, <1>4, <1>5, <1>6, <2>1, <2>2, SweptNone, ClosingRemembers
<1> QED BY <1>3, <1>7, <1>8

LEMMA FailRemembers ==
  ASSUME Known, MemoryInv, LimitsInv', [Next]_vars, NEW g \in Coordinator, Fail(g)
  PROVE  MemoryInv'
<1> DEFINE c == sched[g]
           d == Ended(c, "failed")
<1>1. /\ lost \in Nat /\ TypeOK
      /\ sched' = [sched EXCEPT ![g] = d] /\ runner' = runner
      /\ lost' = lost \/ lost' = lost + 1
      /\ FailDeepScan(g, "failed") \/ UNCHANGED vars
  BY RecordFacts DEF Fail, Step, Known, LimitsInv
<1>2. Departs(c, d)
  BY EndedDeparts
<1>3. lost' \in Nat /\ lost <= lost'
  BY <1>1
<1> HIDE DEF d
<1>4. CASE UNCHANGED vars
  BY <1>1, <1>2, <1>3, <1>4, DepartureKeeps
<1>5. CASE FailDeepScan(g, "failed")
  <2>1. g = generation
    BY <1>5, OnlyTheCurrent DEF FailDeepScan
  <2>2. generation' = generation /\ ~RunIsOpen' /\ CancelActiveWorkers
    BY <1>5 DEF FailDeepScan, RunIsOpen
  <2> QED BY <1>1, <1>2, <1>3, <2>1, <2>2, SweptNone, ClosingRemembers
<1> QED BY <1>1, <1>4, <1>5

LEMMA ReconcileRemembers ==
  ASSUME Known, MemoryInv, LimitsInv', NEW g \in Coordinator, Reconcile(g)
  PROVE  MemoryInv'
<1> DEFINE b == sched[g]
           S == LateAccepted(g)
           a == b.accepted \/ LateAccepted(g) # {}
           c == [b EXCEPT !.omitted = S, !.active = {}, !.settlements = <<>>, !.accepted = a]
<1>1. /\ b \in Scheduler /\ lost \in Nat /\ b.pc = "reconciling"
      /\ UNCHANGED <<vars, runner>> /\ lost' = lost /\ lost' \in Nat /\ lost <= lost'
      /\ \/ Step(g, [c EXCEPT !.pc = "catching"])
         \/ Step(g, Ended(c, "none"))
         \/ Step(g, [c EXCEPT !.pc = "publishing"])
  BY RecordFacts, NothingLost DEF Reconcile, Step
<1> HIDE DEF S, a
<1>2. CASE Step(g, Ended(c, "none"))
  <2>1. Departs(b, Ended(c, "none"))
    BY EndedDeparts DEF Departs, Ended, Unstarted, Alive
  <2> QED BY <1>1, <1>2, <2>1, DepartureKeeps DEF Step
<1>3. ASSUME NEW to \in {"catching", "publishing"}, Step(g, [c EXCEPT !.pc = to])
      PROVE  MemoryInv'
  <2> DEFINE d == [c EXCEPT !.pc = to]
  <2>1. Departs(b, d)
    BY <1>1 DEF Departs, Scheduler, Alive
  <2>2. sched' = [sched EXCEPT ![g] = d]
    BY <1>3 DEF Step
  <2> HIDE DEF d
  <2> QED BY <1>1, <2>1, <2>2, DepartureKeeps
<1> QED BY <1>1, <1>2, <1>3

-----------------------------------------------------------------------------
(* A settlement that is taken.                                                *)

\* What is left of the settlements, and of what they told.
LEMMA RestTells ==
  ASSUME NEW run, NEW st, NEW c, Fits(c, run, st), c.settlements # <<>>, Tells(c, st),
         NEW d, d.settlements = Tail(c.settlements)
  PROVE  Tells(d, st)
<1> DEFINE t == Tail(c.settlements)
           e == Head(c.settlements)
<1>1. \A i \in DOMAIN t : i + 1 \in DOMAIN c.settlements /\ t[i] = c.settlements[i + 1]
  BY HeadFacts
<1> HIDE DEF t, e
<1> QED BY <1>1 DEF Tells, t

\* The head is not a success unless it says so.
LEMMA HeadTells ==
  ASSUME NEW run, NEW st, NEW c, Fits(c, run, st), c.settlements # <<>>, Tells(c, st),
         NEW e, e = Head(c.settlements)
  PROVE  e.outcome \in Without => st[e.worker] # "succeeded"
<1>1. c.settlements \in Seq(Answer)
  BY DEF Fits, Sound, Scheduler
<1>2. 1 \in DOMAIN c.settlements /\ e = c.settlements[1]
  BY <1>1
<1> QED BY <1>2 DEF Tells

\* What is taken, and its worker.
LEMMA TakenRecord ==
  ASSUME Known, MemoryInv, NEW g \in Coordinator, NEW outcomes, NEW kind, Takes(g, outcomes, kind),
         NEW c, c = sched[g], NEW e, e = Head(c.settlements), NEW t, t = Taken(g)
  PROVE  /\ c \in Scheduler /\ t \in Scheduler /\ Fits(c, runner, status) /\ AtHome(c)
         /\ c.settlements # <<>> /\ e \in Answer /\ e.worker \in kind /\ e.outcome \in outcomes
         /\ SettlementFits(c, e, runner, status)
         /\ t.settlements = Tail(c.settlements)
         /\ t.active = c.active \ {e.worker} /\ t.reducer = c.reducer \ {e.worker}
         /\ t.held = c.held /\ t.buffer = c.buffer /\ t.dispatched = c.dispatched
         /\ t.abort = c.abort /\ t.discoveryAbort = c.discoveryAbort /\ t.deadline = c.deadline
         /\ t.canceled = c.canceled /\ t.external = c.external /\ t.pc = "loop"
<1>1. c \in Scheduler /\ Fits(c, runner, status) /\ c.settlements # <<>> /\ AtHome(c)
  BY RecordFacts DEF Takes, AtHome, Looping
<1>2. e \in Answer /\ SettlementFits(c, e, runner, status)
  BY <1>1, HeadFacts
<1>3. t \in Scheduler
  BY TakenFacts DEF Known
<1>4. t = [c EXCEPT !.settlements = Tail(@), !.active = @ \ {e.worker},
                    !.reducer = @ \ {e.worker}, !.pc = "loop"]
  BY DEF Taken
<1> QED BY <1>1, <1>2, <1>3, <1>4 DEF Takes, Scheduler

\* The workers and results of a record after it took a settlement of e's worker.
Released(c, d, e) ==
    /\ d.active = c.active \ {e.worker} /\ d.reducer = c.reducer \ {e.worker}
    /\ d.settlements = Tail(c.settlements) /\ d.dispatched = c.dispatched
    /\ d.deadline = c.deadline
    /\ AtHome(d) => d.abort = c.abort /\ d.canceled = c.canceled /\ d.external = c.external
    /\ c.discoveryAbort # "none" => d.discoveryAbort # "none"
    /\ d.pc \in {"loop", "unwinding", "reconciling"}

\* It is enough that what is known stays known.
LEMMA ReleasedKeeps ==
  ASSUME Known, MemoryInv, LimitsInv', NEW g \in Coordinator, NEW c, c = sched[g],
         c.pc = "waiting", c.settlements # <<>>, NEW e, e = Head(c.settlements),
         NEW d, Released(c, d, e), Step(g, d), UNCHANGED <<vars, lost>>,
         AtHome(d) /\ Knows(c, status, mergeState, inputs) /\ Tells(c, status)
             => Knows(d, status, mergeState, inputs)
  PROVE  MemoryInv'
<1>1. /\ c \in Scheduler /\ Fits(c, runner, status) /\ c.active \subseteq Discovery
      /\ c.dispatched \in Int /\ dispatched \in Int /\ lost \in Nat
  BY RecordFacts
<1>2. /\ sched' = [sched EXCEPT ![g] = d] /\ UNCHANGED <<vars, runner>>
      /\ lost' \in Nat /\ lost <= lost' /\ lost' = lost
  BY NothingLost DEF Step
<1>3. Alive(c) /\ AtHome(c)
  BY DEF Alive, AtHome, Looping
<1>4. Informed(c, deadlineReached) => Informed(d, deadlineReached)
  BY <1>3 DEF Informed, Released
<1>5. ASSUME Remembers(c, status, mergeState, inputs, dispatched, lost)
      PROVE  Remembers(d, status, mergeState, inputs, dispatched, lost')
  <2>1. CASE ~AtHome(d)
    BY <1>1, <1>3, <1>5, <2>1, LeavingRemembers DEF Released
  <2>2. CASE AtHome(d)
    <3> DEFINE b == [pc |-> "unwinding", active |-> d.active, dispatched |-> d.dispatched]
    <3>1. Counts(d, status, dispatched)
      <4>1. Remembers(b, status, mergeState, inputs, dispatched, lost')
        BY <1>1, <1>3, <1>5, LeavingRemembers DEF Released, AtHome, Starting, Looping, Alive
      <4> QED BY <4>1 DEF Remembers, Counts, Unborn, Alive
    <3>2. ASSUME Calm(d, lost')
          PROVE  Knows(d, status, mergeState, inputs) /\ Tells(d, status)
      <4>1. Calm(c, lost)
        BY <1>2, <2>2, <3>2 DEF Calm, Released
      <4>2. Knows(c, status, mergeState, inputs) /\ Tells(c, status)
        BY <1>3, <1>5, <4>1 DEF Remembers
      <4>3. Tells(d, status)
        BY <1>1, <4>2, RestTells DEF Released
      <4> QED BY <2>2, <4>2, <4>3
    <3> QED BY <3>1, <3>2 DEF Remembers
  <2> QED BY <2>1, <2>2
<1> QED BY <1>2, <1>4, <1>5, RecordKeeps

LEMMA GivenUp ==
  ASSUME NEW t \in Scheduler
  PROVE  LET d == GiveUp(t)
         IN  /\ d.active = t.active /\ d.reducer = t.reducer /\ d.settlements = t.settlements
             /\ d.dispatched = t.dispatched /\ d.deadline = t.deadline
             /\ t.discoveryAbort # "none" => d.discoveryAbort # "none"
             /\ d.pc = "unwinding"
BY DEF GiveUp, AbortAll, Scheduler

LEMMA TakeFailureRemembers ==
  ASSUME Known, MemoryInv, LimitsInv', NEW g \in Coordinator, TakeFailure(g), UNCHANGED <<vars, lost>>
  PROVE  MemoryInv'
<1> DEFINE c == sched[g]
           e == Head(c.settlements)
           t == Taken(g)
           d == GiveUp(t)
<1>1. PICK outcomes, kind : Takes(g, outcomes, kind)
  BY DEF TakeFailure
<1>2. c.pc = "waiting" /\ c.settlements # <<>> /\ Step(g, d)
  BY DEF TakeFailure, Takes
<1>3. /\ t \in Scheduler
      /\ t.active = c.active \ {e.worker} /\ t.reducer = c.reducer \ {e.worker}
      /\ t.settlements = Tail(c.settlements) /\ t.dispatched = c.dispatched
      /\ t.deadline = c.deadline /\ t.discoveryAbort = c.discoveryAbort
  BY <1>1, TakenRecord
<1> HIDE DEF t
<1>4. Released(c, d, e) /\ ~AtHome(d)
  BY <1>3, GivenUp DEF Released, AtHome, Starting, Looping
<1> HIDE DEF d, e
<1> QED BY <1>2, <1>4, ReleasedKeeps DEF e

\* A discovery that is taken without a result.
LEMMA WithoutResult ==
  ASSUME NEW run, NEW st, NEW ms, NEW inp, NEW c, Fits(c, run, st), c.settlements # <<>>,
         NEW e, e = Head(c.settlements), e.outcome \in Without, e.worker \in Discovery,
         NEW d, d.active = c.active \ {e.worker}, d.reducer = c.reducer \ {e.worker},
         d.held = c.held, d.buffer = c.buffer,
         Knows(c, st, ms, inp), Tells(c, st)
  PROVE  Knows(d, st, ms, inp)
<1>1. st[e.worker] # "succeeded"
  BY HeadTells
<1>2. d.reducer = c.reducer
  BY WorkersAssumption DEF Fits, Sound, Scheduler
<1>3. Unread(d, st) = Unread(c, st) /\ Withheld(d, st) = Withheld(c, st)
  BY <1>1, <1>2 DEF Unread, Withheld
<1> QED BY <1>2, <1>3 DEF Knows

LEMMA TakeReplacedRemembers ==
  ASSUME Known, MemoryInv, LimitsInv', NEW g \in Coordinator, TakeReplaced(g), UNCHANGED <<vars, lost>>
  PROVE  MemoryInv'
<1> DEFINE c == sched[g]
           e == Head(c.settlements)
           t == Taken(g)
           n == Head(sched[g].settlements).errors
           b == [t EXCEPT !.replaced = TRUE, !.errors = n]
<1>1. Takes(g, {"replaced"}, Discovery)
  BY DEF TakeReplaced
<1>2. PICK d \in {b, GiveUp(b)} : Step(g, d)
  BY DEF TakeReplaced, Unless
<1>3. /\ t \in Scheduler /\ c \in Scheduler /\ Fits(c, runner, status) /\ c.settlements # <<>>
      /\ c.pc = "waiting" /\ e \in Answer /\ e.outcome \in Without /\ e.worker \in Discovery
      /\ t.active = c.active \ {e.worker} /\ t.reducer = c.reducer \ {e.worker}
      /\ t.settlements = Tail(c.settlements) /\ t.dispatched = c.dispatched
      /\ t.deadline = c.deadline /\ t.discoveryAbort = c.discoveryAbort /\ t.abort = c.abort
      /\ t.canceled = c.canceled /\ t.external = c.external /\ t.pc = "loop"
      /\ t.held = c.held /\ t.buffer = c.buffer
  <2>1. c.pc = "waiting" /\ "replaced" \in Without
    BY <1>1 DEF Takes, Without
  <2> QED BY <1>1, <2>1, TakenRecord
<1>4. n \in Nat
  BY <1>3 DEF Answer
<1> HIDE DEF t, n
<1>5. /\ b \in Scheduler /\ b.active = t.active /\ b.reducer = t.reducer
      /\ b.settlements = t.settlements /\ b.dispatched = t.dispatched
      /\ b.deadline = t.deadline /\ b.discoveryAbort = t.discoveryAbort /\ b.abort = t.abort
      /\ b.canceled = t.canceled /\ b.external = t.external /\ b.pc = t.pc
      /\ b.held = t.held /\ b.buffer = t.buffer
  BY <1>3, <1>4 DEF Scheduler
<1> HIDE DEF b
<1>6. CASE d = b
  <2>1. Released(c, d, e)
    BY <1>3, <1>5, <1>6 DEF Released
  <2>2. Knows(c, status, mergeState, inputs) /\ Tells(c, status)
          => Knows(d, status, mergeState, inputs)
    BY <1>3, <1>5, <1>6, WithoutResult
  <2> HIDE DEF e
  <2> QED BY <1>2, <1>3, <2>1, <2>2, ReleasedKeeps DEF e
<1>7. CASE d = GiveUp(b)
  <2>1. Released(c, d, e) /\ ~AtHome(d)
    BY <1>3, <1>5, <1>7, GivenUp DEF Released, AtHome, Starting, Looping
  <2> HIDE DEF e
  <2> QED BY <1>2, <1>3, <2>1, ReleasedKeeps DEF e
<1> QED BY <1>6, <1>7

LEMMA TakeCanceledRemembers ==
  ASSUME Known, MemoryInv, LimitsInv', NEW g \in Coordinator, TakeCanceled(g), UNCHANGED <<vars, lost>>
  PROVE  MemoryInv'
<1> DEFINE c == sched[g]
           e == Head(c.settlements)
           d == Taken(g)
<1>1. Takes(g, {"canceled"}, Discovery) /\ Step(g, d)
  BY DEF TakeCanceled
<1>2. /\ Fits(c, runner, status) /\ c.settlements # <<>>
      /\ c.pc = "waiting" /\ e.outcome \in Without /\ e.worker \in Discovery
      /\ d.active = c.active \ {e.worker} /\ d.reducer = c.reducer \ {e.worker}
      /\ d.settlements = Tail(c.settlements) /\ d.dispatched = c.dispatched
      /\ d.deadline = c.deadline /\ d.discoveryAbort = c.discoveryAbort /\ d.abort = c.abort
      /\ d.canceled = c.canceled /\ d.external = c.external /\ d.pc = "loop"
      /\ d.held = c.held /\ d.buffer = c.buffer
  <2>1. c.pc = "waiting" /\ "canceled" \in Without
    BY <1>1 DEF Takes, Without
  <2> QED BY <1>1, <2>1, TakenRecord
<1> HIDE DEF d
<1>3. Released(c, d, e)
  BY <1>2 DEF Released
<1>4. Knows(c, status, mergeState, inputs) /\ Tells(c, status)
        => Knows(d, status, mergeState, inputs)
  BY <1>2, WithoutResult
<1> HIDE DEF e
<1> QED BY <1>1, <1>2, <1>3, <1>4, ReleasedKeeps DEF e
LEMMA TakeAcceptedRemembers ==
  ASSUME Known, MemoryInv, LimitsInv', NEW g \in Coordinator, TakeAccepted(g), UNCHANGED <<vars, lost>>
  PROVE  MemoryInv'
<1> DEFINE c == sched[g]
           e == Head(c.settlements)
           t == Taken(g)
           d == [t EXCEPT !.accepted = TRUE, !.errors = 0,
                          !.buffer = @ \cup {Head(sched[g].settlements).worker}]
<1>1. Takes(g, {"succeeded"}, Discovery) /\ Step(g, d)
  BY DEF TakeAccepted
<1>2. /\ t \in Scheduler /\ c \in Scheduler /\ c.settlements # <<>>
      /\ e.outcome = "succeeded" /\ e.worker \in Discovery
      /\ SettlementFits(c, e, runner, status)
      /\ t.active = c.active \ {e.worker} /\ t.reducer = c.reducer \ {e.worker}
      /\ t.settlements = Tail(c.settlements) /\ t.dispatched = c.dispatched
      /\ t.deadline = c.deadline /\ t.discoveryAbort = c.discoveryAbort /\ t.abort = c.abort
      /\ t.canceled = c.canceled /\ t.external = c.external /\ t.pc = "loop"
      /\ t.held = c.held /\ t.buffer = c.buffer
  BY <1>1, TakenRecord
<1>3. c.pc = "waiting"
  BY <1>1 DEF Takes
<1> HIDE DEF t
<1>4. /\ d.active = t.active /\ d.reducer = t.reducer
      /\ d.settlements = t.settlements /\ d.dispatched = t.dispatched
      /\ d.deadline = t.deadline /\ d.discoveryAbort = t.discoveryAbort /\ d.abort = t.abort
      /\ d.canceled = t.canceled /\ d.external = t.external /\ d.pc = t.pc
      /\ d.held = t.held /\ d.buffer = t.buffer \cup {e.worker}
  BY <1>2 DEF Scheduler
<1> HIDE DEF d
<1>5. Released(c, d, e)
  BY <1>2, <1>4 DEF Released
<1>6. ASSUME Knows(c, status, mergeState, inputs)
      PROVE  Knows(d, status, mergeState, inputs)
  <2>1. /\ e.worker \notin Reducer /\ c.reducer \subseteq Reducer
        /\ e.worker \in Hands(c) /\ status[e.worker] = "succeeded"
    BY <1>2, WorkersAssumption DEF Scheduler, SettlementFits
  <2>2. e.worker \in c.active /\ d.reducer = c.reducer
    BY <1>2, <1>4, <2>1 DEF Hands
  <2>3. /\ Withheld(d, status) = Withheld(c, status)
        /\ Unread(c, status) = Unread(d, status) \cup {e.worker}
    BY <1>2, <1>4, <2>1, <2>2 DEF Withheld, Unread
  <2> HIDE DEF e
  <2> QED BY <1>2, <1>4, <1>6, <2>2, <2>3 DEF Knows
<1> HIDE DEF e
<1> QED BY <1>1, <1>2, <1>3, <1>5, <1>6, ReleasedKeeps DEF e

\* The only reducer is taken.
LEMMA OnlyReducer ==
  ASSUME NEW run, NEW st, NEW c, Fits(c, run, st), NEW e, SettlementFits(c, e, run, st),
         e.worker \in Reducer
  PROVE  /\ c.reducer = {e.worker} /\ c.active \ {e.worker} = c.active
BY WorkersAssumption DEF Fits, Sound, Scheduler, SettlementFits, Hands

LEMMA TakeFailedReducerRemembers ==
  ASSUME Known, MemoryInv, LimitsInv', NEW g \in Coordinator, TakeFailedReducer(g),
         UNCHANGED <<vars, lost>>
  PROVE  MemoryInv'
<1> DEFINE c == sched[g]
           e == Head(c.settlements)
           t == Taken(g)
           S == c.buffer \cup c.held
           n == t.failures + 1
           b == [t EXCEPT !.buffer = S, !.held = {}, !.failures = n]
<1>1. Takes(g, {"failed"}, Reducer)
  BY DEF TakeFailedReducer
<1>2. PICK d \in {b, GiveUp(b)} : Step(g, d)
  BY DEF TakeFailedReducer, Unless, Returned
<1>3. /\ t \in Scheduler /\ c \in Scheduler /\ Fits(c, runner, status) /\ c.settlements # <<>>
      /\ e.outcome = "failed" /\ e.worker \in Reducer /\ SettlementFits(c, e, runner, status)
      /\ t.active = c.active \ {e.worker} /\ t.reducer = c.reducer \ {e.worker}
      /\ t.settlements = Tail(c.settlements) /\ t.dispatched = c.dispatched
      /\ t.deadline = c.deadline /\ t.discoveryAbort = c.discoveryAbort /\ t.abort = c.abort
      /\ t.canceled = c.canceled /\ t.external = c.external /\ t.pc = "loop"
      /\ t.held = c.held /\ t.buffer = c.buffer
  BY <1>1, TakenRecord
<1>4. c.pc = "waiting" /\ S \in SUBSET Discovery /\ n \in Nat
  BY <1>1, <1>3 DEF Takes, Scheduler
<1> HIDE DEF t, S, n
<1>5. /\ b \in Scheduler /\ b.active = t.active /\ b.reducer = t.reducer
      /\ b.settlements = t.settlements /\ b.dispatched = t.dispatched
      /\ b.deadline = t.deadline /\ b.discoveryAbort = t.discoveryAbort /\ b.abort = t.abort
      /\ b.canceled = t.canceled /\ b.external = t.external /\ b.pc = t.pc
      /\ b.held = {} /\ b.buffer = S
  BY <1>3, <1>4 DEF Scheduler
<1> HIDE DEF b
<1>6. CASE d = b
  <2>1. Released(c, d, e)
    BY <1>3, <1>5, <1>6 DEF Released
  <2>2. ASSUME Knows(c, status, mergeState, inputs), Tells(c, status)
        PROVE  Knows(d, status, mergeState, inputs)
    <3>1. status[e.worker] # "succeeded"
      BY <1>3, <2>2, HeadTells DEF Without
    <3>2. c.reducer = {e.worker} /\ c.active \ {e.worker} = c.active
      BY <1>3, OnlyReducer
    <3>3. d.reducer = {} /\ d.active = c.active /\ d.held = {} /\ d.buffer = c.buffer \cup c.held
      BY <1>3, <1>5, <1>6, <3>2 DEF S
    <3>4. Withheld(c, status) = c.held /\ Withheld(d, status) = {} /\ Unread(d, status) = Unread(c, status)
      BY <3>1, <3>2, <3>3 DEF Withheld, Unread
    <3> HIDE DEF e
    <3> QED BY <2>2, <3>3, <3>4 DEF Knows
  <2> HIDE DEF e
  <2> QED BY <1>2, <1>3, <1>4, <2>1, <2>2, ReleasedKeeps DEF e
<1>7. CASE d = GiveUp(b)
  <2>1. Released(c, d, e) /\ ~AtHome(d)
    BY <1>3, <1>5, <1>7, GivenUp DEF Released, AtHome, Starting, Looping
  <2> HIDE DEF e
  <2> QED BY <1>2, <1>3, <1>4, <2>1, ReleasedKeeps DEF e
<1> QED BY <1>6, <1>7

LEMMA TakeReducedRemembers ==
  ASSUME Known, MemoryInv, LimitsInv', NEW g \in Coordinator, TakeReduced(g), UNCHANGED <<vars, lost>>
  PROVE  MemoryInv'
<1> DEFINE c == sched[g]
           e == Head(c.settlements)
           t == Taken(g)
           b == [t EXCEPT !.held = {}, !.failures = 0, !.previous = TRUE,
                          !.noNew = e.noNew, !.errors = e.errors]
           f == [AbortAll(b, "saturated") EXCEPT !.pc = "reconciling", !.reason = "saturated"]
<1>1. Takes(g, {"succeeded"}, Reducer)
  BY DEF TakeReduced
<1>2. PICK d \in {b, f} : Step(g, d)
  BY DEF TakeReduced, Reduced
<1>3. /\ t \in Scheduler /\ c \in Scheduler /\ Fits(c, runner, status) /\ c.settlements # <<>>
      /\ e \in Answer
      /\ e.outcome = "succeeded" /\ e.worker \in Reducer /\ SettlementFits(c, e, runner, status)
      /\ t.active = c.active \ {e.worker} /\ t.reducer = c.reducer \ {e.worker}
      /\ t.settlements = Tail(c.settlements) /\ t.dispatched = c.dispatched
      /\ t.deadline = c.deadline /\ t.discoveryAbort = c.discoveryAbort /\ t.abort = c.abort
      /\ t.canceled = c.canceled /\ t.external = c.external /\ t.pc = "loop"
      /\ t.held = c.held /\ t.buffer = c.buffer
  BY <1>1, TakenRecord
<1>4. c.pc = "waiting" /\ e.noNew \in Nat /\ e.errors \in Nat
  BY <1>1, <1>3 DEF Takes, Answer
<1> HIDE DEF t, e
<1>5. /\ b \in Scheduler /\ b.active = t.active /\ b.reducer = t.reducer
      /\ b.settlements = t.settlements /\ b.dispatched = t.dispatched
      /\ b.deadline = t.deadline /\ b.discoveryAbort = t.discoveryAbort /\ b.abort = t.abort
      /\ b.canceled = t.canceled /\ b.external = t.external /\ b.pc = t.pc
      /\ b.held = {} /\ b.buffer = t.buffer
  BY <1>3, <1>4 DEF Scheduler
<1> HIDE DEF b
<1>6. CASE d = b
  <2>1. Released(c, d, e)
    BY <1>3, <1>5, <1>6 DEF Released
  <2>2. ASSUME Knows(c, status, mergeState, inputs)
        PROVE  Knows(d, status, mergeState, inputs)
    <3>1. status[e.worker] = "succeeded"
      BY <1>3 DEF SettlementFits
    <3>2. c.reducer = {e.worker} /\ c.active \ {e.worker} = c.active
      BY <1>3, OnlyReducer
    <3>3. d.reducer = {} /\ d.active = c.active /\ d.held = {} /\ d.buffer = c.buffer
      BY <1>3, <1>5, <1>6, <3>2
    <3>4. Withheld(c, status) = {} /\ Withheld(d, status) = {} /\ Unread(d, status) = Unread(c, status)
      BY <3>1, <3>2, <3>3 DEF Withheld, Unread
    <3> QED BY <2>2, <3>3, <3>4 DEF Knows
  <2> QED BY <1>2, <1>3, <1>4, <2>1, <2>2, ReleasedKeeps DEF e
<1>7. CASE d = f
  <2>1. /\ f.active = b.active /\ f.reducer = b.reducer /\ f.settlements = b.settlements
        /\ f.dispatched = b.dispatched /\ f.deadline = b.deadline
        /\ b.discoveryAbort # "none" => f.discoveryAbort # "none"
        /\ f.pc = "reconciling"
    BY <1>5 DEF AbortAll, Scheduler
  <2>2. Released(c, d, e) /\ ~AtHome(d)
    BY <1>3, <1>5, <1>7, <2>1 DEF Released, AtHome, Starting, Looping
  <2> QED BY <1>2, <1>3, <1>4, <2>2, ReleasedKeeps DEF e
<1> QED BY <1>6, <1>7

LEMMA TakeRemembers ==
  ASSUME Known, MemoryInv, LimitsInv', NEW g \in Coordinator, TakeSettlement(g)
  PROVE  MemoryInv'
BY TakeFailureRemembers, TakeReplacedRemembers, TakeCanceledRemembers, TakeAcceptedRemembers,
   TakeFailedReducerRemembers, TakeReducedRemembers DEF TakeSettlement

-----------------------------------------------------------------------------
(* A turn.                                                                    *)

LEMMA RoomIsAdmitted ==
  ASSUME NEW c, Sound(c)
  PROVE  Room(c) > 0 => c.dispatched + Room(c) <= MaxDiscoveryRuns
<1> DEFINE k == Cardinality(c.active)
           f == Workers - k
           r == MaxDiscoveryRuns - c.dispatched
<1>1. k \in Nat /\ c.dispatched \in Int /\ Workers \in Nat /\ MaxDiscoveryRuns \in Nat
  BY CoordinatorAssumption, ConfigAssumption, FiniteDiscoveries DEF Sound, Scheduler
<1>2. f \in Int /\ r \in Int /\ r = MaxDiscoveryRuns - c.dispatched
  BY <1>1
<1>3. Room(c) = IF c.deadline \/ (c.previous /\ c.noNew >= StopAfterNoNew) THEN 0
                ELSE IF f < r THEN f ELSE r
  BY DEF Room
<1> HIDE DEF k, f, r
<1> QED BY <1>1, <1>2, <1>3

\* The discoveries that a turn starts are fewer than the dispatches left.
LEMMA NewAreAdmitted ==
  ASSUME NEW c, Sound(c), NEW run, NEW new,
         new = {} \/ new = Least(Idle(Discovery, run), Room(c))
  PROVE  /\ Cardinality(new) \in Nat /\ new \subseteq Idle(Discovery, run)
         /\ new # {} => c.dispatched + Cardinality(new) <= MaxDiscoveryRuns
<1>1. Idle(Discovery, run) \subseteq Discovery /\ Room(c) \in Int
  BY RoomIsFree DEF Idle
<1> DEFINE r == Room(c)
           L == Least(Idle(Discovery, run), r)
<1>2. /\ L \subseteq Idle(Discovery, run)
      /\ r <= 0 => L = {}
      /\ r >= 0 => Cardinality(L) <= r
  BY <1>1, LeastIsSmall
<1>3. new \subseteq Idle(Discovery, run) /\ Cardinality(new) \in Nat
  BY <1>1, <1>2, FiniteDiscoveries
<1>4. r > 0 => c.dispatched + r <= MaxDiscoveryRuns
  BY RoomIsAdmitted
<1>5. c.dispatched \in Int /\ r \in Int /\ MaxDiscoveryRuns \in Nat
  BY <1>1, ConfigAssumption DEF Sound, Scheduler
<1>6. new = {} \/ new = L
  OBVIOUS
<1> HIDE DEF r, L
<1>7. ASSUME new # {} PROVE c.dispatched + Cardinality(new) <= MaxDiscoveryRuns
  <2>1. new = L /\ r > 0
    BY <1>2, <1>5, <1>6, <1>7
  <2>2. Cardinality(new) <= r
    BY <1>2, <1>5, <2>1
  <2> DEFINE k == Cardinality(new)
  <2>3. k \in Nat /\ k <= r /\ c.dispatched + r <= MaxDiscoveryRuns
    BY <1>3, <1>4, <2>1, <2>2
  <2> HIDE DEF k
  <2>4. c.dispatched + k <= MaxDiscoveryRuns
    BY <1>5, <2>3
  <2> QED BY <2>4 DEF k
<1> QED BY <1>3, <1>7

\* A turn takes note of as many as it starts.
LEMMA TurnCounts ==
  ASSUME NEW c, NEW d, NEW new, NEW st, NEW disp \in Int,
         c.active \subseteq Discovery, c.dispatched \in Int, Cardinality(new) \in Nat,
         new \subseteq Discovery, d.active = c.active \cup new, Alive(c),
         d.dispatched = c.dispatched + Cardinality(new),
         new # {} => c.dispatched + Cardinality(new) <= MaxDiscoveryRuns,
         Counts(c, st, disp)
  PROVE  Counts(d, st, disp)
<1>1. Unborn(d, st) \subseteq Unborn(c, st) \cup new /\ Unborn(c, st) \subseteq Discovery
  BY DEF Unborn
<1> DEFINE S == Unborn(c, st)
           u == Cardinality(S)
           v == Cardinality(Unborn(d, st))
           k == Cardinality(new)
<1>2. IsFiniteSet(S) /\ IsFiniteSet(new) /\ IsFiniteSet(S \cup new) /\ u \in Nat
      /\ Cardinality(S \cup new) \in Nat
  <2>1. S \cup new \subseteq Discovery
    BY <1>1
  <2> QED BY <1>1, <2>1, FiniteDiscoveries
<1>3. v <= Cardinality(S \cup new) /\ v \in Nat
  <2>1. S \cup new \subseteq Discovery
    BY <1>1
  <2> QED BY <1>1, <2>1, SmallerIsSmaller
<1>4. Cardinality(S \cup new) <= u + k
  <2> DEFINE i == Cardinality(S \cap new)
  <2>1. Cardinality(S \cup new) = u + k - i
    BY <1>2, FS_Union
  <2>2. i \in Nat
    BY <1>1, FiniteDiscoveries
  <2>3. u \in Nat /\ k \in Nat
    BY <1>2
  <2> HIDE DEF i, u, k
  <2> QED BY <2>1, <2>2, <2>3
<1> DEFINE m == Cardinality(S \cup new)
<1>5. disp + u <= c.dispatched /\ c.dispatched <= MaxDiscoveryRuns
  BY DEF Counts
<1>6. /\ v <= m /\ m <= u + k /\ v \in Nat /\ m \in Nat /\ u \in Nat /\ k \in Nat
      /\ d.dispatched = c.dispatched + k
      /\ new # {} => c.dispatched + k <= MaxDiscoveryRuns
      /\ new = {} => k = 0
  BY <1>2, <1>3, <1>4, FS_EmptySet
<1> HIDE DEF u, v, k, m, S
<1>7. disp + v <= d.dispatched /\ d.dispatched <= MaxDiscoveryRuns
  BY <1>5, <1>6, ConfigAssumption
<1> QED BY <1>7 DEF Counts, v

LEMMA TurnKnows ==
  ASSUME NEW c, NEW d, NEW st, NEW ms, NEW inp, NEW new, NEW more,
         Knows(c, st, ms, inp),
         d.active = c.active \cup new, d.reducer = c.reducer \cup more,
         \A w \in new \cup more : st[w] = "none",
         \/ more = {} /\ d.held = c.held /\ d.buffer = c.buffer
         \/ more # {} /\ c.reducer = {} /\ d.held = c.buffer /\ d.buffer = {}
  PROVE  Knows(d, st, ms, inp)
<1>1. \A x \in c.buffer \cup c.held : x \in c.active => FALSE
  BY DEF Knows
<1>2. Unread(d, st) = Unread(c, st)
  BY DEF Unread
<1>3. \A x \in c.buffer : st[x] = "succeeded"
  BY DEF Knows, Remaining
<1>4. CASE more = {}
  <2>1. d.reducer = c.reducer /\ d.held = c.held /\ d.buffer = c.buffer
    BY <1>4
  <2>2. Withheld(d, st) = Withheld(c, st)
    BY <2>1 DEF Withheld
  <2>3. d.active \cap (d.buffer \cup d.held) = {}
    <3>1. c.held \cap new = {}
      BY DEF Knows
    <3> QED BY <1>3, <2>1, <3>1 DEF Knows
  <2> QED BY <1>2, <2>1, <2>2, <2>3 DEF Knows
<1>5. CASE more # {}
  <2>1. c.held = {} /\ d.held = c.buffer /\ d.buffer = {} /\ d.reducer = more
    BY <1>5 DEF Knows
  <2>2. Withheld(d, st) = c.buffer /\ Withheld(c, st) = {}
    BY <2>1 DEF Withheld
  <2>3. d.active \cap (d.buffer \cup d.held) = {}
    BY <1>3, <2>1 DEF Knows
  <2>4. \A r \in d.reducer : st[r] = "none"
    BY <2>1
  <2>5. Remaining(st, ms) = d.buffer \cup Unread(d, st) \cup Withheld(d, st)
    BY <1>2, <2>1, <2>2 DEF Knows
  <2> QED BY <1>3, <1>5, <2>1, <2>3, <2>4, <2>5 DEF Knows
<1> QED BY <1>4, <1>5

LEMMA TurnRemembers ==
  ASSUME Known, MemoryInv, LimitsInv', NEW g \in Coordinator, Turn(g)
  PROVE  MemoryInv'
<1> DEFINE c == sched[g]
           quiet == c.settlements = <<>>
           new == IF quiet THEN Fresh(Discovery, Room(c)) ELSE {}
           A == c.active \cup new
           n == c.dispatched + Cardinality(new)
           reduces == quiet /\ c.reducer = {} /\ ReducerReady(c, A, n)
           R == IF reduces THEN Fresh(Reducer, 1) ELSE c.reducer
           more == R \ c.reducer
           out == A = {} /\ R = {}
           H == IF reduces THEN c.buffer ELSE c.held
           B == IF reduces THEN {} ELSE c.buffer
           to == IF ~out THEN "waiting"
                 ELSE IF c.buffer # {} THEN "loop"
                 ELSE IF ~c.previous /\ c.replaced THEN "catching"
                 ELSE "reconciling"
           d == [c EXCEPT !.active = A, !.dispatched = n, !.reducer = R, !.held = H,
                          !.buffer = B, !.pc = to]
           S == new \cup more
<1>1. /\ c.pc = "loop" /\ c.abort = "none"
      /\ sched' = [sched EXCEPT ![g] = d]
      /\ runner' = Prepared(runner, S)
      /\ UNCHANGED <<vars, lost>>
      /\ reduces => R # {}
  BY DEF Turn, Prepared
<1>2. /\ Fits(c, runner, status) /\ c \in Scheduler /\ Sound(c)
      /\ RowsInv(runner, status) /\ dispatched \in Int
      /\ c.active \subseteq Discovery /\ c.dispatched \in Int
  BY RecordFacts, GoodParts DEF Known
<1>3. /\ Fresh(Discovery, Room(c)) = Least(Idle(Discovery, runner), Room(c))
      /\ Fresh(Reducer, 1) \subseteq Idle(Reducer, runner)
  BY DEF Fresh, Least, Idle
<1>4. /\ Cardinality(new) \in Nat /\ new \subseteq Idle(Discovery, runner)
      /\ new # {} => c.dispatched + Cardinality(new) <= MaxDiscoveryRuns
  BY <1>2, <1>3, NewAreAdmitted
<1>5. /\ more \subseteq Idle(Reducer, runner) /\ R = c.reducer \cup more
      /\ \/ more = {} /\ H = c.held /\ B = c.buffer
         \/ more # {} /\ c.reducer = {} /\ H = c.buffer /\ B = {}
  BY <1>1, <1>3
<1>6. /\ d = [c EXCEPT !.active = A, !.dispatched = n, !.reducer = R, !.held = H,
                       !.buffer = B, !.pc = to]
      /\ A = c.active \cup new /\ S = new \cup more /\ n = c.dispatched + Cardinality(new)
      /\ to \in {"waiting", "loop", "catching", "reconciling"}
  OBVIOUS
<1> HIDE DEF c, quiet, new, A, n, reduces, R, more, out, H, B, to, d, S
<1>7. /\ d.active = A /\ d.dispatched = n /\ d.reducer = R /\ d.held = H
      /\ d.buffer = B /\ d.pc = to /\ d.settlements = c.settlements
      /\ d.abort = c.abort /\ d.discoveryAbort = c.discoveryAbort
      /\ d.canceled = c.canceled /\ d.external = c.external /\ d.deadline = c.deadline
  BY <1>2, <1>6, Zenon DEF Scheduler
<1>8. /\ \A w \in S : w \in Task /\ runner[w] = "idle" /\ status[w] = "none"
      /\ \A w \in Task : runner'[w] = IF w \in S THEN "prepare" ELSE runner[w]
  BY <1>1, <1>2, <1>4, <1>5, <1>6 DEF Idle, Task, RowsInv, Prepared
<1>9. /\ status' = status /\ generation' = generation /\ deadlineReached' = deadlineReached
      /\ mergeState' = mergeState /\ inputs' = inputs /\ dispatched' = dispatched
      /\ RunIsOpen' = RunIsOpen /\ [Next]_vars /\ lost' = lost
  BY <1>1 DEF vars, runVars, scanVars, workerVars, RunIsOpen
<1>10. RunnersInv(runner', status', lost')
  BY <1>8, <1>9 DEF MemoryInv, RunnersInv
<1>11. Alive(c) /\ AtHome(c)
  BY <1>1 DEF Alive, AtHome, Looping
<1>12. Informed(c, deadlineReached) => Informed(d, deadlineReached')
  BY <1>1, <1>7, <1>9, <1>11 DEF Informed
<1>13. ASSUME Remembers(c, status, mergeState, inputs, dispatched, lost)
       PROVE  Remembers(d, status, mergeState, inputs, dispatched, lost)
  <2>1. Counts(d, status, dispatched)
    <3>1. new \subseteq Discovery /\ Counts(c, status, dispatched)
      BY <1>4, <1>13 DEF Idle, Remembers
    <3> QED BY <1>2, <1>4, <1>6, <1>7, <1>11, <3>1, TurnCounts
  <2>2. ASSUME Calm(d, lost)
        PROVE  Knows(d, status, mergeState, inputs) /\ Tells(d, status)
    <3>1. Knows(c, status, mergeState, inputs) /\ Tells(c, status)
      BY <1>7, <1>11, <1>13, <2>2 DEF Remembers, Calm
    <3>2. Knows(d, status, mergeState, inputs)
      <4>1. /\ d.active = c.active \cup new /\ d.reducer = c.reducer \cup more
            /\ \A w \in new \cup more : status[w] = "none"
            /\ \/ more = {} /\ d.held = c.held /\ d.buffer = c.buffer
               \/ more # {} /\ c.reducer = {} /\ d.held = c.buffer /\ d.buffer = {}
        BY <1>5, <1>6, <1>7, <1>8
      <4> QED BY <3>1, <4>1, TurnKnows
    <3>3. Tells(d, status)
      BY <1>7, <3>1 DEF Tells
    <3> QED BY <3>2, <3>3
  <2> QED BY <2>1, <2>2 DEF Remembers
<1>14. lost \in Nat /\ lost' \in Nat /\ lost <= lost'
  BY <1>9, NothingLost
<1> QED BY <1>1, <1>9, <1>10, <1>12, <1>13, <1>14, MemoryKeeps DEF c

-----------------------------------------------------------------------------
(* What the transaction of a runner does to the rows.                         *)

\* The row of w alone, and what is merged.
OnlyRow(w, st, st2) == \A v \in Worker \ {w} : st2[v] = st[v]
SameMerged(ms, ms2) == \A d \in Discovery : ms2[d] = "merged" <=> ms[d] = "merged"

Rewritten(w, st, ms, inp, disp, st2, ms2, inp2, disp2) ==
    /\ OnlyRow(w, st, st2) /\ SameMerged(ms, ms2) /\ inp2 = inp /\ disp2 = disp
    /\ st[w] \notin {"none", "succeeded"} /\ st2[w] \notin {"none", "succeeded"}

Inserted(w, st, ms, inp, disp, st2, ms2, inp2, disp2) ==
    /\ OnlyRow(w, st, st2) /\ SameMerged(ms, ms2) /\ inp2 = inp /\ disp2 = disp + 1
    /\ w \in Discovery /\ st[w] = "none" /\ st2[w] \notin {"none", "succeeded"}

NowAccepted(w, st, ms, inp, disp, st2, ms2, inp2, disp2) ==
    /\ OnlyRow(w, st, st2) /\ inp2 = inp /\ disp2 = disp
    /\ w \in Discovery /\ st[w] \notin {"none", "succeeded"} /\ st2[w] = "succeeded"
    /\ ms2[w] # "merged" /\ \A d \in Discovery \ {w} : ms2[d] = ms[d]

NowClaimed(held, w, st, ms, inp, disp, st2, ms2, inp2, disp2) ==
    /\ OnlyRow(w, st, st2) /\ SameMerged(ms, ms2) /\ disp2 = disp
    /\ w \in Reducer /\ st[w] = "none" /\ st2[w] \notin {"none", "succeeded"}
    /\ inp2[w] = held /\ \A r \in Reducer \ {w} : inp2[r] = inp[r]

NowCommitted(w, st, ms, inp, disp, st2, ms2, inp2, disp2) ==
    /\ OnlyRow(w, st, st2) /\ inp2 = inp /\ disp2 = disp
    /\ w \in Reducer /\ st[w] \notin {"none", "succeeded"} /\ st2[w] = "succeeded"
    /\ \A d \in Discovery : ms2[d] = IF d \in inp[w] THEN "merged" ELSE ms[d]

Effect(held, w, st, ms, inp, disp, st2, ms2, inp2, disp2) ==
    \/ Rewritten(w, st, ms, inp, disp, st2, ms2, inp2, disp2)
    \/ Inserted(w, st, ms, inp, disp, st2, ms2, inp2, disp2)
    \/ NowAccepted(w, st, ms, inp, disp, st2, ms2, inp2, disp2)
    \/ NowClaimed(held, w, st, ms, inp, disp, st2, ms2, inp2, disp2)
    \/ NowCommitted(w, st, ms, inp, disp, st2, ms2, inp2, disp2)

LEMMA EffectIsKnown ==
  ASSUME NEW run, NEW st, NEW c, Fits(c, run, st), NEW w, w \in Hands(c), w \in Task,
         NEW ms, NEW inp, NEW disp, NEW st2, NEW ms2, NEW inp2, NEW disp2,
         Effect(c.held, w, st, ms, inp, disp, st2, ms2, inp2, disp2),
         Knows(c, st, ms, inp)
  PROVE  Knows(c, st2, ms2, inp2)
<1>1. /\ c.active \subseteq Discovery /\ c.held \subseteq Discovery /\ c.reducer \subseteq Reducer
      /\ c.buffer \subseteq Discovery
      /\ \A r, s \in c.reducer : r = s
      /\ Discovery \subseteq Worker /\ Reducer \subseteq Worker /\ Discovery \cap Reducer = {}
  BY WorkersAssumption DEF Fits, Sound, Scheduler, Worker
<1>2. /\ w \in Discovery => w \in c.active /\ w \notin c.reducer
      /\ w \in Reducer => c.reducer = {w} /\ w \notin Discovery
      /\ w \in Discovery \/ w \in Reducer
  BY <1>1 DEF Hands, Task
<1>3. \A v \in c.held : st[v] = "succeeded"
  BY DEF Knows
<1>4. OnlyRow(w, st, st2)
  BY DEF Effect, Rewritten, Inserted, NowAccepted, NowClaimed, NowCommitted
<1>5. \A v \in c.held : st2[v] = "succeeded"
  BY <1>1, <1>3, <1>4
     DEF Effect, Rewritten, Inserted, NowAccepted, NowClaimed, NowCommitted, OnlyRow
<1> USE <1>1, <1>2, <1>5 DEF OnlyRow
<1>6. CASE \/ Rewritten(w, st, ms, inp, disp, st2, ms2, inp2, disp2)
           \/ Inserted(w, st, ms, inp, disp, st2, ms2, inp2, disp2)
           \/ NowClaimed(c.held, w, st, ms, inp, disp, st2, ms2, inp2, disp2)
  <2>1. /\ st[w] # "succeeded" /\ st2[w] # "succeeded" /\ SameMerged(ms, ms2)
    BY <1>6 DEF Rewritten, Inserted, NowClaimed
  <2>2. \A v \in Worker : st2[v] = "succeeded" <=> st[v] = "succeeded"
    BY <1>4, <2>1
  <2>3. Remaining(st2, ms2) = Remaining(st, ms)
    BY <2>1, <2>2 DEF Remaining, SameMerged
  <2>4. Unread(c, st2) = Unread(c, st) /\ Withheld(c, st2) = Withheld(c, st)
    BY <2>2 DEF Unread, Withheld
  <2>5. \A r \in c.reducer : st2[r] # "none" => inp2[r] = c.held
    <3>1. CASE NowClaimed(c.held, w, st, ms, inp, disp, st2, ms2, inp2, disp2)
      BY <3>1 DEF NowClaimed
    <3>2. CASE \/ Rewritten(w, st, ms, inp, disp, st2, ms2, inp2, disp2)
               \/ Inserted(w, st, ms, inp, disp, st2, ms2, inp2, disp2)
      <4>1. inp2 = inp
        BY <3>2 DEF Rewritten, Inserted
      <4>2. \A r \in c.reducer : st2[r] # "none" => st[r] # "none"
        BY <1>4, <3>2 DEF Rewritten, Inserted
      <4> QED BY <4>1, <4>2 DEF Knows
    <3> QED BY <1>6, <3>1, <3>2
  <2> QED BY <2>3, <2>4, <2>5 DEF Knows
<1>7. CASE NowAccepted(w, st, ms, inp, disp, st2, ms2, inp2, disp2)
  <2>1. Remaining(st2, ms2) = Remaining(st, ms) \cup {w}
    BY <1>7 DEF Remaining, NowAccepted
  <2>2. Unread(c, st2) = Unread(c, st) \cup {w}
    BY <1>7 DEF Unread, NowAccepted
  <2>3. /\ Withheld(c, st2) = Withheld(c, st)
        /\ inp2 = inp /\ \A r \in c.reducer : st2[r] = st[r]
    BY <1>7 DEF Withheld, NowAccepted
  <2> QED BY <2>1, <2>2, <2>3 DEF Knows
<1>8. CASE NowCommitted(w, st, ms, inp, disp, st2, ms2, inp2, disp2)
  <2>1. inp[w] = c.held /\ Withheld(c, st) = c.held /\ Withheld(c, st2) = {}
    BY <1>8 DEF NowCommitted, Knows, Withheld
  <2>2. Unread(c, st2) = Unread(c, st)
    BY <1>8 DEF Unread, NowCommitted
  <2>3. Remaining(st2, ms2) = Remaining(st, ms) \ c.held
    BY <1>8, <2>1 DEF Remaining, NowCommitted
  <2>4. /\ Unread(c, st) \subseteq c.active
        /\ inp2 = inp /\ c.reducer = {w}
    BY <1>8 DEF Unread, NowCommitted
  <2>5. Remaining(st2, ms2) = c.buffer \cup Unread(c, st2) \cup Withheld(c, st2)
    BY <2>1, <2>2, <2>3, <2>4 DEF Knows
  <2> QED BY <2>1, <2>4, <2>5 DEF Knows
<1> QED BY <1>6, <1>7, <1>8 DEF Effect

LEMMA EffectCounts ==
  ASSUME NEW run, NEW st, NEW c, Fits(c, run, st), NEW w, w \in Hands(c), w \in Task,
         NEW ms, NEW inp, NEW disp \in Int, NEW st2, NEW ms2, NEW inp2, NEW disp2,
         Effect(c.held, w, st, ms, inp, disp, st2, ms2, inp2, disp2),
         Counts(c, st, disp)
  PROVE  Counts(c, st2, disp2)
<1>1. /\ c.active \subseteq Discovery /\ c.reducer \subseteq Reducer
      /\ Discovery \subseteq Worker /\ Discovery \cap Reducer = {} /\ c.dispatched \in Int
  BY WorkersAssumption DEF Fits, Sound, Scheduler, Worker
<1>2. w \in Discovery => w \in c.active
  BY <1>1 DEF Hands, Task
<1>3. OnlyRow(w, st, st2)
  BY DEF Effect, Rewritten, Inserted, NowAccepted, NowClaimed, NowCommitted
<1>4. CASE Inserted(w, st, ms, inp, disp, st2, ms2, inp2, disp2)
  <2> DEFINE S == Unborn(c, st)
             u == Cardinality(S)
             v == Cardinality(S \ {w})
  <2>1. w \in S /\ Unborn(c, st2) = S \ {w}
    BY <1>1, <1>2, <1>3, <1>4 DEF Unborn, Inserted, OnlyRow
  <2>2. S \subseteq Discovery
    BY <1>1 DEF Unborn
  <2>3. IsFiniteSet(S) /\ u \in Nat
    BY <2>2, FiniteDiscoveries
  <2>4. v = u - 1
    BY <2>1, <2>3, WithoutOne
  <2>5. disp2 = disp + 1 /\ (Alive(c) => disp + u <= c.dispatched /\ c.dispatched <= MaxDiscoveryRuns)
    BY <1>4 DEF Inserted, Counts
  <2> HIDE DEF u, v, S
  <2>6. Alive(c) => disp2 + v <= c.dispatched /\ c.dispatched <= MaxDiscoveryRuns
    BY <1>1, <2>3, <2>4, <2>5
  <2> QED BY <2>1, <2>6 DEF Counts, v
<1>5. CASE ~Inserted(w, st, ms, inp, disp, st2, ms2, inp2, disp2)
  <2>1. disp2 = disp
    BY <1>5 DEF Effect, Rewritten, NowAccepted, NowClaimed, NowCommitted
  <2>2. \A v \in c.active : st2[v] = "none" <=> st[v] = "none"
    BY <1>1, <1>3, <1>5
       DEF Effect, Rewritten, NowAccepted, NowClaimed, NowCommitted, OnlyRow
  <2>3. Unborn(c, st2) = Unborn(c, st)
    BY <2>2 DEF Unborn
  <2> QED BY <2>1, <2>3 DEF Counts
<1> QED BY <1>4, <1>5

\* What the runners at work write concerns no settlement.
LEMMA EffectRemembers ==
  ASSUME NEW run, NEW st, NEW c, Fits(c, run, st), NEW w, w \in Hands(c), w \in Task,
         run[w] # "settled",
         NEW ms, NEW inp, NEW disp \in Int, NEW st2, NEW ms2, NEW inp2, NEW disp2,
         Effect(c.held, w, st, ms, inp, disp, st2, ms2, inp2, disp2), NEW n,
         Remembers(c, st, ms, inp, disp, n)
  PROVE  Remembers(c, st2, ms2, inp2, disp2, n)
<1>1. Counts(c, st2, disp2)
  BY EffectCounts DEF Remembers
<1>2. Knows(c, st, ms, inp) => Knows(c, st2, ms2, inp2)
  BY EffectIsKnown
<1>3. ASSUME Tells(c, st) PROVE Tells(c, st2)
  <2> SUFFICES ASSUME NEW i \in DOMAIN c.settlements, c.settlements[i].outcome \in Without
               PROVE  st2[c.settlements[i].worker] # "succeeded"
    BY DEF Tells
  <2> DEFINE v == c.settlements[i].worker
  <2>1. v \in Hands(c) /\ run[v] = "settled"
    BY DEF Fits, SettlementsFit, SettlementFits
  <2>2. Hands(c) \subseteq Worker
    BY DEF Fits, Sound, Scheduler, Hands, Worker
  <2>3. st2[v] = st[v]
    BY <2>1, <2>2 DEF Effect, Rewritten, Inserted, NowAccepted, NowClaimed, NowCommitted, OnlyRow
  <2> QED BY <1>3, <2>3 DEF Tells
<1> QED BY <1>1, <1>2, <1>3 DEF Remembers

LEMMA StatusWritten ==
  ASSUME TypeOK, NEW w \in Task, NEW x, StatusIs(w, x)
  PROVE  OnlyRow(w, status, status') /\ status'[w] = x
<1>1. w \in Worker
  BY DEF Task, Worker
<1> QED BY <1>1 DEF TypeOK, StatusIs, OnlyRow

\* All that a runner can write, and what it cannot.
Wrote(g, w) ==
    /\ Effect(sched[g].held, w, status, mergeState, inputs, dispatched,
              status', mergeState', inputs', dispatched')
    /\ UNCHANGED <<generation, runStatus, scanStatus, deadlineReached>>
    /\ runner[w] \in {"replace", "fail", "abandon", "cancel"} => status'[w] # "succeeded"

LEMMA TransactionEffect ==
  ASSUME TypeOK, NEW g \in Coordinator, NEW w \in Task, Transaction(g, w)
  PROVE  g = generation /\ Wrote(g, w)
<1> DEFINE Frame == UNCHANGED <<generation, runStatus, scanStatus, deadlineReached>>
           P(Kind(_, _, _, _, _, _, _, _, _)) ==
               Kind(w, status, mergeState, inputs, dispatched,
                    status', mergeState', inputs', dispatched')
<1> USE DEF Active
<1>0. mergeState \in [Discovery -> MergeState] /\ w \in Worker
  BY DEF TypeOK, Task, Worker
<1>1. CASE w \in Discovery /\ runner[w] = "queue" /\ InsertWorker(g, w, "queued", 1, "none")
  <2>1. g = generation /\ Frame
    BY <1>1, OnlyTheCurrent DEF InsertWorker, scanVars
  <2>2. OnlyRow(w, status, status') /\ status'[w] = "queued" /\ status[w] = "none"
    BY <1>1, StatusWritten DEF InsertWorker
  <2>3. dispatched' = dispatched + 1 /\ inputs' = inputs /\ mergeState' = mergeState
    BY <1>1 DEF InsertWorker
  <2>4. P(Inserted)
    BY <1>1, <2>2, <2>3 DEF Inserted, SameMerged
  <2> QED BY <1>1, <2>1, <2>4 DEF Wrote, Effect
<1>2. CASE /\ w \in Discovery /\ runner[w] \in {"accept", "acceptAgain"}
           /\ AcceptDiscovery(g, w, attempt[w])
  <2>1. g = generation /\ Frame
    BY <1>2, OnlyTheCurrent DEF AcceptDiscovery, scanVars
  <2>2. OnlyRow(w, status, status') /\ status'[w] = "succeeded" /\ status[w] = "running"
    BY <1>2, StatusWritten DEF AcceptDiscovery
  <2>3. /\ dispatched' = dispatched /\ inputs' = inputs
        /\ mergeState' = [mergeState EXCEPT ![w] = "buffered"]
    BY <1>2 DEF AcceptDiscovery
  <2>4. P(NowAccepted)
    BY <1>0, <1>2, <2>2, <2>3 DEF NowAccepted
  <2> QED BY <1>2, <2>1, <2>4 DEF Wrote, Effect
<1>3. CASE /\ w \in Discovery /\ runner[w] = "replace"
           /\ CancelWorker(g, w, attempt[w], "message", TRUE)
  <2>1. g = generation /\ Frame
    BY <1>3, OnlyTheCurrent DEF CancelWorker, scanVars
  <2>2. OnlyRow(w, status, status') /\ status'[w] = "canceled" /\ status[w] \in Active
    BY <1>3, StatusWritten DEF CancelWorker
  <2>3. dispatched' = dispatched /\ inputs' = inputs /\ mergeState' = mergeState
    BY <1>3 DEF CancelWorker
  <2>4. P(Rewritten)
    BY <2>2, <2>3 DEF Rewritten, SameMerged
  <2> QED BY <2>1, <2>2, <2>4 DEF Wrote, Effect
<1>4. CASE w \in Reducer /\ runner[w] = "claim" /\ ClaimDedup(g, w, sched[g].held)
  <2> DEFINE held == sched[g].held
  <2>1. g = generation /\ Frame
    BY <1>4, OnlyTheCurrent DEF ClaimDedup, scanVars
  <2>2. OnlyRow(w, status, status') /\ status'[w] = "queued" /\ status[w] = "none"
    BY <1>4, StatusWritten DEF ClaimDedup
  <2>3. /\ dispatched' = dispatched /\ inputs' = [inputs EXCEPT ![w] = held]
        /\ mergeState' = [d \in Discovery |-> IF d \in held THEN "merging" ELSE mergeState[d]]
        /\ \A d \in held : mergeState[d] = "buffered"
    BY <1>4 DEF ClaimDedup, CanClaimDedup, IsBufferedPrefix, Buffered
  <2> HIDE DEF held
  <2>4. SameMerged(mergeState, mergeState')
    BY <2>3 DEF SameMerged
  <2>5. inputs'[w] = held /\ \A r \in Reducer \ {w} : inputs'[r] = inputs[r]
    BY <1>4, <2>3 DEF TypeOK
  <2>6. NowClaimed(held, w, status, mergeState, inputs, dispatched,
                   status', mergeState', inputs', dispatched')
    BY <1>4, <2>2, <2>3, <2>4, <2>5 DEF NowClaimed
  <2> QED BY <1>4, <2>1, <2>6 DEF Wrote, Effect, held
<1>5. CASE /\ w \in Reducer /\ runner[w] \in {"commit", "commitAgain"}
           /\ \E newFindings \in BOOLEAN : CommitDedup(g, w, newFindings)
  <2>1. g = generation /\ Frame
    BY <1>5, OnlyTheCurrent DEF CommitDedup, scanVars
  <2>2. OnlyRow(w, status, status') /\ status'[w] = "succeeded" /\ status[w] \in Active
    BY <1>5, StatusWritten DEF CommitDedup
  <2>3. /\ dispatched' = dispatched /\ inputs' = inputs
        /\ mergeState' = [d \in Discovery |-> IF d \in inputs[w] THEN "merged" ELSE mergeState[d]]
    BY <1>5 DEF CommitDedup
  <2>4. P(NowCommitted)
    BY <1>5, <2>2, <2>3 DEF NowCommitted
  <2> QED BY <1>5, <2>1, <2>4 DEF Wrote, Effect
<1>6. CASE /\ runner[w] \in {"start", "retry"}
           /\ \E a, e : UpdateWorker(g, w, "running", a, e)
  <2>1. g = generation /\ Frame
    BY <1>6, OnlyTheCurrent DEF UpdateWorker, scanVars, runVars
  <2>2. OnlyRow(w, status, status') /\ status'[w] = "running" /\ status[w] \in Active
    BY <1>6, StatusWritten DEF UpdateWorker
  <2>3. dispatched' = dispatched /\ inputs' = inputs /\ mergeState' = mergeState
    BY <1>6 DEF UpdateWorker, runVars
  <2>4. P(Rewritten)
    BY <2>2, <2>3 DEF Rewritten, SameMerged
  <2> QED BY <2>1, <2>2, <2>4 DEF Wrote, Effect
<1>7. CASE runner[w] \in {"fail", "abandon"} /\ FailWorker(g, w, attempt[w], "message")
  <2>1. g = generation /\ Frame
    BY <1>7, OnlyTheCurrent DEF FailWorker, scanVars
  <2>2. OnlyRow(w, status, status') /\ status'[w] = "failed" /\ status[w] \in Active
    BY <1>7, StatusWritten DEF FailWorker
  <2>3. dispatched' = dispatched /\ inputs' = inputs
        /\ (mergeState' = mergeState \/ mergeState' = Rebuffer({w}))
    BY <1>7 DEF FailWorker
  <2>4. SameMerged(mergeState, mergeState')
    BY <2>3 DEF SameMerged, Rebuffer
  <2>5. P(Rewritten)
    BY <2>2, <2>3, <2>4 DEF Rewritten
  <2> QED BY <2>1, <2>2, <2>5 DEF Wrote, Effect
<1>8. CASE /\ runner[w] = "cancel"
           /\ CancelWorker(g, w, CancelAttempt(w), CancelMessage(g, w), FALSE)
  <2>1. g = generation /\ Frame
    BY <1>8, OnlyTheCurrent DEF CancelWorker, scanVars
  <2>2. OnlyRow(w, status, status') /\ status'[w] = "canceled" /\ status[w] \in Active
    BY <1>8, StatusWritten DEF CancelWorker
  <2>3. dispatched' = dispatched /\ inputs' = inputs /\ mergeState' = mergeState
    BY <1>8 DEF CancelWorker
  <2>4. P(Rewritten)
    BY <2>2, <2>3 DEF Rewritten, SameMerged
  <2> QED BY <2>1, <2>2, <2>4 DEF Wrote, Effect
<1> QED
  BY <1>1, <1>2, <1>3, <1>4, <1>5, <1>6, <1>7, <1>8
     DEF Transaction, DiscoveryTransaction, ReducerTransaction

-----------------------------------------------------------------------------
(* A runner's step.                                                           *)

\* Nothing but the tail and the settlements may differ.
SameButTail(c, d) ==
    /\ d.active = c.active /\ d.reducer = c.reducer /\ d.held = c.held /\ d.buffer = c.buffer
    /\ d.dispatched = c.dispatched /\ d.pc = c.pc /\ d.deadline = c.deadline
    /\ d.abort = c.abort /\ d.discoveryAbort = c.discoveryAbort
    /\ d.canceled = c.canceled /\ d.external = c.external

\* A settlement that does not mislead is added, or none.
LEMMA AddedRemember ==
  ASSUME NEW c, NEW d, SameButTail(c, d), c.settlements \in Seq(Answer), NEW st, NEW ms, NEW inp,
         NEW disp, NEW n \in Nat, NEW m \in Nat, n <= m, Remembers(c, st, ms, inp, disp, n),
         \/ d.settlements = c.settlements
         \/ \E e \in Answer :
               /\ d.settlements = Append(c.settlements, e)
               /\ AtHome(c) /\ Calm(c, m) /\ e.outcome \in Without => st[e.worker] # "succeeded"
  PROVE  Remembers(d, st, ms, inp, disp, m)
<1> DEFINE b == [active |-> d.active, reducer |-> d.reducer, held |-> d.held,
                 buffer |-> d.buffer, dispatched |-> d.dispatched, pc |-> d.pc,
                 abort |-> d.abort, discoveryAbort |-> d.discoveryAbort,
                 settlements |-> c.settlements]
<1>1. SamePlaces(c, b)
  BY DEF SamePlaces, SameButTail, AtHome, Alive, Starting, Looping
<1>2. Remembers(b, st, ms, inp, disp, m)
  BY <1>1, PlacesRemember
<1>3. Counts(d, st, disp)
  BY <1>2 DEF Remembers, Counts, Alive, Unborn
<1>4. ASSUME AtHome(d), Calm(d, m)
      PROVE  Knows(d, st, ms, inp) /\ Tells(d, st)
  <2>1. Knows(b, st, ms, inp) /\ Tells(c, st)
    BY <1>2, <1>4 DEF Remembers, AtHome, Starting, Looping, Calm, Tells
  <2>2. Knows(d, st, ms, inp)
    BY <2>1 DEF Knows, Unread, Withheld
  <2>3. AtHome(c) /\ Calm(c, m)
    BY <1>4 DEF SameButTail, AtHome, Starting, Looping, Calm
  <2>4. CASE d.settlements = c.settlements
    BY <2>1, <2>2, <2>4 DEF Tells
  <2>5. ASSUME NEW e \in Answer, d.settlements = Append(c.settlements, e),
               e.outcome \in Without => st[e.worker] # "succeeded"
        PROVE  Tells(d, st)
    <3> DEFINE s == c.settlements
               l == Len(s)
    <3>1. /\ s \in Seq(Answer) /\ d.settlements = Append(s, e)
          /\ \A i \in DOMAIN s : s[i].outcome \in Without => st[s[i].worker] # "succeeded"
      BY <2>1, <2>5 DEF Tells
    <3> HIDE DEF s
    <3>2. /\ l \in Nat /\ DOMAIN s = 1 .. l /\ DOMAIN Append(s, e) = 1 .. (l + 1)
          /\ \A i \in 1 .. l : Append(s, e)[i] = s[i]
          /\ Append(s, e)[l + 1] = e
      BY <3>1, AppendProperties, LenProperties
    <3> HIDE DEF l
    <3>3. \A i \in DOMAIN d.settlements :
              (i = l + 1 /\ d.settlements[i] = e) \/ (i \in DOMAIN s /\ d.settlements[i] = s[i])
      BY <3>1, <3>2
    <3> QED BY <2>5, <3>1, <3>3 DEF Tells
  <2> QED BY <2>2, <2>3, <2>4, <2>5
<1> QED BY <1>3, <1>4 DEF Remembers

LEMMA MoveRemembers ==
  ASSUME Known, MemoryInv, LimitsInv', [Next]_vars, NEW g \in Coordinator, NEW w \in Task,
         w \in Hands(sched[g]), runner[w] # "settled", lost' \in Nat, lost <= lost',
         (g = generation /\ Wrote(g, w)) \/ UNCHANGED vars,
         NEW x, runner' = [runner EXCEPT ![w] = x],
         x \in {"idle", "prepare", "queue", "claim"} => UNCHANGED vars /\ runner[w] = "prepare",
         x = "acceptAgain" => lost' >= 1,
         NEW d, SameButTail(sched[g], d), sched' = [sched EXCEPT ![g] = d],
         \/ d.settlements = sched[g].settlements
         \/ \E e \in Answer :
               /\ d.settlements = Append(sched[g].settlements, e) /\ e.worker = w
               /\ /\ g = generation /\ AtHome(sched[g]) /\ Calm(sched[g], lost')
                  /\ e.outcome \in Without
                  => status'[w] # "succeeded"
  PROVE  MemoryInv'
<1> DEFINE c == sched[g]
<1>1. /\ c \in Scheduler /\ Fits(c, runner, status) /\ c.settlements \in Seq(Answer)
      /\ dispatched \in Int /\ lost \in Nat /\ runner \in Runners
  BY RecordFacts DEF Scheduler, Known, LimitsInv, MemoryOK
<1>2. /\ generation' = generation /\ deadlineReached' = deadlineReached
      /\ RunIsOpen' => RunIsOpen
      /\ g # generation => UNCHANGED vars
  BY DEF Wrote, vars, runVars, scanVars, RunIsOpen
<1>3. OnlyRow(w, status, status')
  <2>1. CASE UNCHANGED vars
    BY <2>1 DEF vars, workerVars, OnlyRow
  <2>2. CASE Wrote(g, w)
    BY <2>2 DEF Wrote, Effect, Rewritten, Inserted, NowAccepted, NowClaimed, NowCommitted
  <2> QED BY <2>1, <2>2
<1>4. RunnersInv(runner', status', lost')
  <2> SUFFICES ASSUME NEW v \in Task
               PROVE  /\ runner'[v] \in {"idle", "prepare", "queue", "claim"} => status'[v] = "none"
                      /\ runner'[v] = "acceptAgain" => lost' >= 1
    BY DEF RunnersInv
  <2>1. CASE v = w
    <3>1. runner'[v] = x
      BY <1>1, <2>1 DEF Runners
    <3>2. UNCHANGED vars /\ runner[w] = "prepare" => status'[w] = "none"
      BY DEF vars, workerVars, MemoryInv, RunnersInv
    <3> QED BY <2>1, <3>1, <3>2
  <2>2. CASE v # w
    <3>1. runner'[v] = runner[v] /\ status'[v] = status[v]
      BY <1>1, <1>3, <2>2 DEF Runners, OnlyRow, Task, Worker
    <3> QED BY <1>1, <3>1 DEF MemoryInv, RunnersInv
  <2> QED BY <2>1, <2>2
<1>5. Informed(c, deadlineReached) => Informed(d, deadlineReached')
  BY <1>2 DEF Informed, SameButTail, AtHome, Alive, Starting, Looping
<1>6. ASSUME g = generation, Remembers(c, status, mergeState, inputs, dispatched, lost)
      PROVE  Remembers(d, status', mergeState', inputs', dispatched', lost')
  <2> DEFINE st2 == status'
             ms2 == mergeState'
             inp2 == inputs'
             disp2 == dispatched'
             m == lost'
  <2>1. Remembers(c, st2, ms2, inp2, disp2, lost)
    <3>1. CASE UNCHANGED vars
      BY <1>6, <3>1 DEF vars, runVars, workerVars
    <3>2. CASE Wrote(g, w)
      <4>1. Effect(c.held, w, status, mergeState, inputs, dispatched, st2, ms2, inp2, disp2)
        BY <3>2 DEF Wrote
      <4> HIDE DEF st2, ms2, inp2, disp2, c
      <4> QED BY <1>1, <1>6, <4>1, EffectRemembers DEF c
    <3> QED BY <3>1, <3>2
  <2>2. \/ d.settlements = c.settlements
        \/ \E e \in Answer :
              /\ d.settlements = Append(c.settlements, e)
              /\ AtHome(c) /\ Calm(c, m) /\ e.outcome \in Without => st2[e.worker] # "succeeded"
    BY <1>6
  <2>3. SameButTail(c, d) /\ m \in Nat /\ lost <= m
    OBVIOUS
  <2> HIDE DEF st2, ms2, inp2, disp2, m, c
  <2>4. Remembers(d, st2, ms2, inp2, disp2, m)
    BY <1>1, <2>1, <2>2, <2>3, AddedRemember
  <2> QED BY <2>4 DEF st2, ms2, inp2, disp2, m
<1>7. /\ g = generation /\ RunIsOpen' /\ Remembers(sched[g], status, mergeState, inputs, dispatched, lost)
             => Remembers(d, status', mergeState', inputs', dispatched', lost')
  BY <1>6
<1> QED BY <1>1, <1>2, <1>4, <1>5, <1>7, MemoryKeeps

\* It goes on.
LEMMA GoesRemember ==
  ASSUME Known, MemoryInv, LimitsInv', [Next]_vars, NEW g \in Coordinator, NEW w \in Task,
         w \in Hands(sched[g]), runner[w] # "settled", lost' \in Nat, lost <= lost',
         (g = generation /\ Wrote(g, w)) \/ UNCHANGED vars,
         NEW x, GoesTo(g, w, x),
         x \in {"idle", "prepare", "queue", "claim"} => UNCHANGED vars /\ runner[w] = "prepare",
         x = "acceptAgain" => lost' >= 1
  PROVE  MemoryInv'
<1> DEFINE c == sched[g]
           u == IF x \in Request THEN Append(WithoutHead(g, w), w) ELSE WithoutHead(g, w)
           d == [c EXCEPT !.tail = u]
<1>1. c \in Scheduler
  BY RecordFacts
<1>2. /\ sched' = [sched EXCEPT ![g] = d] /\ runner' = [runner EXCEPT ![w] = x]
      /\ d = [c EXCEPT !.tail = u]
  BY DEF GoesTo
<1> HIDE DEF u, d
<1>3. SameButTail(c, d) /\ d.settlements = c.settlements
  BY <1>1, <1>2, Zenon DEF Scheduler, SameButTail
<1> QED BY <1>2, <1>3, MoveRemembers

\* It settles.
LEMMA SettleRemembers ==
  ASSUME Known, MemoryInv, LimitsInv', [Next]_vars, NEW g \in Coordinator, NEW w \in Task,
         w \in Hands(sched[g]), runner[w] # "settled", lost' \in Nat, lost <= lost',
         (g = generation /\ Wrote(g, w)) \/ UNCHANGED vars,
         NEW o \in Outcome, Settle(g, w, o),
         /\ g = generation /\ AtHome(sched[g]) /\ Calm(sched[g], lost') /\ o \in Without
         => status'[w] # "succeeded"
  PROVE  MemoryInv'
<1> DEFINE c == sched[g]
           e == [worker |-> w, outcome |-> o,
                 noNew |-> IF o = "succeeded" /\ w \in Reducer THEN noNew' ELSE 0,
                 errors |-> IF o = "replaced" \/ (o = "succeeded" /\ w \in Reducer)
                            THEN errors' ELSE 0]
           u == WithoutHead(g, w)
           l == Append(c.settlements, e)
           d == [c EXCEPT !.tail = u, !.settlements = l]
           x == "settled"
<1>1. c \in Scheduler /\ errors' \in Nat /\ noNew' \in Nat
  BY RecordFacts DEF LimitsInv, TypeOK
<1>2. e \in Answer /\ e.worker = w /\ e.outcome = o
  BY <1>1 DEF Answer
<1>3. /\ sched' = [sched EXCEPT ![g] = d] /\ runner' = [runner EXCEPT ![w] = x]
      /\ d = [c EXCEPT !.tail = u, !.settlements = l]
      /\ l = Append(c.settlements, e) /\ x \notin {"idle", "prepare", "queue", "claim", "acceptAgain"}
  BY DEF Settle
<1> HIDE DEF u, d, l, e, x
<1>4. SameButTail(c, d) /\ d.settlements = l
  BY <1>1, <1>3, Zenon DEF Scheduler, SameButTail
<1>5. /\ d.settlements = Append(c.settlements, e) /\ e.worker = w /\ e \in Answer
      /\ /\ g = generation /\ AtHome(c) /\ Calm(c, lost') /\ e.outcome \in Without
         => status'[w] # "succeeded"
  BY <1>2, <1>3, <1>4
<1> QED BY <1>3, <1>4, <1>5, MoveRemembers

LEMMA RunnerRemembers ==
  ASSUME Known, MemoryInv, LimitsInv', [Next]_vars, NEW g \in Coordinator, NEW w \in Task,
         RunnerNext(g, w)
  PROVE  MemoryInv'
<1>1. /\ w \in Hands(sched[g]) /\ TypeOK /\ LimitsInv /\ lost \in Nat
      /\ lost' = lost \/ lost' = lost + 1
  BY RecordFacts DEF RunnerNext, Owned, Hands, Known, LimitsInv, Prepare, MakeRequest, LoseAnswer,
                     Execute, Wake
<1>2. lost' \in Nat /\ lost <= lost'
  BY <1>1
<1>3. "rejected" \in Outcome /\ "canceled" \in Outcome /\ "succeeded" \in Outcome
      /\ "replaced" \in Outcome /\ "failed" \in Outcome
      /\ "rejected" \notin Without /\ "succeeded" \notin Without
  BY DEF Outcome, Without
<1>4. runner[w] # "settled"
  <2>1. CASE MakeRequest(g, w) \/ LoseAnswer(g, w)
    <3>1. AtTurn(sched[g], w, runner)
      BY <1>1, <2>1, TurnsAreTaken DEF MakeRequest, LoseAnswer
    <3> QED BY <3>1 DEF AtTurn
  <2>2. CASE Prepare(g, w) \/ Execute(g, w) \/ Wake(g, w)
    BY <2>2 DEF Prepare, Execute, Wake
  <2> QED BY <2>1, <2>2 DEF RunnerNext
<1>5. g = generation => CurrentCoordinator(g)
  BY ConfigAssumption DEF Coordinator, CurrentCoordinator
<1>6. CASE Prepare(g, w)
  <2>1. UNCHANGED vars /\ runner[w] = "prepare"
    BY <1>6 DEF Prepare
  <2>2. CASE Settle(g, w, "rejected")
    BY <1>1, <1>2, <1>3, <1>4, <2>1, <2>2, SettleRemembers
  <2>3. ASSUME NEW x \in {"queue", "claim"}, GoesTo(g, w, x) PROVE MemoryInv'
    BY <1>1, <1>2, <1>4, <2>1, <2>3, GoesRemember
  <2> QED BY <1>6, <2>2, <2>3 DEF Prepare
<1>7. CASE Execute(g, w) \/ Wake(g, w)
  <2>1. UNCHANGED vars
    BY <1>7 DEF Execute, Wake
  <2>2. CASE Settle(g, w, "rejected")
    BY <1>1, <1>2, <1>3, <1>4, <2>1, <2>2, SettleRemembers
  <2>3. ASSUME NEW x, x \notin {"idle", "prepare", "queue", "claim", "acceptAgain"}, GoesTo(g, w, x)
        PROVE  MemoryInv'
    BY <1>1, <1>2, <1>4, <2>1, <2>3, GoesRemember
  <2>4. CASE Execute(g, w)
    <3>1. PICK x \in {IF w \in Discovery THEN "accept" ELSE "commit"} \cup AfterError(w) :
              GoesTo(g, w, UnlessAborted(g, w, x))
      BY <2>4 DEF Execute
    <3>2. UnlessAborted(g, w, x) \notin {"idle", "prepare", "queue", "claim", "acceptAgain"}
      BY DEF UnlessAborted, AfterError
    <3> QED BY <2>3, <3>1, <3>2
  <2>5. CASE Wake(g, w)
    <3>1. UnlessAborted(g, w, "start") \notin {"idle", "prepare", "queue", "claim", "acceptAgain"}
      BY DEF UnlessAborted
    <3> QED BY <2>2, <2>3, <2>5, <3>1 DEF Wake
  <2> QED BY <1>7, <2>4, <2>5
<1>8. CASE MakeRequest(g, w)
  <2>1. lost' = lost
    BY <1>8 DEF MakeRequest
  <2>2. ASSUME g = generation,
               Wrote(g, w) \/ (UNCHANGED vars /\ Repeats(g, w)), Answered(g, w)
        PROVE  MemoryInv'
    <3>1. (g = generation /\ Wrote(g, w)) \/ UNCHANGED vars
      BY <2>2
    <3>2. runner[w] \in {"replace", "fail", "abandon", "cancel"} => status'[w] # "succeeded"
      BY <2>2 DEF Wrote, Repeats, vars, workerVars
    <3>3. ASSUME NEW x \in {"start", "cancel", "run", "sleep"}, GoesTo(g, w, x) PROVE MemoryInv'
      BY <1>1, <1>2, <1>4, <3>1, <3>3, GoesRemember
    <3>4. ASSUME NEW o \in Outcome, Settle(g, w, o),
                 o \in Without => runner[w] \in {"replace", "fail", "abandon", "cancel"}
          PROVE  MemoryInv'
      BY <1>1, <1>2, <1>4, <3>1, <3>2, <3>4, SettleRemembers
    <3>5. UnlessAborted(g, w, "start") \in {"start", "cancel"}
      BY DEF UnlessAborted
    <3> QED BY <1>3, <2>2, <3>3, <3>4, <3>5 DEF Answered
  <2>3. ASSUME (g = generation /\ Wrote(g, w)) \/ UNCHANGED vars, Settle(g, w, "rejected")
        PROVE  MemoryInv'
    BY <1>1, <1>2, <1>3, <1>4, <2>3, SettleRemembers
  <2>4. ASSUME ~Repeats(g, w), UNCHANGED vars, Settle(g, w, "canceled"),
               runner[w] \in {"accept", "acceptAgain"}
        PROVE  MemoryInv'
    <3>1. g = generation => status'[w] # "succeeded"
      BY <1>5, <2>4 DEF Repeats, vars, workerVars
    <3> QED BY <1>1, <1>2, <1>3, <1>4, <2>4, <3>1, SettleRemembers
  <2>5. Transaction(g, w) => g = generation /\ Wrote(g, w)
    BY <1>1, TransactionEffect
  <2>6. Repeats(g, w) => g = generation
    BY OnlyTheCurrent DEF Repeats
  <2>7. CASE Transaction(g, w) /\ Answered(g, w)
    BY <2>2, <2>5, <2>7
  <2>8. CASE Repeats(g, w) /\ UNCHANGED vars /\ Answered(g, w)
    BY <2>2, <2>6, <2>8
  <2>9. CASE ~Repeats(g, w) /\ UNCHANGED vars /\ Rejected(g, w)
    BY <2>3, <2>4, <2>9 DEF Rejected
  <2>10. CASE runner[w] = "claim" /\ Transaction(g, w) /\ Rejected(g, w)
    BY <2>3, <2>5, <2>10 DEF Rejected
  <2> QED BY <1>8, <2>7, <2>8, <2>9, <2>10 DEF MakeRequest
<1>9. CASE LoseAnswer(g, w)
  <2>1. lost' = lost + 1 /\ lost' >= 1
    BY <1>1, <1>9 DEF LoseAnswer
  <2>2. (g = generation /\ Wrote(g, w)) \/ UNCHANGED vars
    BY <1>1, <1>9, TransactionEffect DEF LoseAnswer
  <2>3. ASSUME NEW x \in {"acceptAgain", "commitAgain"}, GoesTo(g, w, x) PROVE MemoryInv'
    BY <1>1, <1>2, <1>4, <2>1, <2>2, <2>3, GoesRemember
  <2>4. CASE Settle(g, w, "rejected")
    BY <1>1, <1>2, <1>3, <1>4, <2>2, <2>4, SettleRemembers
  <2>5. CASE /\ Settle(g, w, "canceled") /\ runner[w] = "acceptAgain" /\ Aborted(g, w)
    <3>1. lost >= 1
      BY <2>5 DEF MemoryInv, RunnersInv
    <3>2. ~(lost' <= 1)
      BY <1>1, <2>1, <3>1
    <3>3. ~Calm(sched[g], lost')
      BY <2>5, <3>2 DEF Calm, Aborted, AbortedWith
    <3> QED BY <1>1, <1>2, <1>3, <1>4, <2>2, <2>5, <3>3, SettleRemembers
  <2> QED BY <1>9, <2>3, <2>4, <2>5 DEF LoseAnswer, Rejected, Replayed
<1> QED BY <1>6, <1>7, <1>8, <1>9 DEF RunnerNext

-----------------------------------------------------------------------------
(* The parent scan, the clock, and a new coordinator.                         *)

LEMMA EnvironmentRemembers ==
  ASSUME Known, MemoryInv, LimitsInv', [Next]_vars, Environment
  PROVE  MemoryInv'
<1>1. /\ UNCHANGED <<sched, runner, lost>> /\ TypeOK
      /\ \/ BeginDeepScan
         \/ ReachDeadline \/ CompleteScan
         \/ FailScan \/ CancelScan
  BY DEF Environment, localVars, Known, LimitsInv
<1>2. generation' = generation /\ \A w \in Task : status[w] = "none" => status'[w] = "none"
  <2>1. CASE BeginDeepScan \/ ReachDeadline \/ CompleteScan
    BY <2>1 DEF BeginDeepScan, ReachDeadline, CompleteScan, runVars, workerVars
  <2>2. CASE FailScan \/ CancelScan
    <3>1. CancelActiveWorkers /\ generation' = generation
      BY <2>2 DEF FailScan, CancelScan
    <3> QED BY <1>1, <3>1, SweptNone
  <2> QED BY <1>1, <2>1, <2>2
<1>3. RunnersInv(runner', status', lost')
  BY <1>1, <1>2 DEF MemoryInv, RunnersInv
<1>4. \A g \in Coordinator : Informed(sched'[g], deadlineReached')
  BY <1>1, TimePasses DEF MemoryInv, Informed
<1>5. ASSUME NEW g \in Coordinator, g = generation', RunIsOpen'
      PROVE  Remembers(sched'[g], status', mergeState', inputs', dispatched', lost')
  <2>1. CASE BeginDeepScan
    <3>1. generation # 1
      BY <1>2, <1>5, ConfigAssumption DEF Coordinator
    <3> QED BY <2>1, <3>1 DEF BeginDeepScan, MemoryInv
  <2>2. CASE ReachDeadline \/ CompleteScan
    <3>1. RunIsOpen /\ UNCHANGED <<status, mergeState, inputs, dispatched>>
      BY <1>5, <2>2 DEF ReachDeadline, CompleteScan, runVars, scanVars, workerVars, RunIsOpen
    <3> QED BY <1>1, <1>2, <1>5, <3>1 DEF MemoryInv
  <2>3. CASE FailScan \/ CancelScan
    BY <1>5, <2>3 DEF FailScan, CancelScan, RunIsOpen
  <2> QED BY <1>1, <2>1, <2>2, <2>3
<1>6. generation' # 1 => runStatus' # "none"
  BY <1>2, TimePasses DEF MemoryInv
<1> QED BY <1>3, <1>4, <1>5, <1>6 DEF MemoryInv

\* A new coordinator knows what the rows say.
LEMMA AdoptRemembers ==
  ASSUME Known, MemoryInv, LimitsInv', DispatchBudget', [Next]_vars, NEW g \in Coordinator, Adopt(g)
  PROVE  MemoryInv'
<1> DEFINE acc == \E w \in Discovery : status'[w] = "succeeded"
           p == \E r \in Reducer : status'[r] = "succeeded"
           f == FailureStreak(status')
           S == Unmerged
           n == dispatched'
           m == noNew'
           e == errors'
           late == deadlineReached
           why == IF late THEN "deadline" ELSE "none"
           d == [Unstarted EXCEPT
                    !.pc = "starting", !.buffer = S, !.accepted = acc, !.dispatched = n,
                    !.noNew = m, !.errors = e, !.failures = f, !.previous = p, !.deadline = late,
                    !.discoveryAbort = why]
<1>1. /\ g = generation + 1 /\ sched' = [sched EXCEPT ![g] = d]
      /\ runner' = runner /\ lost' = lost
  BY DEF Adopt
<1>2. PICK fresh \in BOOLEAN : ClaimCoordinator(fresh)
  BY DEF Adopt
<1>3. /\ generation' = g /\ runStatus = "running" /\ runStatus' = "running"
      /\ deadlineReached' = deadlineReached
  BY <1>1, <1>2 DEF ClaimCoordinator, RunIsOpen
<1>4. \A w \in Task : status[w] = "none" => status'[w] = "none"
  <2>1. CASE CancelActiveWorkers
    BY <2>1, SweptNone DEF Known, LimitsInv
  <2>2. CASE status' = status
    BY <2>2
  <2> QED BY <1>2, <2>1, <2>2 DEF ClaimCoordinator, RecoverExpiredCoordinator, workerVars
<1>5. RunnersInv(runner', status', lost')
  BY <1>1, <1>4 DEF MemoryInv, RunnersInv
<1>6. S = Remaining(status', mergeState') /\ n = dispatched' /\ late = deadlineReached
  BY DEF Unmerged, Remaining
<1>7. dispatched' \in Int /\ dispatched' <= MaxDiscoveryRuns
  BY DEF DispatchBudget, LimitsInv, TypeOK
<1>8. d = [Unstarted EXCEPT
              !.pc = "starting", !.buffer = S, !.accepted = acc, !.dispatched = n,
              !.noNew = m, !.errors = e, !.failures = f, !.previous = p, !.deadline = late,
              !.discoveryAbort = why]
  OBVIOUS
<1> HIDE DEF d, S, acc, p, f, n, m, e, late, why
<1>9. /\ d.pc = "starting" /\ d.active = {} /\ d.reducer = {} /\ d.held = {} /\ d.buffer = S
      /\ d.settlements = <<>> /\ d.dispatched = n /\ d.abort = "none" /\ d.deadline = late
  BY <1>8, Zenon DEF Unstarted
<1>10. Informed(d, deadlineReached')
  BY <1>3, <1>6, <1>9 DEF Informed
<1>11. Remembers(d, status', mergeState', inputs', dispatched', lost')
  <2> DEFINE u == Cardinality(Unborn(d, status'))
  <2>1. u = 0
    BY <1>9, FS_EmptySet DEF Unborn
  <2> HIDE DEF u
  <2>2. dispatched' + u <= d.dispatched /\ d.dispatched <= MaxDiscoveryRuns
    <3>1. n \in Int /\ n <= MaxDiscoveryRuns /\ d.dispatched = n
      BY <1>6, <1>7, <1>9
    <3>2. n + u <= n
      BY <2>1, <3>1
    <3> QED BY <1>6, <3>1, <3>2
  <2>3. Unread(d, status') = {} /\ Withheld(d, status') = {}
    BY <1>9 DEF Unread, Withheld
  <2>4. Knows(d, status', mergeState', inputs')
    BY <1>6, <1>9, <2>3 DEF Knows
  <2>5. Tells(d, status')
    BY <1>9 DEF Tells
  <2> QED BY <2>2, <2>4, <2>5 DEF Remembers, Counts, u
<1>12. \A h \in Coordinator : sched'[h] = IF h = g THEN d ELSE sched[h]
  BY <1>1 DEF Known, LimitsInv, MemoryOK
<1>13. \A h \in Coordinator : Informed(sched'[h], deadlineReached')
  BY <1>3, <1>10, <1>12 DEF MemoryInv
<1> QED BY <1>3, <1>5, <1>11, <1>12, <1>13 DEF MemoryInv

-----------------------------------------------------------------------------
LEMMA MemoryInit == SystemInit => MemoryInv
<1> SUFFICES ASSUME SystemInit PROVE MemoryInv
  OBVIOUS
<1>1. /\ generation = 1 /\ status = [w \in Worker |-> "none"] /\ lost = 0
      /\ sched = [g \in Coordinator |-> Unstarted] /\ runner = [w \in Task |-> "idle"]
  BY DEF SystemInit, Init, NoWorkers
<1>2. RunnersInv(runner, status, lost)
  BY <1>1 DEF RunnersInv, Task, Worker
<1>3. ASSUME NEW g \in Coordinator PROVE Informed(sched[g], deadlineReached) /\ g # generation
  <2>1. sched[g].pc = "none" /\ g # generation
    BY <1>1, ConfigAssumption DEF Unstarted, Coordinator
  <2> QED BY <2>1 DEF Informed, AtHome, Alive, Starting, Looping
<1> QED BY <1>1, <1>2, <1>3 DEF MemoryInv

LEMMA MemoryStep ==
    Known /\ Known' /\ MemoryInv /\ [SystemNext]_systemVars => MemoryInv'
<1> SUFFICES ASSUME Known, Known', MemoryInv, [SystemNext]_systemVars PROVE MemoryInv'
  OBVIOUS
<1>1. [Next]_vars /\ LimitsInv' /\ DispatchBudget'
  BY SystemStep DEF Known, LimitsInv
<1>2. CASE Environment
  BY <1>1, <1>2, EnvironmentRemembers
<1>3. ASSUME NEW g \in Coordinator, Adopt(g) PROVE MemoryInv'
  BY <1>1, <1>3, AdoptRemembers
<1>4. ASSUME NEW g \in Coordinator, Crash(g) PROVE MemoryInv'
  BY <1>1, <1>4, CrashRemembers
<1>5. ASSUME NEW g \in Coordinator, Watch(g) PROVE MemoryInv'
  BY <1>1, <1>5, WatchRemembers
<1>6. ASSUME NEW g \in Coordinator, Deadline(g) PROVE MemoryInv'
  BY <1>1, <1>6, DeadlineRemembers
<1>7. ASSUME NEW g \in Coordinator, CoordinatorStep(g) PROVE MemoryInv'
  BY <1>1, <1>7, StartRemembers, TurnRemembers, PlainRemembers, TakeRemembers,
     ReconcileRemembers, FinishRemembers, FailRemembers DEF CoordinatorStep
<1>8. ASSUME NEW g \in Coordinator, NEW why \in {"shutdown", "user"}, Cancel(g, why)
      PROVE  MemoryInv'
  BY <1>1, <1>8, CancelRemembers
<1>9. ASSUME NEW g \in Coordinator, NEW w \in Task, RunnerNext(g, w) PROVE MemoryInv'
  BY <1>1, <1>9, RunnerRemembers
<1>10. CASE UNCHANGED systemVars
  BY <1>10 DEF systemVars, localVars, vars, runVars, scanVars, workerVars, MemoryInv, RunIsOpen
<1> QED BY <1>2, <1>3, <1>4, <1>5, <1>6, <1>7, <1>8, <1>9, <1>10 DEF SystemNext

LEMMA MemoryInvariant == SystemSpec => [](Known /\ MemoryInv)
<1>1. Known <=> LimitsInv /\ StoreInv /\ DispatchBudget
  BY DEF Known
<1>2. SystemSpec => []Known
  BY <1>1, SystemInvariant, SystemImplementsStore, StoreInvariant, SystemKeepsTheBudget, PTL
<1> QED BY <1>2, MemoryInit, MemoryStep, PTL DEF SystemSpec

-----------------------------------------------------------------------------
(* What it is for.                                                            *)

\* One answer at most was lost, or no deadline aborts a discovery whose answer was.
FewAnswersAreLost == lost <= 1 \/ ~deadlineReached

LEMMA OwnersAreCurrent ==
  ASSUME MemoryInv, NEW g \in Coordinator, Owner(g)
  PROVE  /\ g = generation
         /\ Remembers(sched[g], status, mergeState, inputs, dispatched, lost)
<1>1. g = generation /\ RunIsOpen
  BY OnlyTheCurrent DEF Owner
<1> QED BY <1>1 DEF MemoryInv

LEMMA BufferFollows == Known /\ MemoryInv /\ FewAnswersAreLost => BufferAgrees
<1> SUFFICES ASSUME Known, MemoryInv, FewAnswersAreLost, NEW g \in Coordinator, Owner(g),
                    sched[g].pc \in {"loop", "waiting"}
             PROVE  /\ {d \in Accepted : mergeState[d] # "merged"}
                         = sched[g].buffer \cup {d \in sched[g].active : status[d] = "succeeded"}
                             \cup {d \in sched[g].held : \A r \in sched[g].reducer : status[r] # "succeeded"}
                    /\ sched[g].buffer \cap sched[g].held = {}
                    /\ sched[g].buffer \cap {d \in sched[g].active : status[d] = "succeeded"} = {}
  BY DEF BufferAgrees
<1> DEFINE c == sched[g]
<1>1. Remembers(c, status, mergeState, inputs, dispatched, lost) /\ AtHome(c) /\ Alive(c)
  BY OwnersAreCurrent DEF AtHome, Looping, Alive
<1>2. c.abort = "none"
  BY <1>1 DEF MemoryInv, Informed, Owner, Halted
<1>3. Calm(c, lost)
  <2>1. c.discoveryAbort # "none" => deadlineReached
    BY <1>1, <1>2, RecordFacts DEF Sound, MemoryInv, Informed
  <2> QED BY <1>2, <2>1 DEF Calm, FewAnswersAreLost
<1>4. Knows(c, status, mergeState, inputs)
  BY <1>1, <1>3 DEF Remembers
<1>5. {d \in Accepted : mergeState[d] # "merged"} = Remaining(status, mergeState)
  BY DEF Accepted, Remaining
<1> QED BY <1>4, <1>5 DEF Knows, Unread, Withheld

LEMMA AdmissionFollows == Known /\ MemoryInv => DispatchIsAdmitted
<1> SUFFICES ASSUME Known, MemoryInv, NEW g \in Coordinator, NEW w \in sched[g].active,
                    Owner(g), runner[w] = "queue"
             PROVE  CanInsert(w)
  BY DEF DispatchIsAdmitted
<1> DEFINE c == sched[g]
           u == Cardinality(Unborn(c, status))
<1>1. /\ c.active \subseteq Discovery /\ c.dispatched \in Int /\ dispatched \in Int
      /\ Alive(c) /\ Counts(c, status, dispatched)
  BY RecordFacts, OwnersAreCurrent DEF Owner, Live, Alive, Remembers
<1>2. w \in Discovery /\ w \notin Reducer /\ w \notin Setup /\ w \in Task
  BY <1>1, WorkersAssumption DEF Task
<1>3. status[w] = "none"
  BY <1>2 DEF MemoryInv, RunnersInv
<1>4. u \in Nat /\ u # 0
  <2>1. w \in Unborn(c, status) /\ Unborn(c, status) \subseteq Discovery
    BY <1>1, <1>3 DEF Unborn
  <2>2. IsFiniteSet(Unborn(c, status)) /\ u \in Nat
    BY <2>1, FiniteDiscoveries
  <2> QED BY <2>1, <2>2, FS_EmptySet
<1>5. dispatched + u <= c.dispatched /\ c.dispatched <= MaxDiscoveryRuns
  BY <1>1 DEF Counts
<1> HIDE DEF u
<1>6. dispatched < MaxDiscoveryRuns
  BY <1>1, <1>4, <1>5, ConfigAssumption
<1> QED BY <1>2, <1>6 DEF CanInsert

\* What is accepted and not merged is in the buffer, in the reducer's hands or among the
\* outcomes not looked at yet, once each, for the coordinator that has the run - unless
\* two answers were lost and the deadline is reached: an acceptance whose answer is lost
\* twice counts as canceled when the deadline aborted its discovery.
THEOREM BuffersAreKnown == SystemSpec => [](FewAnswersAreLost => BufferAgrees)
<1>1. Known /\ MemoryInv => (FewAnswersAreLost => BufferAgrees)
  BY BufferFollows
<1> QED BY <1>1, MemoryInvariant, PTL

\* The store never refuses a discovery that the coordinator with the run starts: both
\* count the same dispatches, over any adoptions, refunds, crashes and lost answers.
THEOREM DispatchesAreAdmitted == SystemSpec => []DispatchIsAdmitted
BY MemoryInvariant, AdmissionFollows, PTL

=============================================================================
