------------------------- MODULE DeepScanStoreProofs -------------------------
(***************************************************************************)
(* What the workbench store guarantees for every number of workers, every    *)
(* configuration and every number of coordinator generations.                *)
(***************************************************************************)
EXTENDS DeepScanStore, FiniteSetTheorems, TLAPS

LEMMA TypeInit == Init => TypeOK
<1> SUFFICES ASSUME Init PROVE TypeOK
  OBVIOUS
<1>1. generation \in 1 .. MaxGeneration
  BY ConfigAssumption DEF Init
<1>2. runStatus \in RunStatus /\ phase \in Phase /\ terminalReason \in TerminalReason
  BY DEF Init, RunStatus, Phase, TerminalReason
<1>3. manifest \in BOOLEAN /\ canceledAt \in BOOLEAN /\ deadlineReached \in BOOLEAN
  BY Zenon DEF Init
<1>4. dispatched \in Int /\ completionSequence \in Nat /\ noNew \in Nat /\ errors \in Nat
  BY DEF Init
<1>5. /\ scanStatus \in ScanStatus
      /\ status \in [Worker -> WorkerStatus]
      /\ mergeState \in [Discovery -> MergeState]
      /\ sequence \in [Discovery -> Nat]
      /\ error \in [Worker -> ErrorMessage]
      /\ attempt \in [Worker -> 0 .. MaxAttempt]
      /\ inputs \in [Reducer -> SUBSET Discovery]
  BY ConfigAssumption DEF Init, NoWorkers, ScanStatus, WorkerStatus, MergeState, ErrorMessage
<1>. QED BY <1>1, <1>2, <1>3, <1>4, <1>5 DEF TypeOK

LEMMA TypeStep == TypeOK /\ [Next]_vars => TypeOK'
<1> SUFFICES ASSUME TypeOK, [Next]_vars PROVE TypeOK'
  OBVIOUS
<1> USE ConfigAssumption, WorkersAssumption
    DEF TypeOK, RunStatus, Phase, TerminalReason, ScanStatus, WorkerStatus,
        MergeState, ErrorMessage, Active, Worker, Caller, NoGeneration,
        runVars, scanVars, workerVars
<1>1. CASE BeginDeepScan
  BY <1>1 DEF BeginDeepScan
<1>2. CASE ReachDeadline
  BY <1>2 DEF ReachDeadline
<1>3. ASSUME NEW fresh \in BOOLEAN, ClaimCoordinator(fresh) PROVE TypeOK'
  <2>1. Refund \in Nat
    BY FS_Subset, FS_CardinalityType DEF Refund
  <2>2. CASE generation > 1 \/ phase # "setup"
    BY <1>3, <2>1, <2>2
       DEF ClaimCoordinator, RecoverExpiredCoordinator, CancelActiveWorkers, Rebuffer
  <2>3. CASE ~(generation > 1 \/ phase # "setup")
    BY <1>3, <2>3 DEF ClaimCoordinator
  <2>. QED BY <2>2, <2>3
<1>4. ASSUME NEW g \in Caller, NEW w \in Worker, NEW st \in Active,
             NEW a \in 0 .. MaxAttempt, NEW e \in {"none", "message"}, InsertWorker(g, w, st, a, e)
      PROVE  TypeOK'
  BY <1>4 DEF InsertWorker, StatusIs, CanInsert
<1>5. ASSUME NEW g \in Caller, NEW w \in Worker, NEW a \in 0 .. MaxAttempt,
             NEW st \in Active, NEW e \in {"none", "message"},
             UpdateWorker(g, w, st, a, e)
      PROVE  TypeOK'
  BY <1>5 DEF UpdateWorker, StatusIs, AttemptIs, ErrorIs
<1>21. ASSUME NEW g \in Caller, NEW w \in Worker, NEW a \in 0 .. MaxAttempt,
             NEW e \in {"none", "message"}, FailWorker(g, w, a, e)
      PROVE  TypeOK'
  BY <1>21 DEF FailWorker, StatusIs, AttemptIs, ErrorIs, Rebuffer
<1>6. ASSUME NEW g \in Caller, NEW w \in Worker, NEW a \in 0 .. MaxAttempt,
             NEW e \in {"none", "message", "shutdown"}, NEW replaceable \in BOOLEAN,
             CancelWorker(g, w, a, e, replaceable)
      PROVE  TypeOK'
  BY <1>6 DEF CancelWorker, StatusIs, AttemptIs, ErrorIs
<1>7. ASSUME NEW g \in Caller, NEW d \in Discovery, NEW a \in 0 .. MaxAttempt,
             AcceptDiscovery(g, d, a)
      PROVE  TypeOK'
  BY <1>7 DEF AcceptDiscovery, NextPlace, StatusIs, AttemptIs
<1>8. ASSUME NEW g \in Caller, NEW s \in Setup, NEW a \in 0 .. MaxAttempt,
             FinishSetup(g, s, a)
      PROVE  TypeOK'
  BY <1>8 DEF FinishSetup, StatusIs, AttemptIs
<1>9. ASSUME NEW g \in Caller, NEW r \in Reducer, NEW claimed \in SUBSET Discovery,
             ClaimDedup(g, r, claimed)
      PROVE  TypeOK'
  BY <1>9 DEF ClaimDedup, CanClaimDedup, StatusIs
<1>10. ASSUME NEW g \in Caller, NEW r \in Reducer, NEW newFindings \in BOOLEAN,
              CommitDedup(g, r, newFindings)
       PROVE  TypeOK'
  <2>1. Cardinality(inputs[r]) \in Nat
    BY FS_Subset, FS_CardinalityType
  <2>. QED BY <1>10, <2>1 DEF CommitDedup, NoNewAfter, StatusIs
<1>11. ASSUME NEW g \in Caller, NEW reason \in {"saturated", "capped"},
              NEW omitted \in SUBSET Discovery, NEW stopped \in BOOLEAN,
              FinishDeepScan(g, reason, stopped, omitted)
       PROVE  TypeOK'
  BY <1>11 DEF FinishDeepScan, BufferedAtFinish, Rebuffer, CancelActiveWorkers
<1>12. ASSUME NEW g \in Caller, NEW reason \in {"saturated", "capped"},
              NEW omitted \in SUBSET Discovery, ReplayFinish(g, reason, omitted)
       PROVE  TypeOK'
  BY <1>12 DEF ReplayFinish
<1>13. ASSUME NEW g \in Caller, NEW st \in {"failed", "interrupted"},
              FailDeepScan(g, st)
       PROVE  TypeOK'
  BY <1>13 DEF FailDeepScan, CancelActiveWorkers
<1>14. CASE FailScan
  BY <1>14 DEF FailScan, CancelActiveWorkers
<1>17. CASE CancelScan
  <2>1. canceledAt' \in BOOLEAN
    BY <1>17, Zenon DEF CancelScan
  <2>. QED BY <1>17, <2>1 DEF CancelScan, CancelActiveWorkers
<1>15. CASE CompleteScan
  BY <1>15 DEF CompleteScan
<1>16. CASE UNCHANGED vars
  BY <1>16 DEF vars
<1> HIDE DEF TypeOK, Active, Worker, Caller
<1>18. ASSUME NEW g \in Caller, WorkerNext(g) PROVE TypeOK'
  BY <1>4, <1>5, <1>6, <1>7, <1>8, <1>18, <1>21 DEF WorkerNext
<1>19. ASSUME NEW g \in Caller, ReducerNext(g) PROVE TypeOK'
  BY <1>9, <1>10, <1>19 DEF ReducerNext
<1>20. ASSUME NEW g \in Caller, TerminalNext(g) PROVE TypeOK'
  BY <1>11, <1>12, <1>13, <1>20 DEF TerminalNext
<1>. QED
  BY <1>1, <1>2, <1>3, <1>14, <1>15, <1>16, <1>17, <1>18, <1>19, <1>20 DEF Next

(* Type correctness: no subcommand, from any caller, writes a value outside  *)
(* the ones the tables declare.                                              *)
THEOREM TypeCorrect == Spec => []TypeOK
BY TypeInit, TypeStep, PTL DEF Spec

-----------------------------------------------------------------------------
(* Control: a stopped run is idle, the run and its parent agree, and one     *)
(* reducer is at work.  The three are inductive together with TypeOK: a row   *)
(* only becomes active while run and parent are both running, and whoever    *)
(* stops either of them cancels the active rows in the same transaction.     *)

Control == TypeOK /\ StoppedIsIdle /\ ParentAgrees /\ OneReducer

LEMMA ControlInit == Init => Control
<1> SUFFICES ASSUME Init PROVE StoppedIsIdle /\ ParentAgrees /\ OneReducer
  BY TypeInit DEF Control
<1> USE WorkersAssumption DEF Init, NoWorkers, Active, Worker, Terminal
<1>1. StoppedIsIdle
  BY DEF StoppedIsIdle, ActiveWorker
<1>2. ParentAgrees
  <2>1. ~canceledAt
    BY Zenon
  <2>. QED BY <2>1 DEF ParentAgrees
<1>3. OneReducer
  BY DEF OneReducer
<1>. QED BY <1>1, <1>2, <1>3

LEMMA ControlStep == Control /\ [Next]_vars => Control'
<1> SUFFICES ASSUME Control, [Next]_vars
             PROVE  (StoppedIsIdle /\ ParentAgrees /\ OneReducer)'
  BY TypeStep DEF Control
<1> USE WorkersAssumption
    DEF Control, TypeOK, StoppedIsIdle, ParentAgrees, OneReducer, ActiveWorker,
        Active, Worker, Terminal, runVars, scanVars, workerVars
<1>1. CASE BeginDeepScan
  BY <1>1 DEF BeginDeepScan
<1>2. CASE ReachDeadline
  BY <1>2 DEF ReachDeadline
<1>3. ASSUME NEW fresh \in BOOLEAN, ClaimCoordinator(fresh)
      PROVE  (StoppedIsIdle /\ ParentAgrees /\ OneReducer)'
  <2>1. CASE generation > 1 \/ phase # "setup"
    BY <1>3, <2>1 DEF ClaimCoordinator, RunIsOpen, RecoverExpiredCoordinator, CancelActiveWorkers
  <2>2. CASE ~(generation > 1 \/ phase # "setup")
    BY <1>3, <2>2 DEF ClaimCoordinator, RunIsOpen
  <2>. QED BY <2>1, <2>2
<1>4. ASSUME NEW g \in Caller, NEW w \in Worker, NEW st \in Active,
             NEW a \in 0 .. MaxAttempt, NEW e \in {"none", "message"}, InsertWorker(g, w, st, a, e)
      PROVE  (StoppedIsIdle /\ ParentAgrees /\ OneReducer)'
  BY <1>4 DEF InsertWorker, StatusIs, CanInsert, RunIsOpen
<1>5. ASSUME NEW g \in Caller, NEW w \in Worker, NEW a \in 0 .. MaxAttempt,
             NEW st \in Active, NEW e \in {"none", "message"},
             UpdateWorker(g, w, st, a, e)
      PROVE  (StoppedIsIdle /\ ParentAgrees /\ OneReducer)'
  BY <1>5 DEF UpdateWorker, StatusIs, RunIsOpen
<1>6. ASSUME NEW g \in Caller, NEW w \in Worker, NEW a \in 0 .. MaxAttempt,
             NEW e \in {"none", "message"}, FailWorker(g, w, a, e)
      PROVE  (StoppedIsIdle /\ ParentAgrees /\ OneReducer)'
  BY <1>6 DEF FailWorker, StatusIs, RunIsOpen
<1>7. ASSUME NEW g \in Caller, NEW w \in Worker, NEW a \in 0 .. MaxAttempt,
             NEW e \in {"none", "message", "shutdown"}, NEW replaceable \in BOOLEAN,
             CancelWorker(g, w, a, e, replaceable)
      PROVE  (StoppedIsIdle /\ ParentAgrees /\ OneReducer)'
  BY <1>7 DEF CancelWorker, StatusIs
<1>8. ASSUME NEW g \in Caller, NEW d \in Discovery, NEW a \in 0 .. MaxAttempt,
             AcceptDiscovery(g, d, a)
      PROVE  (StoppedIsIdle /\ ParentAgrees /\ OneReducer)'
  BY <1>8 DEF AcceptDiscovery, StatusIs
<1>9. ASSUME NEW g \in Caller, NEW s \in Setup, NEW a \in 0 .. MaxAttempt, FinishSetup(g, s, a)
      PROVE  (StoppedIsIdle /\ ParentAgrees /\ OneReducer)'
  BY <1>9 DEF FinishSetup, StatusIs
<1>10. ASSUME NEW g \in Caller, NEW r \in Reducer, NEW claimed \in SUBSET Discovery,
              ClaimDedup(g, r, claimed)
       PROVE  (StoppedIsIdle /\ ParentAgrees /\ OneReducer)'
  BY <1>10 DEF ClaimDedup, CanClaimDedup, StatusIs, RunIsOpen, ActiveReducer
<1>11. ASSUME NEW g \in Caller, NEW r \in Reducer, NEW newFindings \in BOOLEAN,
              CommitDedup(g, r, newFindings)
       PROVE  (StoppedIsIdle /\ ParentAgrees /\ OneReducer)'
  BY <1>11 DEF CommitDedup, StatusIs
<1>12. ASSUME NEW g \in Caller, NEW reason \in {"saturated", "capped"},
              NEW omitted \in SUBSET Discovery, NEW stopped \in BOOLEAN,
              FinishDeepScan(g, reason, stopped, omitted)
       PROVE  (StoppedIsIdle /\ ParentAgrees /\ OneReducer)'
  BY <1>12 DEF FinishDeepScan, CancelActiveWorkers, RunIsOpen
<1>13. ASSUME NEW g \in Caller, NEW reason \in {"saturated", "capped"},
              NEW omitted \in SUBSET Discovery, ReplayFinish(g, reason, omitted)
       PROVE  (StoppedIsIdle /\ ParentAgrees /\ OneReducer)'
  BY <1>13 DEF ReplayFinish
<1>14. ASSUME NEW g \in Caller, NEW st \in {"failed", "interrupted"}, FailDeepScan(g, st)
       PROVE  (StoppedIsIdle /\ ParentAgrees /\ OneReducer)'
  BY <1>14 DEF FailDeepScan, CancelActiveWorkers
<1>15. CASE FailScan
  BY <1>15 DEF FailScan, CancelActiveWorkers
<1>16. CASE CancelScan
  <2>1. StoppedIsIdle' /\ OneReducer'
    BY <1>16 DEF CancelScan, CancelActiveWorkers
  <2>2. runStatus \in {"none", "running", "succeeded"}
    BY <1>16 DEF CancelScan, RunStatus
  <2>3. runStatus' \in {"none", "canceled"} /\ scanStatus' = "failed"
    BY <1>16, <2>2 DEF CancelScan, CanceledWithParent
  <2>4. ParentAgrees'
    BY <2>3
  <2>. QED BY <2>1, <2>4
<1>17. CASE CompleteScan
  BY <1>17 DEF CompleteScan
<1>18. CASE UNCHANGED vars
  BY <1>18 DEF vars
<1> HIDE DEF Control, TypeOK, StoppedIsIdle, ParentAgrees, OneReducer, Active, Worker
<1>19. ASSUME NEW g \in Caller, WorkerNext(g)
       PROVE  (StoppedIsIdle /\ ParentAgrees /\ OneReducer)'
  BY <1>4, <1>5, <1>6, <1>7, <1>8, <1>9, <1>19 DEF WorkerNext
<1>20. ASSUME NEW g \in Caller, ReducerNext(g)
       PROVE  (StoppedIsIdle /\ ParentAgrees /\ OneReducer)'
  BY <1>10, <1>11, <1>20 DEF ReducerNext
<1>21. ASSUME NEW g \in Caller, TerminalNext(g)
       PROVE  (StoppedIsIdle /\ ParentAgrees /\ OneReducer)'
  BY <1>12, <1>13, <1>14, <1>21 DEF TerminalNext
<1>. QED
  BY <1>1, <1>2, <1>3, <1>15, <1>16, <1>17, <1>18, <1>19, <1>20, <1>21 DEF Next

(* Once the run or its parent has stopped, no worker row is active.          *)
THEOREM StoppedRunsAreIdle == Spec => []StoppedIsIdle
<1>1. Spec => []Control
  BY ControlInit, ControlStep, PTL DEF Spec
<1>2. Control => StoppedIsIdle
  BY DEF Control
<1>. QED BY <1>1, <1>2, PTL

(* The run and its parent scan agree about the outcome in every state.       *)
THEOREM RunsAgreeWithParents == Spec => []ParentAgrees
<1>1. Spec => []Control
  BY ControlInit, ControlStep, PTL DEF Spec
<1>2. Control => ParentAgrees
  BY DEF Control
<1>. QED BY <1>1, <1>2, PTL

(* No sequence of claims, crashes and stale requests puts two reducers to    *)
(* work on one run.                                                          *)
THEOREM OneReducerAtATime == Spec => []OneReducer
<1>1. Spec => []Control
  BY ControlInit, ControlStep, PTL DEF Spec
<1>2. Control => OneReducer
  BY DEF Control
<1>. QED BY <1>1, <1>2, PTL



-----------------------------------------------------------------------------
(* Merge states and reducers.  Inductive with Control: a reducer at work     *)
(* holds its inputs because no second one exists to release or merge them.   *)

LEMMA MergeInit == Init => MergeStateFollowsReducers
BY WorkersAssumption DEF Init, NoWorkers, MergeStateFollowsReducers, Accepted, Active, Worker

(* A claim names at least one discovery. *)
LEMMA EnoughIsSome ==
  ASSUME NEW claimed, IsFiniteSet(claimed), EnoughInputs(claimed)
  PROVE  claimed # {}
<1>1. Cardinality(claimed) \in Nat
  BY FS_CardinalityType
<1> DEFINE least == IF \/ SuccessfulReducer
                       \/ /\ Cardinality(claimed) = 1
                          /\ dispatched >= MaxDiscoveryRuns \/ deadlineReached
                          /\ ~ActiveDiscovery
                    THEN 1 ELSE 2
<1>2. least \in {1, 2}
  OBVIOUS
<1>3. Cardinality(claimed) >= least
  BY DEF EnoughInputs
<1> HIDE DEF least
<1>4. Cardinality(claimed) # 0
  BY <1>1, <1>2, <1>3
<1>. QED BY <1>4, FS_EmptySet

LEMMA MergeStep == Control /\ MergeStateFollowsReducers /\ [Next]_vars => MergeStateFollowsReducers'
<1> SUFFICES ASSUME Control, MergeStateFollowsReducers, [Next]_vars
             PROVE  MergeStateFollowsReducers'
  OBVIOUS
<1>0. TypeOK /\ OneReducer
  BY DEF Control
<1> USE WorkersAssumption, <1>0
    DEF TypeOK, OneReducer, MergeStateFollowsReducers, Accepted,
        Active, Worker, WorkerStatus, MergeState, runVars, scanVars, workerVars
<1>1. CASE BeginDeepScan
  BY <1>1 DEF BeginDeepScan
<1>2. CASE ReachDeadline
  BY <1>2 DEF ReachDeadline
<1>3. ASSUME NEW fresh \in BOOLEAN, ClaimCoordinator(fresh)
      PROVE  MergeStateFollowsReducers'
  <2>1. CASE generation > 1 \/ phase # "setup"
    BY <1>3, <2>1 DEF ClaimCoordinator, RecoverExpiredCoordinator, CancelActiveWorkers, Rebuffer,
       Interrupted, ShutDown
  <2>2. CASE ~(generation > 1 \/ phase # "setup")
    BY <1>3, <2>2 DEF ClaimCoordinator
  <2>. QED BY <2>1, <2>2
<1>4. ASSUME NEW g \in Caller, NEW w \in Worker, NEW st \in Active,
             NEW a \in 0 .. MaxAttempt, NEW e \in {"none", "message"}, InsertWorker(g, w, st, a, e)
      PROVE  MergeStateFollowsReducers'
  BY <1>4 DEF InsertWorker, StatusIs, CanInsert
<1>5. ASSUME NEW g \in Caller, NEW w \in Worker, NEW a \in 0 .. MaxAttempt,
             NEW st \in Active, NEW e \in {"none", "message"},
             UpdateWorker(g, w, st, a, e)
      PROVE  MergeStateFollowsReducers'
  BY <1>5 DEF UpdateWorker, StatusIs
<1>6. ASSUME NEW g \in Caller, NEW w \in Worker, NEW a \in 0 .. MaxAttempt,
             NEW e \in {"none", "message"}, FailWorker(g, w, a, e)
      PROVE  MergeStateFollowsReducers'
  BY <1>6 DEF FailWorker, StatusIs, Rebuffer
<1>7. ASSUME NEW g \in Caller, NEW w \in Worker, NEW a \in 0 .. MaxAttempt,
             NEW e \in {"none", "message", "shutdown"}, NEW replaceable \in BOOLEAN,
             CancelWorker(g, w, a, e, replaceable)
      PROVE  MergeStateFollowsReducers'
  BY <1>7 DEF CancelWorker, StatusIs
<1>8. ASSUME NEW g \in Caller, NEW d \in Discovery, NEW a \in 0 .. MaxAttempt,
             AcceptDiscovery(g, d, a)
      PROVE  MergeStateFollowsReducers'
  BY <1>8 DEF AcceptDiscovery, NextPlace, StatusIs
<1>9. ASSUME NEW g \in Caller, NEW s \in Setup, NEW a \in 0 .. MaxAttempt,
             FinishSetup(g, s, a)
      PROVE  MergeStateFollowsReducers'
  BY <1>9 DEF FinishSetup, StatusIs
<1>10. ASSUME NEW g \in Caller, NEW r \in Reducer, NEW claimed \in SUBSET Discovery,
              ClaimDedup(g, r, claimed)
       PROVE  MergeStateFollowsReducers'
  <2> claimed \subseteq Discovery /\ r \notin Discovery
    OBVIOUS
  <2>1. /\ status[r] = "none" /\ ~ActiveReducer
        /\ \A d \in claimed : mergeState[d] = "buffered"
        /\ status' = [status EXCEPT ![r] = "queued"]
        /\ inputs' = [inputs EXCEPT ![r] = claimed]
        /\ mergeState' = [d \in Discovery |->
                             IF d \in claimed THEN "merging" ELSE mergeState[d]]
    BY <1>10 DEF ClaimDedup, CanClaimDedup, StatusIs, IsBufferedPrefix, Buffered
  <2>2. claimed # {}
    BY <1>10, FS_Subset, EnoughIsSome DEF ClaimDedup, CanClaimDedup
  <2>3. \A x \in Reducer : x # r => status'[x] = status[x] /\ inputs'[x] = inputs[x]
    BY <2>1
  <2>4. status'[r] = "queued" /\ inputs'[r] = claimed
    BY <2>1
  <2>5. \A x \in Discovery : status'[x] = status[x]
    BY <2>1
  <2>6. \A d \in Discovery : mergeState'[d] = "none" <=> d \notin Accepted'
    BY <2>1, <2>5
  <2>7. \A d \in Discovery :
          mergeState'[d] = "merged" <=>
            \E x \in Reducer : status'[x] = "succeeded" /\ d \in inputs'[x]
    BY <2>1, <2>3, <2>4
  <2>8. \A r1, r2 \in Reducer :
          status'[r1] = "succeeded" /\ status'[r2] = "succeeded" /\ r1 # r2
            => inputs'[r1] \cap inputs'[r2] = {}
    BY <2>3, <2>4
  <2>9. \A x \in Reducer : status'[x] \in Active =>
          inputs'[x] # {} /\ \A d \in inputs'[x] : mergeState'[d] = "merging"
    BY <2>1, <2>2, <2>3, <2>4 DEF ActiveReducer
  <2>10. \A d \in Discovery : mergeState'[d] = "merging" =>
          \E x \in Reducer : d \in inputs'[x] /\ status'[x] \notin {"none", "succeeded"}
    BY <2>1, <2>3, <2>4
  <2>. QED BY <2>6, <2>7, <2>8, <2>9, <2>10
<1>11. ASSUME NEW g \in Caller, NEW r \in Reducer, NEW newFindings \in BOOLEAN,
              CommitDedup(g, r, newFindings)
       PROVE  MergeStateFollowsReducers'
  BY <1>11 DEF CommitDedup, StatusIs
<1>12. ASSUME NEW g \in Caller, NEW reason \in {"saturated", "capped"},
              NEW omitted \in SUBSET Discovery, NEW stopped \in BOOLEAN,
              FinishDeepScan(g, reason, stopped, omitted)
       PROVE  MergeStateFollowsReducers'
  BY <1>12 DEF FinishDeepScan, CancelActiveWorkers, BufferedAtFinish, Rebuffer, CanFinish, ActiveWorker
<1>13. ASSUME NEW g \in Caller, NEW reason \in {"saturated", "capped"},
              NEW omitted \in SUBSET Discovery, ReplayFinish(g, reason, omitted)
       PROVE  MergeStateFollowsReducers'
  BY <1>13 DEF ReplayFinish
<1>14. ASSUME NEW g \in Caller, NEW st \in {"failed", "interrupted"}, FailDeepScan(g, st)
       PROVE  MergeStateFollowsReducers'
  BY <1>14 DEF FailDeepScan, CancelActiveWorkers
<1>15. CASE FailScan
  BY <1>15 DEF FailScan, CancelActiveWorkers
<1>16. CASE CancelScan
  BY <1>16 DEF CancelScan, CancelActiveWorkers
<1>17. CASE CompleteScan
  BY <1>17 DEF CompleteScan
<1>18. CASE UNCHANGED vars
  BY <1>18 DEF vars
<1> HIDE DEF MergeStateFollowsReducers, TypeOK, Active, Worker
<1>19. ASSUME NEW g \in Caller, WorkerNext(g) PROVE MergeStateFollowsReducers'
  BY <1>4, <1>5, <1>6, <1>7, <1>8, <1>9, <1>19 DEF WorkerNext
<1>20. ASSUME NEW g \in Caller, ReducerNext(g) PROVE MergeStateFollowsReducers'
  BY <1>10, <1>11, <1>20 DEF ReducerNext
<1>21. ASSUME NEW g \in Caller, TerminalNext(g) PROVE MergeStateFollowsReducers'
  BY <1>12, <1>13, <1>14, <1>21 DEF TerminalNext
<1>. QED
  BY <1>1, <1>2, <1>3, <1>15, <1>16, <1>17, <1>18, <1>19, <1>20, <1>21 DEF Next

(* The worker table and the dedup inputs never disagree about what a reducer *)
(* holds or has merged, over every adoption, retry and failure.              *)
THEOREM TablesAgree == Spec => []MergeStateFollowsReducers
<1>1. Init => Control /\ MergeStateFollowsReducers
  BY ControlInit, MergeInit
<1>2. Control /\ MergeStateFollowsReducers /\ [Next]_vars
        => (Control /\ MergeStateFollowsReducers)'
  BY ControlStep, MergeStep
<1>. QED BY <1>1, <1>2, PTL DEF Spec


-----------------------------------------------------------------------------
(* The completion order.  A place is taken once, in the transaction that     *)
(* makes the row succeeded, and no other subcommand writes a place or takes  *)
(* a row out of succeeded.                                                   *)

LEMMA OrderInit == Init => CompletionOrder
BY WorkersAssumption DEF Init, NoWorkers, CompletionOrder, Accepted, Worker

LEMMA OrderStep == TypeOK /\ CompletionOrder /\ [Next]_vars => CompletionOrder'
<1> SUFFICES ASSUME TypeOK, CompletionOrder, [Next]_vars
             PROVE  CompletionOrder'
  OBVIOUS
<1> USE WorkersAssumption
    DEF TypeOK, CompletionOrder, Accepted, Active, Worker, runVars, scanVars, workerVars
<1>1. CASE BeginDeepScan
  BY <1>1 DEF BeginDeepScan
<1>2. CASE ReachDeadline
  BY <1>2 DEF ReachDeadline
<1>3. ASSUME NEW fresh \in BOOLEAN, ClaimCoordinator(fresh)
      PROVE  CompletionOrder'
  <2>1. CASE generation > 1 \/ phase # "setup"
    <3>1. UNCHANGED <<sequence, completionSequence>>
      BY <1>3, <2>1 DEF ClaimCoordinator, RecoverExpiredCoordinator
    <3>2. Accepted' = Accepted
      BY <1>3, <2>1 DEF ClaimCoordinator, RecoverExpiredCoordinator, CancelActiveWorkers
    <3> HIDE DEF Accepted
    <3>. QED BY <3>1, <3>2
  <2>2. CASE ~(generation > 1 \/ phase # "setup")
    BY <1>3, <2>2 DEF ClaimCoordinator
  <2>. QED BY <2>1, <2>2
<1>4. ASSUME NEW g \in Caller, NEW w \in Worker, NEW st \in Active,
             NEW a \in 0 .. MaxAttempt, NEW e \in {"none", "message"}, InsertWorker(g, w, st, a, e)
      PROVE  CompletionOrder'
  BY <1>4 DEF InsertWorker, StatusIs, CanInsert
<1>5. ASSUME NEW g \in Caller, NEW w \in Worker, NEW a \in 0 .. MaxAttempt,
             NEW st \in Active, NEW e \in {"none", "message"},
             UpdateWorker(g, w, st, a, e)
      PROVE  CompletionOrder'
  BY <1>5 DEF UpdateWorker, StatusIs
<1>6. ASSUME NEW g \in Caller, NEW w \in Worker, NEW a \in 0 .. MaxAttempt,
             NEW e \in {"none", "message"}, FailWorker(g, w, a, e)
      PROVE  CompletionOrder'
  BY <1>6 DEF FailWorker, StatusIs
<1>7. ASSUME NEW g \in Caller, NEW w \in Worker, NEW a \in 0 .. MaxAttempt,
             NEW e \in {"none", "message", "shutdown"}, NEW replaceable \in BOOLEAN,
             CancelWorker(g, w, a, e, replaceable)
      PROVE  CompletionOrder'
  BY <1>7 DEF CancelWorker, StatusIs
<1>8. ASSUME NEW g \in Caller, NEW d \in Discovery, NEW a \in 0 .. MaxAttempt,
             AcceptDiscovery(g, d, a)
      PROVE  CompletionOrder'
  <2>1. /\ status[d] = "running" /\ d \notin Accepted
        /\ completionSequence' = completionSequence + 1
        /\ sequence' = [sequence EXCEPT ![d] = completionSequence + 1]
        /\ status' = [status EXCEPT ![d] = "succeeded"]
    BY <1>8 DEF AcceptDiscovery, NextPlace, StatusIs
  <2>2. Accepted' = Accepted \cup {d}
    BY <2>1
  <2>3. sequence'[d] = completionSequence + 1
    BY <2>1
  <2>4. \A e \in Discovery : e # d => sequence'[e] = sequence[e]
    BY <2>1
  <2> HIDE DEF Accepted
  <2>5. \A e \in Accepted : e \in Discovery /\ e # d
    BY <2>1 DEF Accepted
  <2>6. \A e \in Discovery : sequence'[e] \in IF e \in Accepted'
                                             THEN 1 .. completionSequence' ELSE {0}
    BY <2>1, <2>2, <2>3, <2>4
  <2>7. \A n \in 1 .. completionSequence' : \E e \in Accepted' : sequence'[e] = n
    <3> SUFFICES ASSUME NEW n \in 1 .. completionSequence'
                 PROVE  \E e \in Accepted' : sequence'[e] = n
      OBVIOUS
    <3>1. CASE n = completionSequence + 1
      BY <3>1, <2>2, <2>3
    <3>2. CASE n # completionSequence + 1
      <4>1. n \in 1 .. completionSequence
        BY <3>2, <2>1
      <4>2. PICK e \in Accepted : sequence[e] = n
        BY <4>1
      <4>. QED BY <4>2, <2>2, <2>4, <2>5
    <3>. QED BY <3>1, <3>2
  <2>8. \A e, f \in Accepted' : sequence'[e] = sequence'[f] => e = f
    <3>1. \A e \in Accepted : sequence'[e] \in 1 .. completionSequence
      BY <2>4, <2>5
    <3>. QED BY <3>1, <2>2, <2>3, <2>4, <2>5
  <2>. QED BY <2>6, <2>7, <2>8
<1>9. ASSUME NEW g \in Caller, NEW s \in Setup, NEW a \in 0 .. MaxAttempt,
             FinishSetup(g, s, a)
      PROVE  CompletionOrder'
  BY <1>9 DEF FinishSetup, StatusIs
<1>10. ASSUME NEW g \in Caller, NEW r \in Reducer, NEW claimed \in SUBSET Discovery,
              ClaimDedup(g, r, claimed)
       PROVE  CompletionOrder'
  BY <1>10 DEF ClaimDedup, CanClaimDedup, StatusIs
<1>11. ASSUME NEW g \in Caller, NEW r \in Reducer, NEW newFindings \in BOOLEAN,
              CommitDedup(g, r, newFindings)
       PROVE  CompletionOrder'
  BY <1>11 DEF CommitDedup, StatusIs
<1>12. ASSUME NEW g \in Caller, NEW reason \in {"saturated", "capped"},
              NEW omitted \in SUBSET Discovery, NEW stopped \in BOOLEAN,
              FinishDeepScan(g, reason, stopped, omitted)
       PROVE  CompletionOrder'
  BY <1>12 DEF FinishDeepScan, CancelActiveWorkers
<1>13. ASSUME NEW g \in Caller, NEW reason \in {"saturated", "capped"},
              NEW omitted \in SUBSET Discovery, ReplayFinish(g, reason, omitted)
       PROVE  CompletionOrder'
  BY <1>13 DEF ReplayFinish
<1>14. ASSUME NEW g \in Caller, NEW st \in {"failed", "interrupted"}, FailDeepScan(g, st)
       PROVE  CompletionOrder'
  BY <1>14 DEF FailDeepScan, CancelActiveWorkers
<1>15. CASE FailScan
  BY <1>15 DEF FailScan, CancelActiveWorkers
<1>16. CASE CancelScan
  BY <1>16 DEF CancelScan, CancelActiveWorkers
<1>17. CASE CompleteScan
  BY <1>17 DEF CompleteScan
<1>18. CASE UNCHANGED vars
  BY <1>18 DEF vars
<1> HIDE DEF CompletionOrder, TypeOK, Active, Worker
<1>19. ASSUME NEW g \in Caller, WorkerNext(g) PROVE CompletionOrder'
  BY <1>4, <1>5, <1>6, <1>7, <1>8, <1>9, <1>19 DEF WorkerNext
<1>20. ASSUME NEW g \in Caller, ReducerNext(g) PROVE CompletionOrder'
  BY <1>10, <1>11, <1>20 DEF ReducerNext
<1>21. ASSUME NEW g \in Caller, TerminalNext(g) PROVE CompletionOrder'
  BY <1>12, <1>13, <1>14, <1>21 DEF TerminalNext
<1>. QED
  BY <1>1, <1>2, <1>3, <1>15, <1>16, <1>17, <1>18, <1>19, <1>20, <1>21 DEF Next

(* The accepted discoveries hold the places 1 .. completion_sequence, one    *)
(* each, whatever order their requests arrive in.                            *)
THEOREM PlacesAreDense == Spec => []CompletionOrder
<1>1. Init => TypeOK /\ CompletionOrder
  BY TypeInit, OrderInit
<1>2. TypeOK /\ CompletionOrder /\ [Next]_vars => (TypeOK /\ CompletionOrder)'
  BY TypeStep, OrderStep
<1>. QED BY <1>1, <1>2, PTL DEF Spec


-----------------------------------------------------------------------------
(* The dispatch budget.  Every subcommand but the insertion of a discovery   *)
(* leaves the charged set as it is or smaller; adoption takes out of it      *)
(* exactly the discoveries it subtracts, and rewrites their messages so that *)
(* a later adoption does not find them again.                                *)

LEMMA ChargedFinite == IsFiniteSet(Charged)
BY WorkersAssumption, FS_Subset DEF Charged

LEMMA OneMore ==
  ASSUME NEW S, IsFiniteSet(S), NEW x
  PROVE  Cardinality(S \cup {x}) <= Cardinality(S) + 1
<1>1. Cardinality(S) \in Nat
  BY FS_CardinalityType
<1>2. Cardinality(S \cup {x}) = IF x \in S THEN Cardinality(S) ELSE Cardinality(S) + 1
  BY FS_AddElement
<1>. QED BY <1>1, <1>2

LEMMA BudgetKept ==
  ASSUME TypeOK, DispatchBudget, dispatched' = dispatched, Charged' \subseteq Charged
  PROVE  DispatchBudget'
<1>1. Cardinality(Charged') <= Cardinality(Charged)
  BY ChargedFinite, FS_Subset
<1>2. Cardinality(Charged) \in Nat /\ Cardinality(Charged') \in Nat
  BY ChargedFinite, FS_Subset, FS_CardinalityType
<1>. QED BY <1>1, <1>2, ConfigAssumption DEF DispatchBudget, TypeOK

LEMMA BudgetInit == Init => DispatchBudget
<1> SUFFICES ASSUME Init PROVE DispatchBudget
  OBVIOUS
<1>1. Charged = {}
  BY WorkersAssumption DEF Init, NoWorkers, Charged, Interrupted, ShutDown, Active, Worker
<1>. QED BY <1>1, FS_EmptySet, ConfigAssumption DEF DispatchBudget, Init

LEMMA BudgetStep == TypeOK /\ DispatchBudget /\ [Next]_vars => DispatchBudget'
<1> SUFFICES ASSUME TypeOK, DispatchBudget, [Next]_vars PROVE DispatchBudget'
  OBVIOUS
<1> USE WorkersAssumption DEF TypeOK, Active, Worker, runVars, scanVars, workerVars
<1>1. CASE BeginDeepScan
  <2>1. dispatched' = dispatched
    BY <1>1 DEF BeginDeepScan
  <2>2. Charged' \subseteq Charged
    BY <1>1 DEF BeginDeepScan, Charged, Interrupted, ShutDown
  <2>. QED BY <2>1, <2>2, BudgetKept
<1>2. CASE ReachDeadline
  <2>1. dispatched' = dispatched
    BY <1>2 DEF ReachDeadline
  <2>2. Charged' \subseteq Charged
    BY <1>2 DEF ReachDeadline, Charged, Interrupted, ShutDown
  <2>. QED BY <2>1, <2>2, BudgetKept
<1>3. ASSUME NEW fresh \in BOOLEAN, ClaimCoordinator(fresh)
      PROVE  DispatchBudget'
  <2>1. CASE generation > 1 \/ phase # "setup"
    <3> DEFINE Back == {d \in Discovery : Interrupted(d)}
    <3>1. dispatched' = dispatched - Cardinality(Back)
      BY <1>3, <2>1 DEF ClaimCoordinator, RecoverExpiredCoordinator, Refund
    <3>2. Back \subseteq Charged /\ Charged \subseteq Discovery
      BY DEF Charged
    <3>3. Charged' \subseteq Charged \ Back
      BY <1>3, <2>1 DEF ClaimCoordinator, RecoverExpiredCoordinator, CancelActiveWorkers,
         Charged, Interrupted, ShutDown
    <3> HIDE DEF Back
    <3>4. /\ IsFiniteSet(Charged) /\ IsFiniteSet(Back) /\ IsFiniteSet(Charged \ Back)
          /\ IsFiniteSet(Charged')
      BY <3>2, <3>3, ChargedFinite, FS_Subset
    <3>5. Cardinality(Charged \ Back) = Cardinality(Charged) - Cardinality(Back)
      <4>1. Charged \cap Back = Back
        BY <3>2
      <4>. QED BY <3>4, <4>1, FS_Difference
    <3>6. Cardinality(Charged') <= Cardinality(Charged \ Back)
      BY <3>3, <3>4, FS_Subset
    <3>7. /\ Cardinality(Charged) \in Nat /\ Cardinality(Back) \in Nat
          /\ Cardinality(Charged') \in Nat
      BY <3>4, FS_CardinalityType
    <3>. QED BY <3>1, <3>5, <3>6, <3>7, ConfigAssumption DEF DispatchBudget, TypeOK
  <2>2. CASE ~(generation > 1 \/ phase # "setup")
    <3>1. dispatched' = dispatched
      BY <1>3, <2>2 DEF ClaimCoordinator
    <3>2. Charged' \subseteq Charged
      BY <1>3, <2>2 DEF ClaimCoordinator, Charged, Interrupted, ShutDown
    <3>. QED BY <3>1, <3>2, BudgetKept
  <2>. QED BY <2>1, <2>2
<1>4. ASSUME NEW g \in Caller, NEW w \in Worker, NEW st \in Active,
             NEW a \in 0 .. MaxAttempt, NEW e \in {"none", "message"}, InsertWorker(g, w, st, a, e)
      PROVE  DispatchBudget'
  <2>1. CASE w \notin Discovery
    <3>1. dispatched' = dispatched
      BY <1>4, <2>1 DEF InsertWorker
    <3>2. Charged' \subseteq Charged
      BY <1>4, <2>1 DEF InsertWorker, StatusIs, Charged, Interrupted, ShutDown
    <3>. QED BY <3>1, <3>2, BudgetKept
  <2>2. CASE w \in Discovery
    <3>1. dispatched < MaxDiscoveryRuns /\ dispatched' = dispatched + 1
      BY <1>4, <2>2 DEF InsertWorker, CanInsert
    <3>2. Charged' \subseteq Charged \cup {w}
      BY <1>4, <2>2 DEF InsertWorker, StatusIs, Charged, Interrupted, ShutDown
    <3>3. Cardinality(Charged') <= Cardinality(Charged \cup {w})
      BY <3>2, ChargedFinite, FS_Subset, FS_AddElement
    <3>4. Cardinality(Charged \cup {w}) <= Cardinality(Charged) + 1
      BY OneMore, ChargedFinite
    <3>5. /\ Cardinality(Charged) \in Nat
          /\ Cardinality(Charged \cup {w}) \in Nat
          /\ Cardinality(Charged') \in Nat
      BY <3>2, ChargedFinite, FS_CardinalityType, FS_AddElement, FS_Subset
    <3>. QED BY <3>1, <3>3, <3>4, <3>5, ConfigAssumption DEF DispatchBudget, TypeOK
  <2>. QED BY <2>1, <2>2
<1>5. ASSUME NEW g \in Caller, NEW w \in Worker, NEW a \in 0 .. MaxAttempt,
             NEW st \in Active, NEW e \in {"none", "message"},
             UpdateWorker(g, w, st, a, e)
      PROVE  DispatchBudget'
  <2>1. dispatched' = dispatched
    BY <1>5 DEF UpdateWorker
  <2>2. Charged' \subseteq Charged
    BY <1>5 DEF UpdateWorker, StatusIs, ErrorIs, Charged, Interrupted, ShutDown
  <2>. QED BY <2>1, <2>2, BudgetKept
<1>6. ASSUME NEW g \in Caller, NEW w \in Worker, NEW a \in 0 .. MaxAttempt,
             NEW e \in {"none", "message"}, FailWorker(g, w, a, e)
      PROVE  DispatchBudget'
  <2>1. dispatched' = dispatched
    BY <1>6 DEF FailWorker
  <2>2. Charged' \subseteq Charged
    BY <1>6 DEF FailWorker, StatusIs, ErrorIs, Charged, Interrupted, ShutDown
  <2>. QED BY <2>1, <2>2, BudgetKept
<1>7. ASSUME NEW g \in Caller, NEW w \in Worker, NEW a \in 0 .. MaxAttempt,
             NEW e \in {"none", "message", "shutdown"}, NEW replaceable \in BOOLEAN,
             CancelWorker(g, w, a, e, replaceable)
      PROVE  DispatchBudget'
  <2>1. dispatched' = dispatched
    BY <1>7 DEF CancelWorker
  <2>2. Charged' \subseteq Charged
    BY <1>7 DEF CancelWorker, StatusIs, ErrorIs, Charged, Interrupted, ShutDown
  <2>. QED BY <2>1, <2>2, BudgetKept
<1>8. ASSUME NEW g \in Caller, NEW d \in Discovery, NEW a \in 0 .. MaxAttempt,
             AcceptDiscovery(g, d, a)
      PROVE  DispatchBudget'
  <2>1. dispatched' = dispatched
    BY <1>8 DEF AcceptDiscovery
  <2>2. Charged' \subseteq Charged
    BY <1>8 DEF AcceptDiscovery, NextPlace, StatusIs, Charged, Interrupted, ShutDown
  <2>. QED BY <2>1, <2>2, BudgetKept
<1>9. ASSUME NEW g \in Caller, NEW s \in Setup, NEW a \in 0 .. MaxAttempt,
             FinishSetup(g, s, a)
      PROVE  DispatchBudget'
  <2>1. dispatched' = dispatched
    BY <1>9 DEF FinishSetup
  <2>2. Charged' \subseteq Charged
    BY <1>9 DEF FinishSetup, StatusIs, Charged, Interrupted, ShutDown
  <2>. QED BY <2>1, <2>2, BudgetKept
<1>10. ASSUME NEW g \in Caller, NEW r \in Reducer, NEW claimed \in SUBSET Discovery,
              ClaimDedup(g, r, claimed)
       PROVE  DispatchBudget'
  <2>1. dispatched' = dispatched
    BY <1>10 DEF ClaimDedup
  <2>2. Charged' \subseteq Charged
    BY <1>10 DEF ClaimDedup, CanClaimDedup, StatusIs, Charged, Interrupted, ShutDown
  <2>. QED BY <2>1, <2>2, BudgetKept
<1>11. ASSUME NEW g \in Caller, NEW r \in Reducer, NEW newFindings \in BOOLEAN,
              CommitDedup(g, r, newFindings)
       PROVE  DispatchBudget'
  <2>1. dispatched' = dispatched
    BY <1>11 DEF CommitDedup
  <2>2. Charged' \subseteq Charged
    BY <1>11 DEF CommitDedup, StatusIs, Charged, Interrupted, ShutDown
  <2>. QED BY <2>1, <2>2, BudgetKept
<1>12. ASSUME NEW g \in Caller, NEW reason \in {"saturated", "capped"},
              NEW omitted \in SUBSET Discovery, NEW stopped \in BOOLEAN,
              FinishDeepScan(g, reason, stopped, omitted)
       PROVE  DispatchBudget'
  <2>1. dispatched' = dispatched
    BY <1>12 DEF FinishDeepScan
  <2>2. Charged' \subseteq Charged
    BY <1>12 DEF FinishDeepScan, CancelActiveWorkers, Charged, Interrupted, ShutDown
  <2>. QED BY <2>1, <2>2, BudgetKept
<1>13. ASSUME NEW g \in Caller, NEW reason \in {"saturated", "capped"},
              NEW omitted \in SUBSET Discovery, ReplayFinish(g, reason, omitted)
       PROVE  DispatchBudget'
  <2>1. dispatched' = dispatched
    BY <1>13 DEF ReplayFinish
  <2>2. Charged' \subseteq Charged
    BY <1>13 DEF ReplayFinish, Charged, Interrupted, ShutDown
  <2>. QED BY <2>1, <2>2, BudgetKept
<1>14. ASSUME NEW g \in Caller, NEW st \in {"failed", "interrupted"}, FailDeepScan(g, st)
       PROVE  DispatchBudget'
  <2>1. dispatched' = dispatched
    BY <1>14 DEF FailDeepScan
  <2>2. Charged' \subseteq Charged
    BY <1>14 DEF FailDeepScan, CancelActiveWorkers, Charged, Interrupted, ShutDown
  <2>. QED BY <2>1, <2>2, BudgetKept
<1>15. CASE FailScan
  <2>1. dispatched' = dispatched
    BY <1>15 DEF FailScan
  <2>2. Charged' \subseteq Charged
    BY <1>15 DEF FailScan, CancelActiveWorkers, Charged, Interrupted, ShutDown
  <2>. QED BY <2>1, <2>2, BudgetKept
<1>16. CASE CancelScan
  <2>1. dispatched' = dispatched
    BY <1>16 DEF CancelScan
  <2>2. Charged' \subseteq Charged
    BY <1>16 DEF CancelScan, CancelActiveWorkers, Charged, Interrupted, ShutDown
  <2>. QED BY <2>1, <2>2, BudgetKept
<1>17. CASE CompleteScan
  <2>1. dispatched' = dispatched
    BY <1>17 DEF CompleteScan
  <2>2. Charged' \subseteq Charged
    BY <1>17 DEF CompleteScan, Charged, Interrupted, ShutDown
  <2>. QED BY <2>1, <2>2, BudgetKept
<1>18. CASE UNCHANGED vars
  <2>1. dispatched' = dispatched
    BY <1>18 DEF vars
  <2>2. Charged' \subseteq Charged
    BY <1>18 DEF vars, Charged, Interrupted, ShutDown
  <2>. QED BY <2>1, <2>2, BudgetKept
<1> HIDE DEF TypeOK, Active, Worker
<1>19. ASSUME NEW g \in Caller, WorkerNext(g) PROVE DispatchBudget'
  BY <1>4, <1>5, <1>6, <1>7, <1>8, <1>9, <1>19 DEF WorkerNext
<1>20. ASSUME NEW g \in Caller, ReducerNext(g) PROVE DispatchBudget'
  BY <1>10, <1>11, <1>20 DEF ReducerNext
<1>21. ASSUME NEW g \in Caller, TerminalNext(g) PROVE DispatchBudget'
  BY <1>12, <1>13, <1>14, <1>21 DEF TerminalNext
<1>. QED
  BY <1>1, <1>2, <1>3, <1>15, <1>16, <1>17, <1>18, <1>19, <1>20, <1>21 DEF Next

(* However often coordinators are replaced, the counter covers every          *)
(* discovery that is charged, and never passes max_discovery_runs.            *)
THEOREM DispatchesAreBounded == Spec => []DispatchBudget
<1>1. Init => TypeOK /\ DispatchBudget
  BY TypeInit, BudgetInit
<1>2. TypeOK /\ DispatchBudget /\ [Next]_vars => (TypeOK /\ DispatchBudget)'
  BY TypeStep, BudgetStep
<1>. QED BY <1>1, <1>2, PTL DEF Spec

-----------------------------------------------------------------------------
(* The three invariants together, and what a step may do to what the run has *)
(* accepted.  Most subcommands keep all of it; the others are named.         *)

StoreInv == Control /\ MergeStateFollowsReducers /\ CompletionOrder

LEMMA StoreInvStep == StoreInv /\ [Next]_vars => StoreInv'
BY ControlStep, MergeStep, OrderStep DEF StoreInv, Control

LEMMA StoreInvariant == Spec => []StoreInv
<1>1. Init => StoreInv
  BY ControlInit, MergeInit, OrderInit DEF StoreInv
<1>. QED BY <1>1, StoreInvStep, PTL DEF Spec

Canceled == {d \in Discovery : status[d] = "canceled"}

\* Nothing is accepted or merged, and no streak counts.
Keeps ==
    /\ UNCHANGED <<sequence, completionSequence, noNew, errors>>
    /\ Accepted' = Accepted /\ Merged' = Merged /\ Canceled \subseteq Canceled'
    /\ \A r \in Reducer : status'[r] = "succeeded" => status[r] = "succeeded" /\ inputs'[r] = inputs[r]

\* The run begins, fails, is interrupted or canceled, or stays as it is.
Moves ==
    \/ runStatus' = runStatus
    \/ runStatus = "none" /\ runStatus' = "running"
    \/ runStatus \in {"running", "succeeded"} /\ runStatus' \in {"failed", "interrupted", "canceled"}

LEMMA StepKinds ==
  ASSUME StoreInv, [Next]_vars
  PROVE  \/ Keeps /\ Moves
         \/ \E g \in Caller, d \in Discovery, a \in 0 .. MaxAttempt : AcceptDiscovery(g, d, a)
         \/ \E g \in Caller, r \in Reducer, newFindings \in BOOLEAN : CommitDedup(g, r, newFindings)
         \/ \E g \in Caller, w \in Worker, a \in 0 .. MaxAttempt, e \in {"none", "message", "shutdown"} :
               CancelWorker(g, w, a, e, TRUE)
         \/ \E g \in Caller, reason \in {"saturated", "capped"}, omitted \in SUBSET Discovery,
               stopped \in BOOLEAN : FinishDeepScan(g, reason, stopped, omitted)
<1> USE WorkersAssumption
    DEF StoreInv, Control, TypeOK, MergeStateFollowsReducers, Active, Worker, WorkerStatus,
        MergeState, Keeps, Moves, Accepted, Merged, Canceled, runVars, scanVars, workerVars
<1>1. CASE BeginDeepScan
  BY <1>1 DEF BeginDeepScan
<1>2. CASE ReachDeadline
  BY <1>2 DEF ReachDeadline
<1>3. ASSUME NEW fresh \in BOOLEAN, ClaimCoordinator(fresh) PROVE Keeps /\ Moves
  <2>1. CASE generation > 1 \/ phase # "setup"
    BY <1>3, <2>1 DEF ClaimCoordinator, RecoverExpiredCoordinator, CancelActiveWorkers, Rebuffer
  <2>2. CASE ~(generation > 1 \/ phase # "setup")
    BY <1>3, <2>2 DEF ClaimCoordinator
  <2>. QED BY <2>1, <2>2
<1>4. ASSUME NEW g \in Caller, NEW w \in Worker, NEW st \in Active,
             NEW a \in 0 .. MaxAttempt, NEW e \in {"none", "message"}, InsertWorker(g, w, st, a, e)
      PROVE  Keeps /\ Moves
  BY <1>4 DEF InsertWorker, StatusIs, CanInsert
<1>5. ASSUME NEW g \in Caller, NEW w \in Worker, NEW a \in 0 .. MaxAttempt,
             NEW st \in Active, NEW e \in {"none", "message"}, UpdateWorker(g, w, st, a, e)
      PROVE  Keeps /\ Moves
  BY <1>5 DEF UpdateWorker, StatusIs
<1>6. ASSUME NEW g \in Caller, NEW w \in Worker, NEW a \in 0 .. MaxAttempt,
             NEW e \in {"none", "message"}, FailWorker(g, w, a, e)
      PROVE  Keeps /\ Moves
  BY <1>6 DEF FailWorker, StatusIs, Rebuffer
<1>7. ASSUME NEW g \in Caller, NEW w \in Worker, NEW a \in 0 .. MaxAttempt,
             NEW e \in {"none", "message", "shutdown"}, CancelWorker(g, w, a, e, FALSE)
      PROVE  Keeps /\ Moves
  BY <1>7 DEF CancelWorker, StatusIs
<1>8. ASSUME NEW g \in Caller, NEW s \in Setup, NEW a \in 0 .. MaxAttempt, FinishSetup(g, s, a)
      PROVE  Keeps /\ Moves
  BY <1>8 DEF FinishSetup, StatusIs
<1>9. ASSUME NEW g \in Caller, NEW r \in Reducer, NEW claimed \in SUBSET Discovery,
             ClaimDedup(g, r, claimed)
      PROVE  Keeps /\ Moves
  <2>1. \A d \in claimed : mergeState[d] = "buffered"
    BY <1>9 DEF ClaimDedup, CanClaimDedup, IsBufferedPrefix, Buffered
  <2>2. \A d \in Discovery : mergeState'[d] = "merged" <=> mergeState[d] = "merged"
    BY <1>9, <2>1 DEF ClaimDedup
  <2>. QED BY <1>9, <2>2 DEF ClaimDedup, StatusIs
<1>10. ASSUME NEW g \in Caller, NEW reason \in {"saturated", "capped"},
              NEW omitted \in SUBSET Discovery, ReplayFinish(g, reason, omitted)
       PROVE  Keeps /\ Moves
  BY <1>10 DEF ReplayFinish
<1>11. ASSUME NEW g \in Caller, NEW st \in {"failed", "interrupted"}, FailDeepScan(g, st)
       PROVE  Keeps /\ Moves
  BY <1>11 DEF FailDeepScan, CanFail, CancelActiveWorkers
<1>12. CASE FailScan
  BY <1>12 DEF FailScan, CancelActiveWorkers
<1>13. CASE CancelScan
  BY <1>13 DEF CancelScan, CanceledWithParent, CancelActiveWorkers
<1>14. CASE CompleteScan
  BY <1>14 DEF CompleteScan
<1>15. CASE UNCHANGED vars
  BY <1>15 DEF vars
<1> HIDE DEF StoreInv, Control, TypeOK, MergeStateFollowsReducers, Active, Worker, WorkerStatus,
        MergeState, Keeps, Moves, Accepted, Merged, Canceled
<1>16. CASE \E g \in Caller : WorkerNext(g)
  BY <1>4, <1>5, <1>6, <1>7, <1>8, <1>16 DEF WorkerNext
<1>17. CASE \E g \in Caller : ReducerNext(g)
  BY <1>9, <1>17 DEF ReducerNext
<1>18. CASE \E g \in Caller : TerminalNext(g)
  BY <1>10, <1>11, <1>18 DEF TerminalNext
<1>. QED
  BY <1>1, <1>2, <1>3, <1>12, <1>13, <1>14, <1>15, <1>16, <1>17, <1>18 DEF Next

-----------------------------------------------------------------------------
(* Nothing is undone.                                                      *)

\* A stopped run has no active worker, so canceling the active ones changes no row.
LEMMA NothingToCancel ==
  ASSUME StoreInv, runStatus \in Terminal, CancelActiveWorkers
  PROVE  status' = status
<1>1. \A w \in Worker : status[w] \notin Active
  BY DEF StoreInv, Control, StoppedIsIdle, ActiveWorker
<1>2. status \in [Worker -> WorkerStatus]
  BY DEF StoreInv, Control, TypeOK
<1>. QED BY <1>1, <1>2 DEF CancelActiveWorkers

LEMMA TerminalStep ==
  ASSUME StoreInv, [Next]_vars, runStatus \in Terminal
  PROVE  /\ UNCHANGED <<dispatched, completionSequence, noNew, terminalReason,
                        status, mergeState, sequence, inputs>>
         /\ \/ runStatus' = runStatus
            \/ runStatus = "succeeded" /\ runStatus' = "canceled" /\ canceledAt'
            \/ runStatus = "succeeded" /\ ~manifest /\ scanStatus' = "failed"
<1> DEFINE Goal == /\ UNCHANGED <<dispatched, completionSequence, noNew, terminalReason,
                                  status, mergeState, sequence, inputs>>
                   /\ \/ runStatus' = runStatus
                      \/ runStatus = "succeeded" /\ runStatus' = "canceled" /\ canceledAt'
                      \/ runStatus = "succeeded" /\ ~manifest /\ scanStatus' = "failed"
<1> SUFFICES Goal
  OBVIOUS
<1>1. runStatus \notin {"none", "running"} /\ ~RunIsOpen
  BY DEF Terminal, RunIsOpen
<1>2. \A w \in Worker : status[w] \notin Active
  BY DEF StoreInv, Control, StoppedIsIdle, ActiveWorker
<1>3. \A w \in Worker : status[w] # "running"
  BY <1>2 DEF Active
<1>4. ASSUME NEW g \in Caller, WorkerNext(g) PROVE FALSE
  <2>1. ASSUME NEW w \in Worker, NEW a \in 0 .. MaxAttempt, NEW st, NEW e
        PROVE  ~InsertWorker(g, w, st, a, e) /\ ~UpdateWorker(g, w, st, a, e) /\ ~FailWorker(g, w, a, e)
    BY <1>1 DEF InsertWorker, UpdateWorker, FailWorker
  <2>2. ASSUME NEW w \in Worker, NEW a \in 0 .. MaxAttempt, NEW e, NEW replaceable
        PROVE  ~CancelWorker(g, w, a, e, replaceable)
    BY <1>2 DEF CancelWorker
  <2>3. ASSUME NEW w, NEW a PROVE ~AcceptDiscovery(g, w, a) /\ ~FinishSetup(g, w, a)
    BY <1>1 DEF AcceptDiscovery, FinishSetup
  <2>. QED BY <1>4, <2>1, <2>2, <2>3 DEF WorkerNext
<1>5. ASSUME NEW g \in Caller, ReducerNext(g) PROVE FALSE
  BY <1>1, <1>5 DEF ReducerNext, ClaimDedup, CommitDedup
<1>6. ASSUME NEW g \in Caller, TerminalNext(g) PROVE Goal
  <2>1. ASSUME NEW st \in {"failed", "interrupted"}, FailDeepScan(g, st) PROVE Goal
    BY <1>1, <2>1, NothingToCancel DEF FailDeepScan, CanFail
  <2>2. ASSUME NEW reason \in {"saturated", "capped"}, NEW omitted \in SUBSET Discovery,
               ReplayFinish(g, reason, omitted)
        PROVE  Goal
    BY <2>2 DEF ReplayFinish, workerVars
  <2>. QED BY <1>1, <1>6, <2>1, <2>2 DEF TerminalNext, FinishDeepScan
<1>7. CASE FailScan
  BY <1>1, <1>7, NothingToCancel DEF FailScan
<1>8. CASE CancelScan
  BY <1>1, <1>8, NothingToCancel, Zenon DEF CancelScan, CanceledWithParent
<1>9. CASE CompleteScan
  BY <1>9 DEF CompleteScan, runVars, workerVars
<1>10. CASE ReachDeadline
  BY <1>10 DEF ReachDeadline, runVars, workerVars
<1>11. CASE UNCHANGED vars
  BY <1>11 DEF vars, runVars, workerVars
<1>. QED
  BY <1>1, <1>4, <1>5, <1>6, <1>7, <1>8, <1>9, <1>10, <1>11
     DEF Next, BeginDeepScan, ClaimCoordinator

\* A row that has its place is a discovery that succeeded, and no request
\* reaches such a row; a merged one is named by a reducer that succeeded.
LEMMA ResultsStep ==
  ASSUME StoreInv, [Next]_vars
  PROVE  \A d \in Discovery :
            /\ sequence[d] # 0 => sequence'[d] = sequence[d] /\ status'[d] = "succeeded"
            /\ mergeState[d] = "merged" => mergeState'[d] = "merged"
<1> SUFFICES ASSUME NEW d \in Discovery
             PROVE  /\ sequence[d] # 0 => sequence'[d] = sequence[d] /\ status'[d] = "succeeded"
                    /\ mergeState[d] = "merged" => mergeState'[d] = "merged"
  OBVIOUS
<1>1. sequence[d] # 0 => status[d] = "succeeded"
  BY DEF StoreInv, CompletionOrder, Accepted
<1>2. /\ sequence \in [Discovery -> Nat] /\ status \in [Worker -> WorkerStatus]
      /\ mergeState \in [Discovery -> MergeState] /\ Discovery \subseteq Worker
      /\ inputs \in [Reducer -> SUBSET Discovery] /\ Discovery \cap Reducer = {}
  BY WorkersAssumption DEF StoreInv, Control, TypeOK, Worker
<1>3. CASE Keeps
  BY <1>1, <1>3 DEF Keeps, Accepted, Merged
<1>4. ASSUME NEW g \in Caller, NEW e \in Discovery, NEW a \in 0 .. MaxAttempt, AcceptDiscovery(g, e, a)
      PROVE  /\ sequence[d] # 0 => sequence'[d] = sequence[d] /\ status'[d] = "succeeded"
             /\ mergeState[d] = "merged" => mergeState'[d] = "merged"
  <2>1. mergeState[e] # "merged" /\ status[e] = "running"
    BY <1>4 DEF AcceptDiscovery, StoreInv, MergeStateFollowsReducers, Accepted
  <2>. QED BY <1>1, <1>2, <1>4, <2>1 DEF AcceptDiscovery, StatusIs
<1>5. ASSUME NEW g \in Caller, NEW r \in Reducer, NEW newFindings \in BOOLEAN,
             CommitDedup(g, r, newFindings)
      PROVE  /\ sequence[d] # 0 => sequence'[d] = sequence[d] /\ status'[d] = "succeeded"
             /\ mergeState[d] = "merged" => mergeState'[d] = "merged"
  BY <1>1, <1>2, <1>5 DEF CommitDedup, StatusIs
<1>6. ASSUME NEW g \in Caller, NEW w \in Worker, NEW a \in 0 .. MaxAttempt,
             NEW e \in {"none", "message", "shutdown"}, CancelWorker(g, w, a, e, TRUE)
      PROVE  /\ sequence[d] # 0 => sequence'[d] = sequence[d] /\ status'[d] = "succeeded"
             /\ mergeState[d] = "merged" => mergeState'[d] = "merged"
  BY <1>1, <1>2, <1>6 DEF CancelWorker, StatusIs, Active
<1>7. ASSUME NEW g \in Caller, NEW reason \in {"saturated", "capped"},
             NEW omitted \in SUBSET Discovery, NEW stopped \in BOOLEAN,
             FinishDeepScan(g, reason, stopped, omitted)
      PROVE  /\ sequence[d] # 0 => sequence'[d] = sequence[d] /\ status'[d] = "succeeded"
             /\ mergeState[d] = "merged" => mergeState'[d] = "merged"
  BY <1>1, <1>2, <1>7
     DEF FinishDeepScan, BufferedAtFinish, Rebuffer, CancelActiveWorkers, Active
<1>. QED BY <1>3, <1>4, <1>5, <1>6, <1>7, StepKinds

(* No sequence of requests, adoptions and late answers undoes a terminal      *)
(* state, an accepted place or a merged result.                              *)
THEOREM NothingIsEverUndone == Spec => NothingIsUndone
<1>1. StoreInv /\ [Next]_vars =>
        [(runStatus \in Terminal) =>
           /\ UNCHANGED <<dispatched, completionSequence, noNew, terminalReason,
                          status, mergeState, sequence, inputs>>
           /\ \/ runStatus' = runStatus
              \/ runStatus = "succeeded" /\ runStatus' = "canceled" /\ canceledAt'
              \/ runStatus = "succeeded" /\ ~manifest /\ scanStatus' = "failed"
        ]_vars
  BY TerminalStep
<1>2. StoreInv /\ [Next]_vars =>
        [\A d \in Discovery :
          /\ sequence[d] # 0 => sequence'[d] = sequence[d] /\ status'[d] = "succeeded"
          /\ mergeState[d] = "merged" => mergeState'[d] = "merged"
        ]_vars
  BY ResultsStep
<1>. QED
  BY <1>1, <1>2, StoreInvariant, PTL DEF Spec, NothingIsUndone, TerminalIsFinal, ResultsAreKept

-----------------------------------------------------------------------------
(* The streaks that stop a run.                                            *)

LEMMA FiniteParts ==
  /\ IsFiniteSet(Merged) /\ IsFiniteSet(Canceled) /\ IsFiniteSet(Accepted)
  /\ Cardinality(Merged) \in Nat /\ Cardinality(Canceled) \in Nat /\ Cardinality(Accepted) \in Nat
BY WorkersAssumption, FS_Subset, FS_CardinalityType DEF Merged, Canceled, Accepted

\* The same of the next state, where a leaf cannot find the substitution.
LEMMA CanceledGrows ==
  ASSUME Canceled \subseteq Canceled'
  PROVE  Cardinality(Canceled) <= Cardinality(Canceled') /\ Cardinality(Canceled') \in Nat
<1>1. IsFiniteSet(Canceled')
  BY WorkersAssumption, FS_Subset DEF Canceled
<1>. QED BY <1>1, FS_Subset, FS_CardinalityType

\* A commit counts the discoveries it merges, none of which was merged before.
LEMMA CommitCounts ==
  ASSUME StoreInv, NEW g \in Caller, NEW r \in Reducer, NEW newFindings \in BOOLEAN,
         CommitDedup(g, r, newFindings)
  PROVE  /\ Merged' = Merged \cup inputs[r] /\ Merged \cap inputs[r] = {}
         /\ Cardinality(Merged') = Cardinality(Merged) + Cardinality(inputs[r])
         /\ Cardinality(inputs[r]) \in Nat
<1>1. inputs[r] \subseteq Discovery /\ \A d \in inputs[r] : mergeState[d] = "merging"
  BY DEF CommitDedup, StoreInv, Control, TypeOK
<1>2. Merged \cap inputs[r] = {}
  BY <1>1 DEF Merged
<1>3. Merged' = Merged \cup inputs[r]
  BY <1>1 DEF CommitDedup, Merged
<1>4. IsFiniteSet(inputs[r]) /\ Cardinality(inputs[r]) \in Nat
  BY <1>1, WorkersAssumption, FS_Subset, FS_CardinalityType
<1>5. Cardinality(Merged \cup inputs[r]) = Cardinality(Merged) + Cardinality(inputs[r])
  <2>1. Cardinality(Merged \cup inputs[r])
           = Cardinality(Merged) + Cardinality(inputs[r]) - Cardinality(Merged \cap inputs[r])
    BY <1>4, FiniteParts, FS_Union
  <2>2. Cardinality(Merged \cap inputs[r]) = 0
    BY <1>2, FS_EmptySet
  <2>. QED BY <1>4, <2>1, <2>2, FiniteParts
<1>. QED BY <1>2, <1>3, <1>4, <1>5

LEMMA StreaksStep ==
  ASSUME StoreInv, StreaksCountOnce, [Next]_vars
  PROVE  StreaksCountOnce'
<1>1. noNew \in Nat /\ errors \in Nat
  BY DEF StoreInv, Control, TypeOK
<1>2. noNew <= Cardinality(Merged) /\ errors <= Cardinality(Canceled)
  BY DEF StreaksCountOnce, Canceled
<1>3. SUFFICES noNew' <= Cardinality(Merged') /\ errors' <= Cardinality(Canceled')
  BY DEF StreaksCountOnce, Canceled
<1>4. /\ status \in [Worker -> WorkerStatus] /\ mergeState \in [Discovery -> MergeState]
      /\ Discovery \subseteq Worker /\ Reducer \subseteq Worker /\ Discovery \cap Reducer = {}
  BY WorkersAssumption DEF StoreInv, Control, TypeOK, Worker
<1>5. CASE Keeps
  BY <1>1, <1>2, <1>5, FiniteParts, CanceledGrows DEF Keeps
<1>6. ASSUME NEW g \in Caller, NEW d \in Discovery, NEW a \in 0 .. MaxAttempt, AcceptDiscovery(g, d, a)
      PROVE  noNew' <= Cardinality(Merged') /\ errors' <= Cardinality(Canceled')
  <2>1. mergeState[d] # "merged"
    BY <1>6 DEF AcceptDiscovery, StoreInv, MergeStateFollowsReducers, Accepted
  <2>2. Merged' = Merged
    BY <1>4, <1>6, <2>1 DEF AcceptDiscovery, Merged
  <2>3. Canceled \subseteq Canceled'
    BY <1>4, <1>6 DEF AcceptDiscovery, StatusIs, Canceled
  <2>. QED BY <1>2, <1>6, <2>2, <2>3, CanceledGrows DEF AcceptDiscovery
<1>7. ASSUME NEW g \in Caller, NEW r \in Reducer, NEW newFindings \in BOOLEAN,
             CommitDedup(g, r, newFindings)
      PROVE  noNew' <= Cardinality(Merged') /\ errors' <= Cardinality(Canceled')
  <2>1. noNew' \in {0, noNew + Cardinality(inputs[r])} /\ errors' = errors
    BY <1>7 DEF CommitDedup, NoNewAfter
  <2>2. Canceled \subseteq Canceled'
    BY <1>4, <1>7 DEF CommitDedup, StatusIs, Canceled
  <2>. QED BY <1>1, <1>2, <1>7, <2>1, <2>2, FiniteParts, CanceledGrows, CommitCounts
<1>8. ASSUME NEW g \in Caller, NEW w \in Worker, NEW a \in 0 .. MaxAttempt,
             NEW e \in {"none", "message", "shutdown"}, CancelWorker(g, w, a, e, TRUE)
      PROVE  noNew' <= Cardinality(Merged') /\ errors' <= Cardinality(Canceled')
  <2>1. w \in Discovery /\ w \notin Canceled
    BY <1>8 DEF CancelWorker, Canceled
  <2>2. Canceled' = Canceled \cup {w}
    BY <1>4, <1>8, <2>1 DEF CancelWorker, StatusIs, Canceled
  <2>3. Cardinality(Canceled \cup {w}) = Cardinality(Canceled) + 1
    BY <2>1, FiniteParts, FS_AddElement
  <2>4. noNew' = noNew /\ errors' = errors + 1 /\ Merged' = Merged
    BY <1>8 DEF CancelWorker, Merged
  <2>. QED BY <1>1, <1>2, <2>2, <2>3, <2>4, FiniteParts
<1>9. ASSUME NEW g \in Caller, NEW reason \in {"saturated", "capped"},
             NEW omitted \in SUBSET Discovery, NEW stopped \in BOOLEAN,
             FinishDeepScan(g, reason, stopped, omitted)
      PROVE  noNew' <= Cardinality(Merged') /\ errors' <= Cardinality(Canceled')
  <2>1. Merged' = Merged
    BY <1>4, <1>9 DEF FinishDeepScan, BufferedAtFinish, Rebuffer, Merged
  <2>2. Canceled \subseteq Canceled'
    BY <1>4, <1>9 DEF FinishDeepScan, CancelActiveWorkers, Active, Canceled
  <2>. QED BY <1>1, <1>2, <1>9, <2>1, <2>2, FiniteParts, CanceledGrows DEF FinishDeepScan
<1>. QED BY <1>5, <1>6, <1>7, <1>8, <1>9, StepKinds

LEMMA StreaksInit == Init => StreaksCountOnce
<1>1. Init => noNew = 0 /\ errors = 0
  BY DEF Init
<1>. QED BY <1>1, FiniteParts DEF StreaksCountOnce, Canceled

(* No replay and no replacement of a coordinator counts a merged or a        *)
(* replaced discovery a second time towards the end of the run.              *)
THEOREM StreaksNeverCountTwice == Spec => []StreaksCountOnce
<1>1. StoreInv /\ StreaksCountOnce /\ [Next]_vars => StreaksCountOnce'
  BY StreaksStep
<1>. QED BY <1>1, StreaksInit, StoreInvariant, PTL DEF Spec

-----------------------------------------------------------------------------
(* What a successful run accounts for.  A reducer row only succeeds with the *)
(* inputs it merged, so one successful reducer is one merged discovery.      *)

ReducersMerge == \A r \in Reducer : status[r] = "succeeded" => inputs[r] # {}

SuccessInv == StoreInv /\ ReducersMerge /\ SuccessAccountsForAll

LEMMA SuccessInit == Init => ReducersMerge /\ SuccessAccountsForAll
BY WorkersAssumption DEF Init, NoWorkers, ReducersMerge, SuccessAccountsForAll, Accepted, Worker

LEMMA ReducersStep ==
  ASSUME StoreInv, ReducersMerge, [Next]_vars
  PROVE  ReducersMerge'
<1> SUFFICES ASSUME NEW r \in Reducer, status'[r] = "succeeded" PROVE inputs'[r] # {}
  BY DEF ReducersMerge
<1>1. /\ status \in [Worker -> WorkerStatus] /\ Reducer \subseteq Worker
      /\ Discovery \subseteq Worker /\ Discovery \cap Reducer = {}
      /\ status[r] = "succeeded" => inputs[r] # {}
  BY WorkersAssumption DEF StoreInv, Control, TypeOK, Worker, ReducersMerge
<1>2. CASE Keeps
  BY <1>1, <1>2 DEF Keeps
<1>3. ASSUME NEW g \in Caller, NEW d \in Discovery, NEW a \in 0 .. MaxAttempt, AcceptDiscovery(g, d, a)
      PROVE  inputs'[r] # {}
  BY <1>1, <1>3 DEF AcceptDiscovery, StatusIs
<1>4. ASSUME NEW g \in Caller, NEW q \in Reducer, NEW newFindings \in BOOLEAN,
             CommitDedup(g, q, newFindings)
      PROVE  inputs'[r] # {}
  BY <1>1, <1>4 DEF CommitDedup, StatusIs
<1>5. ASSUME NEW g \in Caller, NEW w \in Worker, NEW a \in 0 .. MaxAttempt,
             NEW e \in {"none", "message", "shutdown"}, CancelWorker(g, w, a, e, TRUE)
      PROVE  inputs'[r] # {}
  BY <1>1, <1>5 DEF CancelWorker, StatusIs
<1>6. ASSUME NEW g \in Caller, NEW reason \in {"saturated", "capped"},
             NEW omitted \in SUBSET Discovery, NEW stopped \in BOOLEAN,
             FinishDeepScan(g, reason, stopped, omitted)
      PROVE  inputs'[r] # {}
  BY <1>1, <1>6 DEF FinishDeepScan, CancelActiveWorkers
<1>. QED BY <1>2, <1>3, <1>4, <1>5, <1>6, StepKinds

\* finish-deep-scan is the one request that makes a run succeed.
LEMMA OnlyFinishSucceeds ==
  ASSUME StoreInv, [Next]_vars, runStatus # "succeeded", runStatus' = "succeeded"
  PROVE  \E g \in Caller, reason \in {"saturated", "capped"}, omitted \in SUBSET Discovery,
            stopped \in BOOLEAN : FinishDeepScan(g, reason, stopped, omitted)
<1>1. ~(Keeps /\ Moves)
  BY DEF Moves
<1>2. \A g \in Caller, d \in Discovery, a \in 0 .. MaxAttempt : ~AcceptDiscovery(g, d, a)
  BY DEF AcceptDiscovery
<1>3. \A g \in Caller, r \in Reducer, newFindings \in BOOLEAN : ~CommitDedup(g, r, newFindings)
  BY DEF CommitDedup
<1>4. \A g \in Caller, w \in Worker, a \in 0 .. MaxAttempt, e \in {"none", "message", "shutdown"} :
         ~CancelWorker(g, w, a, e, TRUE)
  BY DEF CancelWorker
<1>. QED BY <1>1, <1>2, <1>3, <1>4, StepKinds

LEMMA FinishAccounts ==
  ASSUME StoreInv, ReducersMerge, StoreInv', NEW g \in Caller, NEW reason \in {"saturated", "capped"},
         NEW omitted \in SUBSET Discovery, NEW stopped \in BOOLEAN,
         FinishDeepScan(g, reason, stopped, omitted)
  PROVE  /\ \A d \in Accepted' : mergeState'[d] \in {"merged", "buffered"}
         /\ Accepted' = Accepted /\ Merged' = Merged
         /\ Accepted # {} => Merged # {}
<1>1. /\ status \in [Worker -> WorkerStatus] /\ Discovery \subseteq Worker
      /\ mergeState \in [Discovery -> MergeState] /\ inputs \in [Reducer -> SUBSET Discovery]
      /\ completionSequence \in Nat
  BY DEF StoreInv, Control, TypeOK, Worker
<1>2. Accepted' = Accepted
  BY <1>1 DEF FinishDeepScan, CancelActiveWorkers, Accepted, Active
<1>3. Merged' = Merged
  BY <1>1 DEF FinishDeepScan, BufferedAtFinish, Rebuffer, Merged
<1>4. \A d \in Accepted' : mergeState'[d] \in {"merged", "buffered"}
  <2> SUFFICES ASSUME NEW d \in Accepted' PROVE mergeState'[d] \in {"merged", "buffered"}
    OBVIOUS
  <2>1. d \in Discovery
    BY DEF Accepted
  <2>2. mergeState'[d] \in MergeState /\ mergeState'[d] # "none"
    BY <2>1 DEF StoreInv, Control, TypeOK, MergeStateFollowsReducers
  <2>3. mergeState'[d] # "merging"
    BY <2>1 DEF FinishDeepScan, CanFinish, NothingMerging
  <2>. QED BY <2>2, <2>3 DEF MergeState
<1>5. CASE SuccessfulReducer
  <2>1. PICK r \in Reducer : status[r] = "succeeded" /\ inputs[r] # {}
    BY <1>5 DEF SuccessfulReducer, ReducersMerge
  <2>2. PICK d \in inputs[r] : d \in Discovery
    BY <1>1, <2>1
  <2>3. d \in Merged
    BY <2>1, <2>2 DEF StoreInv, MergeStateFollowsReducers, Merged
  <2>. QED BY <1>2, <1>3, <1>4, <2>3
<1>6. CASE completionSequence = 0
  <2>1. 1 .. completionSequence = {}
    BY <1>6
  <2>2. Accepted = {}
    BY <2>1 DEF StoreInv, CompletionOrder, Accepted
  <2>. QED BY <1>2, <1>3, <1>4, <2>2
<1>. QED BY <1>5, <1>6 DEF FinishDeepScan, CanFinish

LEMMA SuccessStep == SuccessInv /\ [Next]_vars => SuccessInv'
<1> SUFFICES ASSUME SuccessInv, [Next]_vars PROVE SuccessInv'
  OBVIOUS
<1>1. StoreInv /\ ReducersMerge /\ SuccessAccountsForAll /\ StoreInv' /\ ReducersMerge'
  BY StoreInvStep, ReducersStep DEF SuccessInv
<1>2. CASE runStatus = "succeeded"
  <2>1. status' = status /\ mergeState' = mergeState
    BY <1>1, <1>2, TerminalStep DEF Terminal
  <2>2. Accepted' = Accepted /\ Merged' = Merged
    BY <2>1 DEF Accepted, Merged
  <2>. QED BY <1>1, <1>2, <2>1, <2>2 DEF SuccessInv, SuccessAccountsForAll
<1>3. CASE runStatus # "succeeded" /\ runStatus' = "succeeded"
  <2>1. PICK g \in Caller, reason \in {"saturated", "capped"}, omitted \in SUBSET Discovery,
             stopped \in BOOLEAN : FinishDeepScan(g, reason, stopped, omitted)
    BY <1>1, <1>3, OnlyFinishSucceeds
  <2>. QED BY <1>1, <2>1, FinishAccounts DEF SuccessInv, SuccessAccountsForAll
<1>4. CASE runStatus' # "succeeded"
  BY <1>1, <1>4 DEF SuccessInv, SuccessAccountsForAll
<1>. QED BY <1>2, <1>3, <1>4

(* A run that succeeded accounts for all it accepted, after any adoption,     *)
(* failure of a reducer, or omission that its manifest names.                *)
THEOREM SuccessAccounts == Spec => []SuccessAccountsForAll
<1>1. Init => SuccessInv
  BY SuccessInit, ControlInit, MergeInit, OrderInit DEF SuccessInv, StoreInv
<1>2. SuccessInv => SuccessAccountsForAll
  BY DEF SuccessInv
<1>. QED BY <1>1, <1>2, SuccessStep, PTL DEF Spec

-----------------------------------------------------------------------------
(* The store implements DeepScanRun: each subcommand is one of its steps, or *)
(* leaves the places, the merged results and the outcome as they are.        *)

LEMMA AcceptedHavePlaces ==
  ASSUME StoreInv
  PROVE  /\ Run!AcceptedHere = Accepted
         /\ {sequence[d] : d \in Accepted} = 1 .. completionSequence
<1>1. ASSUME NEW d \in Discovery PROVE sequence[d] # 0 <=> d \in Accepted
  <2>1. completionSequence \in Nat /\ sequence[d] \in Nat
    BY DEF StoreInv, Control, TypeOK
  <2>2. sequence[d] \in IF d \in Accepted THEN 1 .. completionSequence ELSE {0}
    BY DEF StoreInv, CompletionOrder
  <2>3. CASE d \in Accepted
    BY <2>1, <2>2, <2>3
  <2>4. CASE d \notin Accepted
    BY <2>1, <2>2, <2>4
  <2>. QED BY <2>3, <2>4
<1>2. Run!AcceptedHere = Accepted
  BY <1>1 DEF Run!AcceptedHere, Accepted
<1>3. \A d \in Accepted : sequence[d] \in 1 .. completionSequence
  BY DEF StoreInv, CompletionOrder, Accepted
<1>4. \A n \in 1 .. completionSequence : \E d \in Accepted : sequence[d] = n
  BY DEF StoreInv, CompletionOrder
<1>. QED BY <1>2, <1>3, <1>4

\* One place each: the counter is the number of accepted discoveries.
LEMMA PlacesCount ==
  ASSUME StoreInv
  PROVE  Cardinality(Accepted) = completionSequence
<1>1. completionSequence \in Nat /\ IsFiniteSet(1 .. completionSequence)
  BY FS_Interval DEF StoreInv, Control, TypeOK
<1> DEFINE f == [d \in Accepted |-> sequence[d]]
<1>2. f \in Bijection(Accepted, 1 .. completionSequence)
  <2>1. f \in [Accepted -> 1 .. completionSequence]
    BY DEF StoreInv, CompletionOrder, Accepted
  <2>2. \A d, e \in Accepted : f[d] = f[e] => d = e
    BY DEF StoreInv, CompletionOrder
  <2>3. \A n \in 1 .. completionSequence : \E d \in Accepted : f[d] = n
    BY DEF StoreInv, CompletionOrder
  <2> HIDE DEF f
  <2>. QED BY <2>1, <2>2, <2>3 DEF Bijection, Injection, Surjection, IsInjective
<1>3. Cardinality(1 .. completionSequence) = Cardinality(Accepted)
  BY <1>2, FiniteParts, FS_Bijection DEF ExistsBijection
<1>4. Cardinality(1 .. completionSequence) = completionSequence
  BY <1>1, FS_Interval
<1>. QED BY <1>3, <1>4

\* A discovery at work is charged and not yet accepted, so its place is within
\* the configured number of runs.
LEMMA NextPlaceFits ==
  ASSUME StoreInv, DispatchBudget, NEW d \in Discovery, status[d] = "running"
  PROVE  completionSequence + 1 \in 1 .. MaxDiscoveryRuns
<1>1. completionSequence \in Nat /\ dispatched \in Int
  BY DEF StoreInv, Control, TypeOK
<1>2. d \notin Accepted /\ Accepted \cup {d} \subseteq Charged
  BY DEF Accepted, Charged, Interrupted, Active
<1>3. Cardinality(Accepted \cup {d}) = completionSequence + 1
  BY <1>2, FiniteParts, PlacesCount, FS_AddElement
<1>4. Cardinality(Accepted \cup {d}) <= Cardinality(Charged) /\ Cardinality(Charged) \in Nat
  BY <1>2, ChargedFinite, FS_Subset, FS_CardinalityType
<1>. QED BY <1>1, <1>3, <1>4, ConfigAssumption DEF DispatchBudget

LEMMA RunStep ==
  ASSUME SuccessInv, DispatchBudget, [Next]_vars
  PROVE  [Run!Next]_(Run!vars)
<1> USE DEF SuccessInv
<1>1. CASE Keeps /\ Moves
  <2>1. sequence' = sequence /\ Merged' = Merged
    BY <1>1 DEF Keeps
  <2>2. CASE runStatus' = runStatus \/ (runStatus = "none" /\ runStatus' = "running")
    BY <2>1, <2>2 DEF Run!vars, Terminal
  <2>3. CASE runStatus = "running" /\ runStatus' \in {"failed", "interrupted", "canceled"}
    BY <2>1, <2>3 DEF Run!Next, Run!Close, Terminal
  <2>4. CASE runStatus = "succeeded" /\ runStatus' \in {"failed", "interrupted", "canceled"}
    BY <2>1, <2>4 DEF Run!Next, Run!Withdraw, Terminal
  <2>. QED BY <1>1, <2>2, <2>3, <2>4 DEF Moves
<1>2. ASSUME NEW g \in Caller, NEW d \in Discovery, NEW a \in 0 .. MaxAttempt, AcceptDiscovery(g, d, a)
      PROVE  Run!Next
  <2>1. runStatus = "running" /\ runStatus' = "running" /\ status[d] = "running"
    BY <1>2 DEF AcceptDiscovery, RunIsOpen
  <2>2. sequence[d] = 0 /\ mergeState[d] # "merged"
    BY <2>1 DEF StoreInv, CompletionOrder, MergeStateFollowsReducers, Accepted
  <2>3. Merged' = Merged
    BY <1>2, <2>2 DEF AcceptDiscovery, Merged, StoreInv, Control, TypeOK
  <2>4. completionSequence \in Nat /\ completionSequence + 1 \in 1 .. MaxDiscoveryRuns
    BY <2>1, NextPlaceFits DEF StoreInv, Control, TypeOK
  <2>5. {sequence[e] : e \in Run!AcceptedHere} = 1 .. (completionSequence + 1) - 1
    BY <2>4, AcceptedHavePlaces
  <2>6. sequence' = [sequence EXCEPT ![d] = completionSequence + 1]
    BY <1>2 DEF AcceptDiscovery, NextPlace
  <2>. QED BY <2>1, <2>2, <2>3, <2>4, <2>5, <2>6 DEF Run!Next, Run!Accept, Terminal
<1>3. ASSUME NEW g \in Caller, NEW r \in Reducer, NEW newFindings \in BOOLEAN,
             CommitDedup(g, r, newFindings)
      PROVE  Run!Next
  <2>1. runStatus = "running" /\ runStatus' = "running" /\ sequence' = sequence /\ inputs[r] # {}
    BY <1>3 DEF CommitDedup, RunIsOpen
  <2>2. inputs[r] \subseteq Discovery /\ \A d \in inputs[r] : mergeState[d] = "merging"
    BY <1>3 DEF CommitDedup, StoreInv, Control, TypeOK
  <2>3. inputs[r] \subseteq Run!AcceptedHere \ Merged
    BY <2>2, AcceptedHavePlaces DEF StoreInv, MergeStateFollowsReducers, Merged
  <2>4. Merged' = Merged \cup inputs[r]
    BY <1>3, CommitCounts
  <2>. QED BY <2>1, <2>3, <2>4 DEF Run!Next, Run!Merge, Terminal
<1>4. ASSUME NEW g \in Caller, NEW w \in Worker, NEW a \in 0 .. MaxAttempt,
             NEW e \in {"none", "message", "shutdown"}, CancelWorker(g, w, a, e, TRUE)
      PROVE  UNCHANGED Run!vars
  <2>1. UNCHANGED <<sequence, mergeState, runStatus>>
    BY <1>4 DEF CancelWorker
  <2>. QED BY <2>1 DEF Run!vars, Merged
<1>5. ASSUME NEW g \in Caller, NEW reason \in {"saturated", "capped"},
             NEW omitted \in SUBSET Discovery, NEW stopped \in BOOLEAN,
             FinishDeepScan(g, reason, stopped, omitted)
      PROVE  Run!Next
  <2>1. runStatus = "running" /\ runStatus' = "succeeded" /\ sequence' = sequence
    BY <1>5 DEF FinishDeepScan, RunIsOpen
  <2>2. Merged' = Merged /\ (Run!AcceptedHere # {} => Merged # {})
    BY <1>5, FinishAccounts, AcceptedHavePlaces, StoreInvStep
  <2>. QED BY <2>1, <2>2 DEF Run!Next, Run!Close, Terminal
<1> HIDE DEF SuccessInv
<1>6. StoreInv
  BY DEF SuccessInv
<1>. QED BY <1>1, <1>2, <1>3, <1>4, <1>5, <1>6, StepKinds

LEMMA RunInit == Init => Run!Init
<1> SUFFICES ASSUME Init PROVE Run!Init
  OBVIOUS
<1>1. sequence = [d \in Discovery |-> 0] /\ Merged = {}
  BY DEF Init, NoWorkers, Merged
<1>2. runStatus \in {"none", "succeeded"}
  BY DEF Init
<1>. QED BY <1>1, <1>2 DEF Run!Init, Terminal

LEMMA SuccessInvariant == Spec => [](SuccessInv /\ DispatchBudget)
<1>1. Init => SuccessInv /\ DispatchBudget
  BY SuccessInit, ControlInit, MergeInit, OrderInit, BudgetInit DEF SuccessInv, StoreInv
<1>2. SuccessInv => TypeOK
  BY DEF SuccessInv, StoreInv, Control
<1>3. SuccessInv /\ DispatchBudget /\ [Next]_vars => (SuccessInv /\ DispatchBudget)'
  BY <1>2, SuccessStep, BudgetStep
<1>. QED BY <1>1, <1>3, PTL DEF Spec

(* Whatever coordinators, workers and parent commands do, the rows show one   *)
(* run: places within the configured number, batches merged once, one        *)
(* outcome.  Retries, replaced coordinators and failed reducers do not show. *)
THEOREM StoreImplementsRun == Spec => ImplementsRun
<1>1. SuccessInv /\ DispatchBudget /\ [Next]_vars => [Run!Next]_(Run!vars)
  BY RunStep
<1>. QED BY <1>1, RunInit, SuccessInvariant, PTL DEF Spec, ImplementsRun, Run!Spec
=============================================================================
