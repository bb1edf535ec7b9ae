------------------------- MODULE ScanLifecycleProofs -------------------------
(***************************************************************************)
(* What is proved of ScanLifecycle, for any findings, workers, crashes and   *)
(* incidents.  The life of a scan contains its handoff, so the theorems of   *)
(* ScanHandoff, which come first, carry over.  What the runs check of        *)
(* completions and of evidence is not inductive.  LifecycleInv adds what     *)
(* every document says of the sources it was made from (DocumentsInv), how   *)
(* row, files and disk agree in each state of the scan (RunningInv,          *)
(* CompleteInv, FailedInv), and what the command that holds the lock has     *)
(* still to write and would put back (OpInv).  FreezeInv adds, for           *)
(* CancellationFreezes alone, that a publication that is no recovery writes  *)
(* the sources named in the row.                                             *)
(***************************************************************************)
EXTENDS ScanLifecycle, TLAPS

-----------------------------------------------------------------------------
(* The handoff, for any number of threads, panels and tokens.  HandoffInv is  *)
(* inductive as it stands.                                                   *)

\* Every claim has its thread, and a thread is no NULL.
HandoffInv == HandoffTypeOK /\ ThreadBelongsToClaim /\ OrchestratorContinues

LEMMA HandoffStarts == HandoffInit => HandoffInv
BY HandoffAssumption
DEF HandoffInit, HandoffInv, HandoffTypeOK, ThreadBelongsToClaim, OrchestratorContinues,
    StartScan, StartPromptDrivenScan, RegisterCliScan, InsertRunningScan, Token, Orchestrator

\* Each command preserves the invariant.
LEMMA HandoffContinues == HandoffInv /\ [HandoffNext]_handoffVars => HandoffInv'
<1> SUFFICES ASSUME HandoffInv, [HandoffNext]_handoffVars PROVE HandoffInv'
    OBVIOUS
<1> USE HandoffAssumption
    DEF HandoffInv, HandoffTypeOK, ThreadBelongsToClaim, OrchestratorContinues, Token,
        Orchestrator
<1>1. ASSUME NEW t \in Token, NEW takeOver \in BOOLEAN, ClaimHandoffDelivery(t, takeOver)
      PROVE HandoffInv'
    BY <1>1 DEF ClaimHandoffDelivery
<1>2. ASSUME NEW t \in Token, ReleaseHandoffDelivery(t)
      PROVE HandoffInv'
    BY <1>2 DEF ReleaseHandoffDelivery
<1>3. ASSUME NEW t \in Token, NEW thread \in Thread, AttachScanContinuationThread(t, thread)
      PROVE HandoffInv'
    BY <1>3 DEF AttachScanContinuationThread
<1>4. ASSUME NEW t \in Token, NEW thread \in Thread \cup {None},
             MarkHandoffDelivered(t, thread)
      PROVE HandoffInv'
    BY <1>4 DEF MarkHandoffDelivered
<1>5. ASSUME NEW thread \in Thread, SetScanThread(thread)
      PROVE HandoffInv'
    BY <1>5 DEF SetScanThread
<1>6. ASSUME NEW thread \in Thread, NEW t \in Token \cup {None},
             ClaimUnownedDeepScan(thread, t)
      PROVE HandoffInv'
    BY <1>6 DEF ClaimUnownedDeepScan
<1>7. CASE ClaimGoesStale
    BY <1>7 DEF ClaimGoesStale
<1>8. CASE UNCHANGED handoffVars
    BY <1>8 DEF handoffVars
<1> QED
    BY <1>1, <1>2, <1>3, <1>4, <1>5, <1>6, <1>7, <1>8 DEF HandoffNext

LEMMA HandoffInvariant == HandoffSpec => []HandoffInv
BY HandoffStarts, HandoffContinues, PTL DEF HandoffSpec

\* No command of any panel, thread or SDK process writes a value the columns do
\* not declare, and a claim carries a time exactly as long as it may go stale.
THEOREM HandoffTypeCorrect == HandoffSpec => []HandoffTypeOK
BY HandoffInvariant, PTL DEF HandoffInv

\* Whoever holds the claim finds only a thread that was attached under it.
THEOREM ThreadsBelongToClaims == HandoffSpec => []ThreadBelongsToClaim
BY HandoffInvariant, PTL DEF HandoffInv

\* After delivery neither a takeover, a release nor a late panel moves the scan.
THEOREM DeliveryIsFinal == HandoffSpec => DeliverySettles
<1>1. HandoffInv /\ [HandoffNext]_handoffVars
      => [handoff = "delivered" =>
            /\ handoff' = "delivered" /\ token' = token
            /\ origin # "cli" /\ continuation # None
                 => continuation' = continuation /\ deepOwner' = deepOwner]_handoffVars
    <2> SUFFICES ASSUME HandoffInv, HandoffNext, handoff = "delivered"
                 PROVE  /\ handoff' = "delivered" /\ token' = token
                        /\ origin # "cli" /\ continuation # None
                             => continuation' = continuation /\ deepOwner' = deepOwner
        OBVIOUS
    <2> QED
        BY HandoffAssumption
        DEF HandoffNext, ClaimHandoffDelivery, ReleaseHandoffDelivery,
            AttachScanContinuationThread, MarkHandoffDelivered, SetScanThread,
            ClaimUnownedDeepScan, ClaimGoesStale, Token
<1> QED
    BY <1>1, HandoffInvariant, PTL DEF HandoffSpec, DeliverySettles

\* The thread of a delivered scan was attached under the claim that was delivered, owns the scan
\* for good and orchestrates it if it is a Deep Scan, whatever panels, threads and late callers
\* do: by the invariant, that claim and thread belong together and two threads are never
\* named, and because delivery is final.
THEOREM DeliveredScansKeepTheirThread == HandoffSpec => ContinuationIsSettled
<1>1. HandoffInv /\ [HandoffNext]_handoffVars
      => [handoff = "delivered" /\ origin # "cli" /\ continuation # None =>
            /\ token' = token /\ attachedUnder' = token
            /\ OwningThread' = continuation
            /\ mode = "deep" => Orchestrator' = continuation]_handoffVars
    <2> SUFFICES ASSUME HandoffInv, HandoffNext, handoff = "delivered", origin # "cli",
                        continuation # None
                 PROVE  /\ token' = token /\ attachedUnder' = token
                        /\ OwningThread' = continuation
                        /\ mode = "deep" => Orchestrator' = continuation
        OBVIOUS
    <2>1. UNCHANGED <<origin, mode, workspaceThread, token, continuation, deepOwner, attachedUnder>>
        BY HandoffAssumption
        DEF HandoffInv, HandoffTypeOK, HandoffNext, ClaimHandoffDelivery,
            ReleaseHandoffDelivery, AttachScanContinuationThread, MarkHandoffDelivered,
            SetScanThread, ClaimUnownedDeepScan, ClaimGoesStale, Token
    <2> QED
        BY <2>1
        DEF HandoffInv, ThreadBelongsToClaim, OrchestratorContinues, OwningThread, Orchestrator
<1> QED
    BY <1>1, HandoffInvariant, PTL DEF HandoffSpec, ContinuationIsSettled

\* A claim whose lease runs passes to nobody but through its holder's release.
THEOREM FreshClaimsCannotBeStolen == HandoffSpec => FreshClaimsAreSafe
<1>1. HandoffInv /\ [HandoffNext]_handoffVars
      => [claimAge = "fresh" /\ handoff = "pending" => token' \in {token, None}]_handoffVars
    <2> SUFFICES ASSUME HandoffInv, HandoffNext, claimAge = "fresh", handoff = "pending"
                 PROVE  token' \in {token, None}
        OBVIOUS
    <2> QED
        BY HandoffAssumption
        DEF HandoffInv, HandoffTypeOK, HandoffNext, ClaimHandoffDelivery,
            ReleaseHandoffDelivery, AttachScanContinuationThread, MarkHandoffDelivered,
            SetScanThread, ClaimUnownedDeepScan, ClaimGoesStale, Token
<1> QED
    BY <1>1, HandoffInvariant, PTL DEF HandoffSpec, FreshClaimsAreSafe

-----------------------------------------------------------------------------
(* The handoff within the life of the scan. *)

LEMMA StepsLeaveHandoff == (Steps \/ Crash) => UNCHANGED handoffVars
BY DEF Steps, Crash, WriteFile, WriteFails, MergeForCompletion, CommitCompletion,
       CompletionFailsScan, AlreadyPublished, CannotVerify, MergeStoppedResults,
       FreezeSources, RecordPublication, ClearPublicationFailure, WarnOfPublication, StopsScan

LEMMA CommandsLeaveHandoff == Commands => UNCHANGED handoffVars
BY DEF Commands, WriteScanDraft, CompleteScan, FailScan, BeginDeepScan, CancelScan,
       FailDeepScan, CompleteBudgetExhaustedScan, FinishDeepScan, PreserveScanResults,
       RecoverScanResults, RecordPublicationFailure, StopsScan

LEMMA LifecycleStepsAreHandoffSteps == [LifecycleNext]_vars => [HandoffNext]_handoffVars
<1>1. CASE Handoff
    BY <1>1 DEF Handoff
<1>2. CASE Commands
    BY <1>2, CommandsLeaveHandoff
<1>3. CASE Steps \/ Crash
    BY <1>3, StepsLeaveHandoff
<1>4. CASE \E w \in Worker, findings \in SUBSET Finding : WorkerSaves(w, findings)
    BY <1>4 DEF WorkerSaves
<1>5. CASE UNCHANGED vars
    BY <1>5 DEF vars
<1> QED
    BY <1>1, <1>2, <1>3, <1>4, <1>5 DEF LifecycleNext

\* Whatever completes, stops, publishes or recovers a scan, its handoff is that of
\* ScanHandoff.
THEOREM LifecycleImplementsHandoff == LifecycleSpec => HandoffSpec
<1>1. LifecycleInit => HandoffInit
    BY DEF LifecycleInit
<1> QED
    BY <1>1, LifecycleStepsAreHandoffSteps, PTL DEF LifecycleSpec, HandoffSpec

-----------------------------------------------------------------------------
(* A scan ends once, and only by those who hold it. *)

\* Status and cancellation are written together, once.
THEOREM ScansEndOnce == LifecycleSpec => EndsOnce
<1>1. [LifecycleNext]_vars
      => [scanStatus # "running" => scanStatus' = scanStatus /\ canceled' = canceled]_vars
    <2> SUFFICES ASSUME LifecycleNext, scanStatus # "running"
                 PROVE  scanStatus' = scanStatus /\ canceled' = canceled
        OBVIOUS
    <2>1. CASE Handoff
        BY <2>1 DEF Handoff, rowVars
    <2>2. CASE Commands
        BY <2>2 DEF Commands, WriteScanDraft, CompleteScan, FailScan, BeginDeepScan, CancelScan,
           FailDeepScan, CompleteBudgetExhaustedScan, FinishDeepScan, PreserveScanResults,
           RecoverScanResults, RecordPublicationFailure, StopsScan, rowVars
    <2>3. CASE Steps \/ Crash
        BY <2>3 DEF Steps, Crash, WriteFile, WriteFails, MergeForCompletion, CommitCompletion,
           CompletionFailsScan, AlreadyPublished, CannotVerify, MergeStoppedResults,
           FreezeSources, RecordPublication, ClearPublicationFailure, WarnOfPublication,
           StopsScan, rowVars
    <2>4. CASE \E w \in Worker, findings \in SUBSET Finding : WorkerSaves(w, findings)
        BY <2>4 DEF WorkerSaves, rowVars
    <2> QED
        BY <2>1, <2>2, <2>3, <2>4 DEF LifecycleNext
<1> QED
    BY <1>1, PTL DEF LifecycleSpec, EndsOnce

\* A completion whose author was superseded while it wrote its files does not commit.
THEOREM SupersededCannotComplete == LifecycleSpec => SupersededNeverCompletes
<1>1. [LifecycleNext]_vars
      => [scanStatus = "running" /\ scanStatus' = "complete" => CurrentContinuation(op.by)]_vars
    <2> SUFFICES ASSUME LifecycleNext, scanStatus = "running", scanStatus' = "complete"
                 PROVE  CurrentContinuation(op.by)
        OBVIOUS
    <2>1. CASE Handoff
        BY <2>1 DEF Handoff, rowVars
    <2>2. CASE Commands
        BY <2>2 DEF Commands, WriteScanDraft, CompleteScan, FailScan, BeginDeepScan, CancelScan,
           FailDeepScan, CompleteBudgetExhaustedScan, FinishDeepScan, PreserveScanResults,
           RecoverScanResults, RecordPublicationFailure, StopsScan, rowVars
    <2>3. CASE CommitCompletion
        BY <2>3 DEF CommitCompletion
    <2>4. CASE (Steps \/ Crash) /\ ~CommitCompletion
        BY <2>4 DEF Steps, Crash, WriteFile, WriteFails, MergeForCompletion,
           CompletionFailsScan, AlreadyPublished, CannotVerify, MergeStoppedResults,
           FreezeSources, RecordPublication, ClearPublicationFailure, WarnOfPublication,
           StopsScan, rowVars
    <2>5. CASE \E w \in Worker, findings \in SUBSET Finding : WorkerSaves(w, findings)
        BY <2>5 DEF WorkerSaves, rowVars
    <2> QED
        BY <2>1, <2>2, <2>3, <2>4, <2>5 DEF LifecycleNext
<1> QED
    BY <1>1, PTL DEF LifecycleSpec, SupersededNeverCompletes

-----------------------------------------------------------------------------
(* The documents: what a seal says of what it was made of.  The operators of  *)
(* this part take the state they speak of as arguments.                       *)

DraftDoc == {Draft(b) : b \in BOOLEAN}
SealedDoc ==
    [kind : {"sealed"}, complete : {TRUE}, status : Outcome \cup {"completed"},
     sources : SUBSET Source, findings : SUBSET Finding, coverage : Outcome \cup {"completed"}]

\* A seal names where its findings come from, includes what it names of a worker, and
\* names only checkpoints that are there.
GoodSeal(m, roots) ==
    /\ m \in SealedDoc
    /\ m.coverage = m.status
    /\ m.findings \subseteq FindingsOf(m.sources)
    /\ \A s \in m.sources : IF s.owner = "root" THEN s.findings \in roots
                            ELSE s.findings \subseteq m.findings

\* The seal of a stopped scan holds exactly the findings of its sources, and all the
\* evidence there was.
StoppedSeal(m, roots, found) ==
    /\ GoodSeal(m, roots) /\ m.status # "completed"
    /\ FindingsOf(m.sources) = m.findings
    /\ found \subseteq m.findings

ManifestDoc == {None} \cup DraftDoc \cup SealedDoc

GoodManifest(m, roots, found) ==
    \/ m = None
    \/ m \in DraftDoc
    \/ GoodSeal(m, roots) /\ (m.status # "completed" => StoppedSeal(m, roots, found))

CoverageDoc == Outcome \cup {"draft", "completed"}

DocumentsInv ==
    /\ findingsFile \in (SUBSET Finding) \cup {None}
    /\ coverageFile \in CoverageDoc \cup {None}
    /\ GoodManifest(manifestFile, checkpoints, evidence)
    /\ checkpoints \subseteq SUBSET Finding
    /\ workerResult \in [Worker -> SUBSET Finding]
    /\ evidence \subseteq Finding

-----------------------------------------------------------------------------
(* The row, by how the scan stands.                                         *)

RowInv ==
    /\ scanStatus \in {"running", "failed", "complete"}
    /\ canceled \in BOOLEAN /\ followUp \in BOOLEAN /\ publicationError \in BOOLEAN
    /\ indexed \subseteq Finding
    /\ frozen # None => frozen \subseteq Source
    /\ runStatus \in {"none", "running", "succeeded", "failed", "canceled", "interrupted"}
    /\ crashes \in 0 .. MaxCrashes

RunningInv ==
    scanStatus = "running" =>
        /\ sealDigest = None /\ frozen = None /\ ~canceled
        /\ IsSealed => manifestFile.status = "completed"

CompleteInv ==
    scanStatus = "complete" =>
        /\ Idle /\ ~canceled
        /\ SealHolds /\ manifestFile.status = "completed"
        /\ sealDigest = manifestFile /\ indexed = findingsFile
        /\ mode = "deep" => runStatus = "succeeded"

FailedInv ==
    scanStatus = "failed" =>
        /\ evidence \subseteq EvidenceOnDisk
        /\ frozen # None => evidence \subseteq FindingsOf(frozen)
        /\ sealDigest # None =>
              /\ StoppedSeal(sealDigest, checkpoints, evidence)
              /\ indexed = sealDigest.findings /\ frozen = sealDigest.sources

-----------------------------------------------------------------------------
(* The command that holds the lock, by how far it is.                       *)

\* The rest of three files, the others being written.
Rest2(coverage, manifest) == << <<"coverage", coverage>>, <<"manifest", manifest>> >>
Rest1(manifest) == << <<"manifest", manifest>> >>

Writes(queue, findings, coverage, manifest, onFindings, onCoverage) ==
    \/ queue = ThreeFiles(findings, coverage, manifest)
    \/ queue = Rest2(coverage, manifest) /\ onFindings = findings
    \/ queue = Rest1(manifest) /\ onFindings = findings /\ onCoverage = coverage

WritesDraft(queue, onFindings, onCoverage) ==
    \E findings \in SUBSET Finding, manifest \in DraftDoc :
        Writes(queue, findings, "draft", manifest, onFindings, onCoverage)

WritesCompletion(queue, roots, onFindings, onCoverage) ==
    \E m \in SealedDoc :
        /\ GoodSeal(m, roots) /\ m.status = "completed"
        /\ Writes(queue, m.findings, m.coverage, m, onFindings, onCoverage)

WritesStopped(queue, roots, found, onFindings, onCoverage) ==
    \E m \in SealedDoc :
        /\ StoppedSeal(m, roots, found)
        /\ Writes(queue, m.findings, m.coverage, m, onFindings, onCoverage)

\* What there was before a publication, to be put back when it fails, with the
\* evidence that it and the sources on disk held.
Restores(queue, roots, found, onDisk) ==
    \E findings \in (SUBSET Finding) \cup {None}, coverage \in CoverageDoc \cup {None}, m \in ManifestDoc :
        /\ queue \in {ThreeFiles(findings, coverage, m), Rest2(coverage, m), Rest1(m)}
        /\ GoodManifest(m, roots, found)
        /\ \/ found \subseteq onDisk
           \/ /\ findings # None /\ coverage # None /\ m # None
              /\ found \subseteq onDisk \cup findings

Completing == {"complete", "prepare"}
Stopping == {"fail", "cancel", "failDeep", "preserve", "recover"}

OpInv ==
    /\ op = [cmd |-> op.cmd, pc |-> op.pc, by |-> op.by, queue |-> op.queue, doc |-> op.doc]
    /\ op.cmd \in Command /\ op.pc \in Step
    /\ op.pc = "write" =>
          \/ op.cmd \in {"draft", "budget"} /\ WritesDraft(op.queue, findingsFile, coverageFile)
          \/ /\ op.cmd \in Completing
             /\ WritesCompletion(op.queue, checkpoints, findingsFile, coverageFile)
    /\ op.pc \in {"write", "merge", "commit", "stop"} => scanStatus = "running"
    /\ op.pc \in {"merge", "commit", "stop"} => op.cmd \in Completing
    /\ op.pc = "commit" => SealHolds /\ manifestFile.status = "completed"
    /\ op.pc \in {"preserve", "freeze", "publish", "record", "restore", "warn", "clear"} =>
          scanStatus = "failed" /\ op.cmd \in Stopping
    /\ op.pc = "freeze" => frozen = None /\ op.queue[3][2] \in SealedDoc
    /\ op.pc = "freeze" => op.queue = ThreeFiles(op.queue[3][2].findings, op.queue[3][2].coverage,
                                                 op.queue[3][2])
    /\ op.pc \in {"freeze", "publish"} =>
          /\ WritesStopped(op.queue, checkpoints, evidence, findingsFile, coverageFile)
          /\ Restores(op.doc, checkpoints, evidence, FindingsOf(OnDisk))
    /\ op.pc = "restore" => Restores(op.queue, checkpoints, evidence, FindingsOf(OnDisk))
    /\ op.pc = "record" => SealHolds /\ manifestFile.status # "completed"

\* Nothing that a completion, a stop, a crash or a recovery leaves behind contradicts
\* what the next one relies on.
LifecycleInv ==
    HandoffTypeOK /\ DocumentsInv /\ RowInv /\ RunningInv /\ CompleteInv /\ FailedInv /\ OpInv

-----------------------------------------------------------------------------
(* Documents and queues.                                                   *)

LEMMA ThreeFilesShape ==
  ASSUME NEW f, NEW c, NEW m
  PROVE  /\ Head(ThreeFiles(f, c, m)) = <<"findings", f>>
         /\ Tail(ThreeFiles(f, c, m)) = Rest2(c, m) /\ Len(ThreeFiles(f, c, m)) = 3
         /\ ThreeFiles(f, c, m)[3][2] = m /\ ThreeFiles(f, c, m) # <<>>
         /\ Head(Rest2(c, m)) = <<"coverage", c>>
         /\ Tail(Rest2(c, m)) = Rest1(m) /\ Len(Rest2(c, m)) = 2 /\ Rest2(c, m) # <<>>
         /\ Head(Rest1(m)) = <<"manifest", m>> /\ Len(Rest1(m)) = 1 /\ Rest1(m) # <<>>
BY DEF ThreeFiles, Rest2, Rest1

\* A sealed manifest is a document, and a draft is not sealed and names no sources.
LEMMA ManifestKinds ==
  ASSUME NEW m
  PROVE  /\ m \in SealedDoc => m # None /\ m.kind = "sealed"
         /\ m \in DraftDoc => m # None /\ m.kind = "draft" /\ m.sources = {}
<1>1. SealedDoc \subseteq Manifest /\ DraftDoc \subseteq Manifest
  BY DEF SealedDoc, DraftDoc, Manifest
<1>2. m \in SealedDoc => m.kind = "sealed"
  BY DEF SealedDoc
<1>3. m \in DraftDoc => m.kind = "draft" /\ m.sources = {}
  BY DEF DraftDoc, Draft
<1>. QED BY <1>1, <1>2, <1>3, NullAssumption

LEMMA FindingsOfMember ==
  ASSUME NEW sources, NEW x
  PROVE  x \in FindingsOf(sources) <=> \E s \in sources : x \in s.findings
BY DEF FindingsOf

\* SourcesIn, with the results of the workers as an argument.
SourcesOf(roots, results) ==
    {[owner |-> "root", findings |-> s] : s \in roots}
    \cup {[owner |-> w, findings |-> results[w]] : w \in {v \in Worker : results[v] # {}}}

LEMMA SourcesMember ==
  ASSUME NEW roots, NEW results, NEW s
  PROVE  s \in SourcesOf(roots, results) <=>
            \/ \E c \in roots : s = [owner |-> "root", findings |-> c]
            \/ \E w \in Worker : results[w] # {} /\ s = [owner |-> w, findings |-> results[w]]
BY DEF SourcesOf

\* What is on disk is what the checkpoints and the workers have.
LEMMA DiskFindings ==
  ASSUME NEW roots, NEW results, NEW x
  PROVE  x \in FindingsOf(SourcesOf(roots, results)) <=>
            (\E c \in roots : x \in c) \/ (\E w \in Worker : x \in results[w])
<1>1. ASSUME x \in FindingsOf(SourcesOf(roots, results))
      PROVE  (\E c \in roots : x \in c) \/ (\E w \in Worker : x \in results[w])
  <2>1. PICK s \in SourcesOf(roots, results) : x \in s.findings
    BY <1>1, FindingsOfMember
  <2>. QED BY <2>1, SourcesMember
<1>2. ASSUME NEW c \in roots, x \in c PROVE x \in FindingsOf(SourcesOf(roots, results))
  <2> DEFINE s == [owner |-> "root", findings |-> c]
  <2>1. s \in SourcesOf(roots, results) /\ x \in s.findings
    BY <1>2, SourcesMember
  <2>. QED BY <2>1, FindingsOfMember
<1>3. ASSUME NEW w \in Worker, x \in results[w] PROVE x \in FindingsOf(SourcesOf(roots, results))
  <2> DEFINE s == [owner |-> w, findings |-> results[w]]
  <2>1. s \in SourcesOf(roots, results) /\ x \in s.findings
    BY <1>3, SourcesMember
  <2>. QED BY <2>1, FindingsOfMember
<1>. QED BY <1>1, <1>2, <1>3

\* Sources are only added to the disk, and worker results only grow.
LEMMA SourcesGrow ==
  ASSUME NEW roots, NEW more, roots \subseteq more, NEW results, NEW later,
         \A w \in Worker : results[w] \subseteq later[w]
  PROVE  FindingsOf(SourcesOf(roots, results)) \subseteq FindingsOf(SourcesOf(more, later))
<1> SUFFICES ASSUME NEW x \in FindingsOf(SourcesOf(roots, results))
             PROVE  x \in FindingsOf(SourcesOf(more, later))
  OBVIOUS
<1>1. (\E c \in roots : x \in c) \/ (\E w \in Worker : x \in results[w])
  BY DiskFindings
<1>2. (\E c \in more : x \in c) \/ (\E w \in Worker : x \in later[w])
  BY <1>1
<1>. QED BY <1>2, DiskFindings

LEMMA DiskGrows ==
  ASSUME checkpoints \subseteq checkpoints',
         \A w \in Worker : workerResult[w] \subseteq workerResult'[w]
  PROVE  FindingsOf(OnDisk) \subseteq FindingsOf(OnDisk')
<1>1. OnDisk = SourcesOf(checkpoints, workerResult) /\ OnDisk' = SourcesOf(checkpoints', workerResult')
  BY DEF OnDisk, SourcesIn, SourcesOf
<1>. QED BY <1>1, SourcesGrow

LEMMA SealsLast ==
  ASSUME NEW m, NEW roots, NEW more, roots \subseteq more, NEW found
  PROVE  /\ GoodSeal(m, roots) => GoodSeal(m, more)
         /\ StoppedSeal(m, roots, found) => StoppedSeal(m, more, found)
         /\ GoodManifest(m, roots, found) => GoodManifest(m, more, found)
BY DEF GoodSeal, StoppedSeal, GoodManifest

-----------------------------------------------------------------------------
(* What several commands do.                                               *)

LEMMA LifecycleStarts == LifecycleInit => LifecycleInv
<1> SUFFICES ASSUME LifecycleInit PROVE LifecycleInv
  OBVIOUS
<1>1. HandoffTypeOK
  BY HandoffStarts DEF LifecycleInit, HandoffInv
<1>2. DocumentsInv /\ RowInv
  <2>1. DocumentsInv
    BY DEF LifecycleInit, DocumentsInv, GoodManifest
  <2>2. canceled \in BOOLEAN /\ followUp \in BOOLEAN /\ publicationError \in BOOLEAN
    BY Zenon DEF LifecycleInit
  <2>3. crashes \in 0 .. MaxCrashes
    BY LifecycleAssumption DEF LifecycleInit
  <2>. QED BY <2>1, <2>2, <2>3 DEF LifecycleInit, RowInv
<1>3. RunningInv /\ CompleteInv /\ FailedInv
  BY DEF LifecycleInit, RunningInv, CompleteInv, FailedInv, IsSealed
<1>4. OpInv
  BY DEF LifecycleInit, NoOp, OpInv, Command, Step
<1>. QED BY <1>1, <1>2, <1>3, <1>4 DEF LifecycleInv

\* A step that only moves the command along.
LEMMA OnlyOpMoves ==
  ASSUME LifecycleInv, UNCHANGED <<handoffVars, rowVars, runVars, fileVars, evidence>>,
         crashes' \in 0 .. MaxCrashes, scanStatus = "complete" => Idle', OpInv'
  PROVE  LifecycleInv'
<1>1. HandoffTypeOK' /\ DocumentsInv' /\ RowInv'
  BY DEF LifecycleInv, HandoffTypeOK, handoffVars, DocumentsInv, fileVars, RowInv, rowVars, runVars
<1>2. UNCHANGED <<IsSealed, SealHolds, EvidenceOnDisk>>
  BY DEF fileVars, IsSealed, SealHolds, EvidenceOnDisk, OnDisk, SourcesIn, ParentReadable
<1>3. RunningInv' /\ CompleteInv' /\ FailedInv'
  BY <1>2 DEF LifecycleInv, RunningInv, CompleteInv, FailedInv, rowVars, runVars, fileVars, handoffVars
<1>. QED BY <1>1, <1>3 DEF LifecycleInv

LEMMA ManifestsAreDocs ==
  ASSUME NEW m, NEW roots, NEW found, GoodManifest(m, roots, found)
  PROVE  m \in ManifestDoc
BY DEF GoodManifest, GoodSeal, StoppedSeal, ManifestDoc

LEMMA RestoresLasts ==
  ASSUME NEW queue, NEW roots, NEW more, roots \subseteq more, NEW found,
         NEW onDisk, NEW onDiskLater, onDisk \subseteq onDiskLater,
         Restores(queue, roots, found, onDisk)
  PROVE  Restores(queue, more, found, onDiskLater)
<1>1. PICK f \in (SUBSET Finding) \cup {None}, c \in CoverageDoc \cup {None}, m \in ManifestDoc :
         /\ queue \in {ThreeFiles(f, c, m), Rest2(c, m), Rest1(m)}
         /\ GoodManifest(m, roots, found)
         /\ \/ found \subseteq onDisk
            \/ f # None /\ c # None /\ m # None /\ found \subseteq onDisk \cup f
  BY DEF Restores
<1>2. GoodManifest(m, more, found)
  BY <1>1, SealsLast
<1>3. \/ found \subseteq onDiskLater
      \/ f # None /\ c # None /\ m # None /\ found \subseteq onDiskLater \cup f
  BY <1>1
<1>4. \E m1 \in ManifestDoc : /\ queue \in {ThreeFiles(f, c, m1), Rest2(c, m1), Rest1(m1)}
              /\ GoodManifest(m1, more, found)
              /\ \/ found \subseteq onDiskLater
                 \/ f # None /\ c # None /\ m1 # None /\ found \subseteq onDiskLater \cup f
  BY <1>1, <1>2, <1>3
<1>. QED BY <1>1, <1>4, Zenon DEF Restores

LEMMA WritesLast ==
  ASSUME NEW queue, NEW roots, NEW more, roots \subseteq more, NEW found, NEW f, NEW c
  PROVE  /\ WritesCompletion(queue, roots, f, c) => WritesCompletion(queue, more, f, c)
         /\ WritesStopped(queue, roots, found, f, c) => WritesStopped(queue, more, found, f, c)
BY SealsLast DEF WritesCompletion, WritesStopped

\* A step beside the command that holds the lock, which at most adds to the disk.
LEMMA OpStays ==
  ASSUME LifecycleInv, UNCHANGED <<op, scanStatus, frozen, findingsFile, coverageFile, manifestFile,
                                   checkpoints, evidence>>,
         \A w \in Worker : workerResult[w] \subseteq workerResult'[w]
  PROVE  OpInv'
<1>1. FindingsOf(OnDisk) \subseteq FindingsOf(OnDisk')
  BY DiskGrows
<1>2. \A queue : Restores(queue, checkpoints, evidence, FindingsOf(OnDisk))
                    => Restores(queue, checkpoints', evidence', FindingsOf(OnDisk'))
  BY <1>1, RestoresLasts
<1>3. UNCHANGED SealHolds
  BY DEF SealHolds, IsSealed
<1>. QED BY <1>2, <1>3 DEF LifecycleInv, OpInv

\* A command that takes the lock.
LEMMA Acquires ==
  ASSUME NEW cmd, NEW by, NEW pc, Acquire(cmd, by, pc),
         \/ cmd \in Completing /\ pc = "merge" /\ scanStatus' = "running"
         \/ cmd \in Stopping /\ pc = "preserve" /\ scanStatus' = "failed"
  PROVE  OpInv'
<1>1. op' = [cmd |-> cmd, pc |-> pc, by |-> by, queue |-> <<>>, doc |-> None]
  BY DEF Acquire, NoOp
<1>2. op'.cmd = cmd /\ op'.pc = pc
  BY <1>1
<1>3. cmd \in Command /\ pc \in Step
  BY DEF Command, Step, Completing, Stopping
<1>. QED BY <1>1, <1>2, <1>3 DEF OpInv

LEMMA Releases == ASSUME Release PROVE OpInv' /\ Idle'
BY DEF Release, NoOp, OpInv, Idle, Command, Step

\* What a stop takes as evidence.
LEMMA EvidenceIsFound ==
  ASSUME DocumentsInv
  PROVE  EvidenceOnDisk \subseteq Finding
<1> SUFFICES ASSUME NEW x \in FindingsOf(OnDisk) PROVE x \in Finding
  BY NullAssumption DEF DocumentsInv, EvidenceOnDisk, ParentReadable
<1>1. OnDisk = SourcesOf(checkpoints, workerResult)
  BY DEF OnDisk, SourcesIn, SourcesOf
<1>2. (\E c \in checkpoints : x \in c) \/ (\E w \in Worker : x \in workerResult[w])
  BY <1>1, DiskFindings
<1>. QED BY <1>2 DEF DocumentsInv

LEMMA Stops ==
  ASSUME LifecycleInv, scanStatus = "running", StopsScan,
         canceled' \in BOOLEAN, runStatus' \in {"running", "none", "succeeded", "failed", "canceled", "interrupted"},
         OpInv'
  PROVE  LifecycleInv'
<1>1. HandoffTypeOK' /\ RowInv'
  <2>1. followUp' \in BOOLEAN /\ publicationError' \in BOOLEAN
    BY Zenon DEF StopsScan, LifecycleInv, RowInv
  <2>. QED BY <2>1 DEF LifecycleInv, HandoffTypeOK, handoffVars, RowInv, StopsScan
<1>2. DocumentsInv'
  <2>1. GoodManifest(manifestFile, checkpoints, evidence')
    BY ManifestKinds DEF LifecycleInv, DocumentsInv, RunningInv, GoodManifest, GoodSeal, IsSealed
  <2>2. evidence' \subseteq Finding
    BY EvidenceIsFound DEF LifecycleInv, StopsScan
  <2>. QED BY <2>1, <2>2 DEF LifecycleInv, DocumentsInv, StopsScan, fileVars
<1>3. EvidenceOnDisk' = EvidenceOnDisk
  BY DEF StopsScan, fileVars, EvidenceOnDisk, OnDisk, SourcesIn, ParentReadable
<1>4. RunningInv' /\ CompleteInv' /\ FailedInv'
  BY <1>3 DEF LifecycleInv, RunningInv, CompleteInv, FailedInv, StopsScan
<1>. QED BY <1>1, <1>2, <1>4 DEF LifecycleInv

-----------------------------------------------------------------------------
(* The commands.                                                           *)

LEMMA HandoffKeeps == ASSUME LifecycleInv, Handoff PROVE LifecycleInv'
<1>1. HandoffTypeOK' /\ mode' = mode
  <2>1. mode' = mode
    BY DEF Handoff, HandoffNext, ClaimHandoffDelivery, ReleaseHandoffDelivery,
           AttachScanContinuationThread, MarkHandoffDelivered, SetScanThread,
           ClaimUnownedDeepScan, ClaimGoesStale
  <2>2. HandoffTypeOK'
    BY HandoffAssumption
    DEF LifecycleInv, HandoffTypeOK, Token, Handoff, HandoffNext, ClaimHandoffDelivery,
        ReleaseHandoffDelivery, AttachScanContinuationThread, MarkHandoffDelivered, SetScanThread,
        ClaimUnownedDeepScan, ClaimGoesStale
  <2>. QED BY <2>1, <2>2
<1>2. OpInv'
  BY OpStays DEF Handoff, rowVars, fileVars
<1>3. DocumentsInv' /\ RowInv'
  BY DEF Handoff, LifecycleInv, DocumentsInv, fileVars, RowInv, rowVars, runVars
<1>4. UNCHANGED <<IsSealed, SealHolds, EvidenceOnDisk, Idle>>
  BY DEF Handoff, fileVars, IsSealed, SealHolds, EvidenceOnDisk, OnDisk, SourcesIn, ParentReadable, Idle
<1>5. RunningInv' /\ CompleteInv' /\ FailedInv'
  BY <1>1, <1>4 DEF Handoff, LifecycleInv, RunningInv, CompleteInv, FailedInv, rowVars, runVars, fileVars
<1>. QED BY <1>1, <1>2, <1>3, <1>5 DEF LifecycleInv

LEMMA SavesKeep ==
  ASSUME LifecycleInv, NEW w \in Worker, NEW findings \in SUBSET Finding, WorkerSaves(w, findings)
  PROVE  LifecycleInv'
<1>1. workerResult' \in [Worker -> SUBSET Finding] /\ \A v \in Worker : workerResult[v] \subseteq workerResult'[v]
  BY DEF WorkerSaves, LifecycleInv, DocumentsInv
<1>2. FindingsOf(OnDisk) \subseteq FindingsOf(OnDisk')
  BY <1>1, DiskGrows DEF WorkerSaves
<1>3. OpInv'
  BY <1>1, OpStays DEF WorkerSaves, rowVars
<1>4. HandoffTypeOK' /\ DocumentsInv' /\ RowInv'
  BY <1>1 DEF WorkerSaves, LifecycleInv, HandoffTypeOK, handoffVars, DocumentsInv, RowInv, rowVars, runVars
<1>5. UNCHANGED <<IsSealed, SealHolds, Idle>> /\ EvidenceOnDisk \subseteq EvidenceOnDisk'
  BY <1>2 DEF WorkerSaves, IsSealed, SealHolds, Idle, EvidenceOnDisk, ParentReadable
<1>6. RunningInv' /\ CompleteInv' /\ FailedInv'
  BY <1>5 DEF WorkerSaves, LifecycleInv, RunningInv, CompleteInv, FailedInv, rowVars, runVars, handoffVars
<1>. QED BY <1>3, <1>4, <1>6 DEF LifecycleInv

LEMMA DraftKeeps ==
  ASSUME LifecycleInv, NEW t, NEW findings \in SUBSET Finding, NEW complete \in BOOLEAN, NEW keep \in BOOLEAN,
         WriteScanDraft(t, findings, complete, keep)
  PROVE  LifecycleInv'
<1>1. checkpoints \subseteq checkpoints' /\ checkpoints' \subseteq SUBSET Finding
  BY DEF WriteScanDraft, LifecycleInv, DocumentsInv
<1>2. OpInv'
  <2>1. CASE op' = NoOp
    BY <2>1, Releases DEF Release
  <2>2. CASE op' = [NoOp EXCEPT !.cmd = "draft", !.by = t, !.pc = "write",
                       !.queue = ThreeFiles(findings, "draft", Draft(complete))]
    <3>1. op' = [cmd |-> "draft", pc |-> "write", by |-> t,
                 queue |-> ThreeFiles(findings, "draft", Draft(complete)), doc |-> None]
      BY <2>2 DEF NoOp
    <3>2. WritesDraft(ThreeFiles(findings, "draft", Draft(complete)), findingsFile', coverageFile')
      BY DEF WritesDraft, Writes, DraftDoc
    <3>3. scanStatus' = "running"
      BY DEF WriteScanDraft, rowVars
    <3>. QED BY <3>1, <3>2, <3>3 DEF OpInv, Command, Step
  <2>. QED BY <2>1, <2>2 DEF WriteScanDraft
<1>3. HandoffTypeOK' /\ RowInv'
  BY DEF WriteScanDraft, LifecycleInv, HandoffTypeOK, handoffVars, RowInv, rowVars, runVars
<1>4. DocumentsInv'
  BY <1>1, SealsLast DEF WriteScanDraft, LifecycleInv, DocumentsInv
<1>5. RunningInv' /\ CompleteInv' /\ FailedInv'
  BY DEF WriteScanDraft, LifecycleInv, RunningInv, CompleteInv, FailedInv, rowVars, IsSealed
<1>. QED BY <1>2, <1>3, <1>4, <1>5 DEF LifecycleInv

LEMMA CompleteScanKeeps ==
  ASSUME LifecycleInv, NEW t, NEW prepareOnly \in BOOLEAN, CompleteScan(t, prepareOnly)
  PROVE  LifecycleInv'
<1>1. OpInv'
  BY Acquires DEF CompleteScan, Completing, rowVars
<1>. QED BY <1>1, OnlyOpMoves DEF CompleteScan, LifecycleInv, RowInv

LEMMA BudgetKeeps == ASSUME LifecycleInv, CompleteBudgetExhaustedScan PROVE LifecycleInv'
<1> DEFINE f == IF findingsFile = None THEN {} ELSE findingsFile
           m == IF manifestFile = None THEN Draft(TRUE) ELSE manifestFile
<1>1. f \in SUBSET Finding /\ m \in DraftDoc
  <2>1. f \in SUBSET Finding
    BY DEF LifecycleInv, DocumentsInv
  <2>2. manifestFile = None \/ manifestFile \in DraftDoc \/ manifestFile \in SealedDoc
    BY DEF LifecycleInv, DocumentsInv, GoodManifest, GoodSeal
  <2>3. manifestFile # None => manifestFile \in DraftDoc
    BY <2>2, ManifestKinds DEF CompleteBudgetExhaustedScan, IsSealed
  <2>4. Draft(TRUE) \in DraftDoc
    BY DEF DraftDoc
  <2>. QED BY <2>1, <2>3, <2>4
<1>2. op' = [cmd |-> "budget", pc |-> "write", by |-> None, queue |-> ThreeFiles(f, "draft", m), doc |-> None]
  BY DEF CompleteBudgetExhaustedScan, NoOp
<1>3. scanStatus' = "running" /\ UNCHANGED <<handoffVars, rowVars, runVars, fileVars, evidence, crashes>>
  BY DEF CompleteBudgetExhaustedScan, rowVars
<1> HIDE DEF f, m
<1>4. WritesDraft(ThreeFiles(f, "draft", m), findingsFile', coverageFile')
  BY <1>1 DEF WritesDraft, Writes
<1>5. OpInv'
  BY <1>2, <1>3, <1>4 DEF OpInv, Command, Step
<1>. QED BY <1>3, <1>5, OnlyOpMoves DEF LifecycleInv, RowInv, rowVars

LEMMA StopsKeep ==
  ASSUME LifecycleInv,
         \/ \E t \in Token \cup {None} : FailScan(t)
         \/ \E thread \in Thread \cup {None} : CancelScan(thread)
         \/ \E status \in {"failed", "interrupted"} : FailDeepScan(status)
  PROVE  LifecycleInv'
<1>1. canceled \in BOOLEAN /\ runStatus \in {"running", "none", "succeeded", "failed", "canceled", "interrupted"}
  BY DEF LifecycleInv, RowInv
<1>2. ASSUME NEW t \in Token \cup {None}, FailScan(t) PROVE LifecycleInv'
  <2>1. OpInv'
    BY <1>2, Acquires DEF FailScan, StopsScan, Stopping
  <2>2. canceled' \in BOOLEAN
    BY <1>1, <1>2, Zenon DEF FailScan
  <2>. QED BY <1>1, <1>2, <2>1, <2>2, Stops DEF FailScan
<1>3. ASSUME NEW thread \in Thread \cup {None}, CancelScan(thread) PROVE LifecycleInv'
  <2>1. OpInv'
    BY <1>3, Acquires DEF CancelScan, StopsScan, Stopping
  <2>2. canceled' \in BOOLEAN
    BY <1>3, Zenon DEF CancelScan
  <2>. QED BY <1>1, <1>3, <2>1, <2>2, Stops DEF CancelScan
<1>4. ASSUME NEW status \in {"failed", "interrupted"}, FailDeepScan(status) PROVE LifecycleInv'
  <2>1. OpInv'
    BY <1>4, Acquires DEF FailDeepScan, StopsScan, Stopping
  <2>2. canceled' \in BOOLEAN
    BY <1>1, <1>4, Zenon DEF FailDeepScan
  <2>. QED BY <1>1, <1>4, <2>1, <2>2, Stops DEF FailDeepScan
<1>. QED BY <1>2, <1>3, <1>4

\* Commands that change the run, or a flag beside it.
LEMMA RunKeeps ==
  ASSUME LifecycleInv,
         \/ \E t \in Token \cup {None} : BeginDeepScan(t)
         \/ FinishDeepScan
         \/ RecordPublicationFailure
  PROVE  LifecycleInv'
<1>1. UNCHANGED <<handoffVars, rowVars, fileVars, op, evidence, crashes>>
  BY DEF BeginDeepScan, FinishDeepScan, RecordPublicationFailure
<1>2. /\ runStatus' \in {"none", "running", "succeeded", "failed", "canceled", "interrupted"}
      /\ runStatus' # runStatus => scanStatus = "running"
      /\ publicationError' \in BOOLEAN
  <2>1. publicationError' \in BOOLEAN
    BY Zenon DEF LifecycleInv, RowInv, BeginDeepScan, FinishDeepScan, RecordPublicationFailure
  <2>. QED BY <2>1 DEF LifecycleInv, RowInv, BeginDeepScan, FinishDeepScan, RecordPublicationFailure
<1>3. OpInv'
  BY <1>1, OpStays DEF rowVars, fileVars
<1>4. HandoffTypeOK' /\ DocumentsInv' /\ RowInv'
  BY <1>1, <1>2 DEF LifecycleInv, HandoffTypeOK, handoffVars, DocumentsInv, fileVars, RowInv, rowVars
<1>5. UNCHANGED <<IsSealed, SealHolds, EvidenceOnDisk, Idle>>
  BY <1>1 DEF fileVars, IsSealed, SealHolds, EvidenceOnDisk, OnDisk, SourcesIn, ParentReadable, Idle
<1>6. RunningInv' /\ CompleteInv' /\ FailedInv'
  BY <1>1, <1>2, <1>5 DEF LifecycleInv, RunningInv, CompleteInv, FailedInv, rowVars, fileVars, handoffVars
<1>. QED BY <1>3, <1>4, <1>6 DEF LifecycleInv

LEMMA RepeatsKeep == ASSUME LifecycleInv, PreserveScanResults \/ RecoverScanResults PROVE LifecycleInv'
<1>1. OpInv'
  BY Acquires DEF PreserveScanResults, RecoverScanResults, Stopping, rowVars
<1>. QED BY <1>1, OnlyOpMoves DEF PreserveScanResults, RecoverScanResults, LifecycleInv, RowInv

-----------------------------------------------------------------------------
(* Writing the files, one after the other.                                 *)

LEMMA WritesOne ==
  ASSUME NEW f, NEW c, NEW m, WriteFile
  PROVE  /\ op.queue = ThreeFiles(f, c, m) =>
               /\ findingsFile' = f /\ UNCHANGED <<coverageFile, manifestFile>>
               /\ op' = [op EXCEPT !.queue = Rest2(c, m)]
         /\ op.queue = Rest2(c, m) =>
               /\ coverageFile' = c /\ UNCHANGED <<findingsFile, manifestFile>>
               /\ op' = [op EXCEPT !.queue = Rest1(m)]
         /\ op.queue = Rest1(m) =>
               /\ manifestFile' = m /\ UNCHANGED <<findingsFile, coverageFile>>
               /\ op' = IF AfterWriting = "idle" THEN NoOp
                        ELSE [op EXCEPT !.queue = <<>>, !.pc = AfterWriting,
                                        !.cmd = IF @ = "budget" THEN "complete" ELSE @]
<1> DEFINE Q3 == ThreeFiles(f, c, m)
           Q2 == Rest2(c, m)
           Q1 == Rest1(m)
<1>1. Head(Q3) = <<"findings", f>> /\ Tail(Q3) = Q2 /\ Len(Q3) = 3
  BY ThreeFilesShape
<1>2. Head(Q2) = <<"coverage", c>> /\ Tail(Q2) = Q1 /\ Len(Q2) = 2
  BY ThreeFilesShape
<1>3. Head(Q1) = <<"manifest", m>> /\ Len(Q1) = 1
  BY ThreeFilesShape
<1> HIDE DEF Q1, Q2, Q3
<1>a. <<"findings", f>>[1] = "findings" /\ <<"findings", f>>[2] = f
  OBVIOUS
<1>b. <<"coverage", c>>[1] = "coverage" /\ <<"coverage", c>>[2] = c
  OBVIOUS
<1>c. <<"manifest", m>>[1] = "manifest" /\ <<"manifest", m>>[2] = m
  OBVIOUS
<1>4. op.queue = Q3 => /\ findingsFile' = f /\ UNCHANGED <<coverageFile, manifestFile>>
                       /\ op' = [op EXCEPT !.queue = Q2]
  <2> SUFFICES ASSUME op.queue = Q3 PROVE /\ findingsFile' = f /\ UNCHANGED <<coverageFile, manifestFile>>
                                          /\ op' = [op EXCEPT !.queue = Q2]
    OBVIOUS
  <2>1. Head(op.queue) = <<"findings", f>> /\ Len(op.queue) > 1
    BY <1>1
  <2>2. findingsFile' = f /\ UNCHANGED <<coverageFile, manifestFile>>
    BY <1>a, <2>1 DEF WriteFile
  <2>3. op' = [op EXCEPT !.queue = Q2]
    BY <1>1, <2>1, Zenon DEF WriteFile
  <2>. QED BY <2>2, <2>3
<1>5. op.queue = Q2 => /\ coverageFile' = c /\ UNCHANGED <<findingsFile, manifestFile>>
                       /\ op' = [op EXCEPT !.queue = Q1]
  <2> SUFFICES ASSUME op.queue = Q2 PROVE /\ coverageFile' = c /\ UNCHANGED <<findingsFile, manifestFile>>
                                          /\ op' = [op EXCEPT !.queue = Q1]
    OBVIOUS
  <2>1. Head(op.queue) = <<"coverage", c>> /\ Len(op.queue) > 1
    BY <1>2
  <2>2. coverageFile' = c /\ UNCHANGED <<findingsFile, manifestFile>>
    BY <1>b, <2>1 DEF WriteFile
  <2>3. op' = [op EXCEPT !.queue = Q1]
    BY <1>2, <2>1, Zenon DEF WriteFile
  <2>. QED BY <2>2, <2>3
<1>6. op.queue = Q1 =>
        /\ manifestFile' = m /\ UNCHANGED <<findingsFile, coverageFile>>
        /\ op' = IF AfterWriting = "idle" THEN NoOp
                 ELSE [op EXCEPT !.queue = <<>>, !.pc = AfterWriting,
                                 !.cmd = IF @ = "budget" THEN "complete" ELSE @]
  <2> SUFFICES ASSUME op.queue = Q1
               PROVE  /\ manifestFile' = m /\ UNCHANGED <<findingsFile, coverageFile>>
                      /\ op' = IF AfterWriting = "idle" THEN NoOp
                               ELSE [op EXCEPT !.queue = <<>>, !.pc = AfterWriting,
                                               !.cmd = IF @ = "budget" THEN "complete" ELSE @]

    OBVIOUS
  <2>1. Head(op.queue) = <<"manifest", m>> /\ ~(Len(op.queue) > 1)
    BY <1>3
  <2>2. manifestFile' = m /\ UNCHANGED <<findingsFile, coverageFile>>
    BY <1>c, <2>1 DEF WriteFile
  <2>3. op' = IF AfterWriting = "idle" THEN NoOp
             ELSE [op EXCEPT !.queue = <<>>, !.pc = AfterWriting,
                             !.cmd = IF @ = "budget" THEN "complete" ELSE @]
    BY <1>3, <2>1, Zenon DEF WriteFile
  <2>. QED BY <2>2, <2>3
<1>. QED BY <1>4, <1>5, <1>6 DEF Q1, Q2, Q3

\* The evidence of a stopped scan is on disk still when its files are replaced by
\* some that hold it.
LEMMA EvidenceKept ==
  ASSUME evidence \subseteq EvidenceOnDisk, UNCHANGED <<checkpoints, workerResult, evidence>>,
         \/ evidence \subseteq FindingsOf(OnDisk)
         \/ ParentReadable => ParentReadable' /\ (findingsFile' = findingsFile
                                                  \/ evidence \subseteq FindingsOf(OnDisk) \cup findingsFile')
  PROVE  evidence' \subseteq EvidenceOnDisk'
<1>1. OnDisk' = OnDisk
  BY DEF OnDisk, SourcesIn
<1>2. FindingsOf(OnDisk') = FindingsOf(OnDisk)
  BY <1>1
<1>3. EvidenceOnDisk' = FindingsOf(OnDisk) \cup (IF ParentReadable' THEN findingsFile' ELSE {})
  BY <1>2 DEF EvidenceOnDisk
<1>. QED BY <1>3 DEF EvidenceOnDisk

\* A draft, a budget draft or a completion writes a file.
LEMMA WritesRunning ==
  ASSUME LifecycleInv, WriteFile, op.pc = "write"
  PROVE  LifecycleInv'
<1>1. scanStatus = "running" /\ scanStatus' = "running"
      /\ UNCHANGED <<handoffVars, rowVars, runVars, checkpoints, workerResult, evidence, crashes>>
  BY DEF LifecycleInv, OpInv, WriteFile, rowVars
<1>2. op = [cmd |-> op.cmd, pc |-> "write", by |-> op.by, queue |-> op.queue, doc |-> op.doc]
      /\ op.cmd \in Command
  BY DEF LifecycleInv, OpInv
<1>3. PICK f \in SUBSET Finding, c \in CoverageDoc, m \in ManifestDoc :
        /\ Writes(op.queue, f, c, m, findingsFile, coverageFile)
        /\ \/ op.cmd \in {"draft", "budget"} /\ c = "draft" /\ m \in DraftDoc
           \/ /\ op.cmd \in Completing
              /\ GoodSeal(m, checkpoints) /\ m.status = "completed" /\ f = m.findings /\ c = m.coverage
  <2>1. CASE op.cmd \in {"draft", "budget"} /\ WritesDraft(op.queue, findingsFile, coverageFile)
    BY <2>1 DEF WritesDraft, CoverageDoc, ManifestDoc
  <2>2. CASE op.cmd \in Completing /\ WritesCompletion(op.queue, checkpoints, findingsFile, coverageFile)
    <3>1. PICK m \in SealedDoc : /\ GoodSeal(m, checkpoints) /\ m.status = "completed"
                                 /\ Writes(op.queue, m.findings, m.coverage, m, findingsFile, coverageFile)
      BY <2>2 DEF WritesCompletion
    <3>2. m.findings \in SUBSET Finding /\ m.coverage \in CoverageDoc /\ m \in ManifestDoc
      BY DEF SealedDoc, CoverageDoc, ManifestDoc
    <3>. QED BY <2>2, <3>1, <3>2
  <2>. QED BY <2>1, <2>2 DEF LifecycleInv, OpInv
<1>4. GoodManifest(m, checkpoints, evidence) /\ (m.kind = "sealed" => m.status = "completed")
  BY <1>3, ManifestKinds DEF GoodManifest
<1>5. \/ /\ op' = [op EXCEPT !.queue = op'.queue] /\ manifestFile' = manifestFile
         /\ findingsFile' = f /\ coverageFile' \in {coverageFile, c}
         /\ Writes(op'.queue, f, c, m, findingsFile', coverageFile')
      \/ /\ findingsFile' = f /\ coverageFile' = c /\ manifestFile' = m
         /\ op' = IF AfterWriting = "idle" THEN NoOp
                  ELSE [op EXCEPT !.queue = <<>>, !.pc = AfterWriting,
                                  !.cmd = IF @ = "budget" THEN "complete" ELSE @]
  <2>1. CASE op.queue = ThreeFiles(f, c, m)
    BY <1>2, <2>1, WritesOne DEF Writes
  <2>2. CASE op.queue = Rest2(c, m) /\ findingsFile = f
    BY <1>2, <2>2, WritesOne DEF Writes
  <2>3. CASE op.queue = Rest1(m) /\ findingsFile = f /\ coverageFile = c
    BY <1>2, <2>3, WritesOne DEF Writes
  <2>. QED BY <1>3, <2>1, <2>2, <2>3 DEF Writes
<1>6. HandoffTypeOK' /\ RowInv'
  BY <1>1 DEF LifecycleInv, HandoffTypeOK, handoffVars, RowInv, rowVars, runVars
<1>7. DocumentsInv'
  <2>1. findingsFile' \in SUBSET Finding /\ coverageFile' \in CoverageDoc \cup {None}
    BY <1>5 DEF LifecycleInv, DocumentsInv
  <2>2. GoodManifest(manifestFile', checkpoints, evidence)
    BY <1>4, <1>5 DEF LifecycleInv, DocumentsInv
  <2>. QED BY <1>1, <2>1, <2>2 DEF LifecycleInv, DocumentsInv
<1>8. RunningInv' /\ CompleteInv' /\ FailedInv'
  <2>1. IsSealed' => manifestFile'.status = "completed"
    BY <1>1, <1>4, <1>5 DEF LifecycleInv, RunningInv, IsSealed
  <2>. QED BY <1>1, <2>1 DEF LifecycleInv, RunningInv, CompleteInv, FailedInv, rowVars
<1>9. OpInv'
  <2>1. CASE /\ op' = [op EXCEPT !.queue = op'.queue]
             /\ Writes(op'.queue, f, c, m, findingsFile', coverageFile')
    <3>1. op' = [cmd |-> op.cmd, pc |-> "write", by |-> op.by, queue |-> op'.queue, doc |-> op.doc]
      BY <1>2, <2>1
    <3>2. \/ op.cmd \in {"draft", "budget"} /\ WritesDraft(op'.queue, findingsFile', coverageFile')
          \/ op.cmd \in Completing /\ WritesCompletion(op'.queue, checkpoints, findingsFile', coverageFile')
      BY <1>3, <2>1 DEF WritesDraft, WritesCompletion, GoodSeal
    <3>. QED BY <1>1, <1>2, <3>1, <3>2 DEF OpInv, Step
  <2>2. CASE /\ findingsFile' = f /\ coverageFile' = c /\ manifestFile' = m
             /\ op' = IF AfterWriting = "idle" THEN NoOp
                      ELSE [op EXCEPT !.queue = <<>>, !.pc = AfterWriting,
                                      !.cmd = IF @ = "budget" THEN "complete" ELSE @]
    <3>1. CASE op.cmd = "draft"
      <4>1. AfterWriting = "idle"
        BY <1>2, <3>1 DEF AfterWriting
      <4>. QED BY <2>2, <4>1, Releases DEF Release
    <3>2. CASE op.cmd = "budget"
      <4>0. AfterWriting = "merge" /\ op.cmd # "draft"
        BY <1>2, <3>2 DEF AfterWriting
      <4>1. op' = [cmd |-> "complete", pc |-> "merge", by |-> op.by, queue |-> <<>>, doc |-> op.doc]
        BY <1>2, <2>2, <3>2, <4>0
      <4>. QED BY <1>1, <4>1 DEF OpInv, Command, Step, Completing
    <3>3. CASE op.cmd \in Completing
      <4>0. AfterWriting = "commit" /\ op.cmd # "budget"
        BY <1>2, <3>3 DEF AfterWriting, Completing
      <4>1. op' = [cmd |-> op.cmd, pc |-> "commit", by |-> op.by, queue |-> <<>>, doc |-> op.doc]
        BY <1>2, <2>2, <4>0
      <4>2. SealHolds' /\ manifestFile'.status = "completed"
        BY <1>3, <2>2, <3>3, ManifestKinds DEF SealHolds, IsSealed, GoodSeal, Completing
      <4>. QED BY <1>1, <1>2, <3>3, <4>1, <4>2 DEF OpInv, Step
    <3>. QED BY <1>3, <3>1, <3>2, <3>3
  <2>. QED BY <1>5, <2>1, <2>2
<1>. QED BY <1>6, <1>7, <1>8, <1>9 DEF LifecycleInv

\* A publication writes a file.
LEMMA WritesPublication ==
  ASSUME LifecycleInv, WriteFile, op.pc = "publish"
  PROVE  LifecycleInv'
<1>1. scanStatus = "failed" /\ scanStatus' = "failed"
      /\ UNCHANGED <<handoffVars, rowVars, runVars, checkpoints, workerResult, evidence, crashes>>
  BY DEF LifecycleInv, OpInv, WriteFile, rowVars
<1>2. /\ op = [cmd |-> op.cmd, pc |-> "publish", by |-> op.by, queue |-> op.queue, doc |-> op.doc]
      /\ op.cmd \in Command /\ op.cmd \in Stopping
      /\ Restores(op.doc, checkpoints, evidence, FindingsOf(OnDisk))
  BY DEF LifecycleInv, OpInv
<1>3. PICK m \in SealedDoc : /\ StoppedSeal(m, checkpoints, evidence)
                             /\ Writes(op.queue, m.findings, m.coverage, m, findingsFile, coverageFile)
  BY DEF LifecycleInv, OpInv, WritesStopped
<1> DEFINE f == m.findings
           c == m.coverage
<1>4. /\ f \in SUBSET Finding /\ c \in CoverageDoc /\ f # None /\ c # None /\ m # None
      /\ evidence \subseteq f /\ m.status # "completed" /\ GoodManifest(m, checkpoints, evidence)
      /\ Writes(op.queue, f, c, m, findingsFile, coverageFile)
  <2>1. f \in SUBSET Finding /\ c \in CoverageDoc
    BY DEF SealedDoc, CoverageDoc
  <2>2. f # None /\ c # None
    BY <2>1, NullAssumption DEF CoverageDoc
  <2>3. m # None
    BY ManifestKinds
  <2>. QED BY <1>3, <2>1, <2>2, <2>3 DEF StoppedSeal, GoodManifest
<1> HIDE DEF f, c
<1>5. \/ /\ op' = [op EXCEPT !.queue = op'.queue] /\ manifestFile' = manifestFile
         /\ findingsFile' = f /\ coverageFile' \in {coverageFile, c}
         /\ Writes(op'.queue, f, c, m, findingsFile', coverageFile')
      \/ /\ findingsFile' = f /\ coverageFile' = c /\ manifestFile' = m
         /\ op' = IF AfterWriting = "idle" THEN NoOp
                  ELSE [op EXCEPT !.queue = <<>>, !.pc = AfterWriting,
                                  !.cmd = IF @ = "budget" THEN "complete" ELSE @]
  <2>1. CASE op.queue = ThreeFiles(f, c, m)
    BY <1>2, <2>1, WritesOne DEF Writes
  <2>2. CASE op.queue = Rest2(c, m) /\ findingsFile = f
    BY <1>2, <2>2, WritesOne DEF Writes
  <2>3. CASE op.queue = Rest1(m) /\ findingsFile = f /\ coverageFile = c
    BY <1>2, <2>3, WritesOne DEF Writes
  <2>. QED BY <1>4, <2>1, <2>2, <2>3 DEF Writes
<1>6. HandoffTypeOK' /\ RowInv'
  BY <1>1 DEF LifecycleInv, HandoffTypeOK, handoffVars, RowInv, rowVars, runVars
<1>7. DocumentsInv'
  <2>1. findingsFile' \in SUBSET Finding /\ coverageFile' \in CoverageDoc \cup {None}
    BY <1>4, <1>5 DEF LifecycleInv, DocumentsInv
  <2>2. GoodManifest(manifestFile', checkpoints, evidence)
    BY <1>4, <1>5 DEF LifecycleInv, DocumentsInv
  <2>. QED BY <1>1, <2>1, <2>2 DEF LifecycleInv, DocumentsInv
<1>8. evidence' \subseteq EvidenceOnDisk'
  <2>1. ParentReadable => ParentReadable'
    BY <1>4, <1>5 DEF ParentReadable
  <2>2. evidence \subseteq findingsFile'
    BY <1>4, <1>5
  <2>. QED BY <1>1, <2>1, <2>2, EvidenceKept DEF LifecycleInv, FailedInv
<1>9. RunningInv' /\ CompleteInv' /\ FailedInv'
  BY <1>1, <1>8 DEF LifecycleInv, RunningInv, CompleteInv, FailedInv, rowVars
<1>10. OnDisk' = OnDisk
  BY <1>1 DEF OnDisk, SourcesIn
<1>11. OpInv'
  <2>1. CASE /\ op' = [op EXCEPT !.queue = op'.queue]
             /\ Writes(op'.queue, f, c, m, findingsFile', coverageFile')
    <3>1. op' = [cmd |-> op.cmd, pc |-> "publish", by |-> op.by, queue |-> op'.queue, doc |-> op.doc]
      BY <1>2, <2>1
    <3>2. WritesStopped(op'.queue, checkpoints', evidence', findingsFile', coverageFile')
      BY <1>1, <1>3, <2>1 DEF WritesStopped, f, c
    <3>3. Restores(op'.doc, checkpoints', evidence', FindingsOf(OnDisk'))
      BY <1>1, <1>2, <1>10, <3>1
    <3>. QED BY <1>1, <1>2, <3>1, <3>2, <3>3 DEF OpInv, Step
  <2>2. CASE /\ findingsFile' = f /\ coverageFile' = c /\ manifestFile' = m
             /\ op' = IF AfterWriting = "idle" THEN NoOp
                      ELSE [op EXCEPT !.queue = <<>>, !.pc = AfterWriting,
                                      !.cmd = IF @ = "budget" THEN "complete" ELSE @]
    <3>1. AfterWriting = "record" /\ op.cmd # "budget"
      BY <1>2 DEF AfterWriting, Stopping
    <3>2. op' = [cmd |-> op.cmd, pc |-> "record", by |-> op.by, queue |-> <<>>, doc |-> op.doc]
      BY <1>2, <2>2, <3>1
    <3>3. SealHolds' /\ manifestFile'.status # "completed"
      BY <1>4, <2>2, ManifestKinds DEF SealHolds, IsSealed, f, c
    <3>. QED BY <1>1, <1>2, <3>2, <3>3 DEF OpInv, Step
  <2>. QED BY <1>5, <2>1, <2>2
<1>. QED BY <1>6, <1>7, <1>9, <1>11 DEF LifecycleInv

\* A publication that failed puts a file back.
LEMMA WritesRestored ==
  ASSUME LifecycleInv, WriteFile, op.pc = "restore"
  PROVE  LifecycleInv'
<1>1. scanStatus = "failed" /\ scanStatus' = "failed"
      /\ UNCHANGED <<handoffVars, rowVars, runVars, checkpoints, workerResult, evidence, crashes>>
  BY DEF LifecycleInv, OpInv, WriteFile, rowVars
<1>2. /\ op = [cmd |-> op.cmd, pc |-> "restore", by |-> op.by, queue |-> op.queue, doc |-> op.doc]
      /\ op.cmd \in Command /\ op.cmd \in Stopping
  BY DEF LifecycleInv, OpInv
<1>3. PICK f \in (SUBSET Finding) \cup {None}, c \in CoverageDoc \cup {None}, m \in ManifestDoc :
        /\ op.queue \in {ThreeFiles(f, c, m), Rest2(c, m), Rest1(m)}
        /\ GoodManifest(m, checkpoints, evidence)
        /\ \/ evidence \subseteq FindingsOf(OnDisk)
           \/ f # None /\ c # None /\ m # None /\ evidence \subseteq FindingsOf(OnDisk) \cup f
  BY DEF LifecycleInv, OpInv, Restores
<1>4. \/ /\ op' = [op EXCEPT !.queue = op'.queue] /\ manifestFile' = manifestFile
         /\ findingsFile' \in {findingsFile, f} /\ coverageFile' \in {coverageFile, c}
         /\ op'.queue \in {ThreeFiles(f, c, m), Rest2(c, m), Rest1(m)}
      \/ /\ UNCHANGED <<findingsFile, coverageFile>> /\ manifestFile' = m
         /\ op' = IF AfterWriting = "idle" THEN NoOp
                  ELSE [op EXCEPT !.queue = <<>>, !.pc = AfterWriting,
                                  !.cmd = IF @ = "budget" THEN "complete" ELSE @]
  <2>1. CASE op.queue = ThreeFiles(f, c, m)
    BY <1>2, <2>1, WritesOne
  <2>2. CASE op.queue = Rest2(c, m)
    BY <1>2, <2>2, WritesOne
  <2>3. CASE op.queue = Rest1(m)
    BY <1>2, <2>3, WritesOne
  <2>. QED BY <1>3, <2>1, <2>2, <2>3
<1>5. HandoffTypeOK' /\ RowInv'
  BY <1>1 DEF LifecycleInv, HandoffTypeOK, handoffVars, RowInv, rowVars, runVars
<1>6. DocumentsInv'
  <2>1. findingsFile' \in (SUBSET Finding) \cup {None} /\ coverageFile' \in CoverageDoc \cup {None}
    BY <1>4 DEF LifecycleInv, DocumentsInv
  <2>2. GoodManifest(manifestFile', checkpoints, evidence)
    BY <1>3, <1>4 DEF LifecycleInv, DocumentsInv
  <2>. QED BY <1>1, <2>1, <2>2 DEF LifecycleInv, DocumentsInv
<1>7. evidence' \subseteq EvidenceOnDisk'
  <2>1. CASE evidence \subseteq FindingsOf(OnDisk)
    BY <1>1, <2>1, EvidenceKept DEF LifecycleInv, FailedInv
  <2>2. CASE f # None /\ c # None /\ m # None /\ evidence \subseteq FindingsOf(OnDisk) \cup f
    <3>1. ParentReadable => ParentReadable' /\ findingsFile' \in {findingsFile, f}
      BY <1>4, <2>2 DEF ParentReadable
    <3>. QED BY <1>1, <2>2, <3>1, EvidenceKept DEF LifecycleInv, FailedInv
  <2>. QED BY <1>3, <2>1, <2>2
<1>8. RunningInv' /\ CompleteInv' /\ FailedInv'
  BY <1>1, <1>7 DEF LifecycleInv, RunningInv, CompleteInv, FailedInv, rowVars
<1>9. OpInv'
  <2>1. CASE /\ op' = [op EXCEPT !.queue = op'.queue]
             /\ op'.queue \in {ThreeFiles(f, c, m), Rest2(c, m), Rest1(m)}
    <3>1. op' = [cmd |-> op.cmd, pc |-> "restore", by |-> op.by, queue |-> op'.queue, doc |-> op.doc]
      BY <1>2, <2>1
    <3>2. OnDisk' = OnDisk
      BY <1>1 DEF OnDisk, SourcesIn
    <3>3. Restores(op'.queue, checkpoints, evidence, FindingsOf(OnDisk))
      <4>1. \E m1 \in ManifestDoc : /\ op'.queue \in {ThreeFiles(f, c, m1), Rest2(c, m1), Rest1(m1)}
                    /\ GoodManifest(m1, checkpoints, evidence)
                    /\ \/ evidence \subseteq FindingsOf(OnDisk)
                       \/ /\ f # None /\ c # None /\ m1 # None
                          /\ evidence \subseteq FindingsOf(OnDisk) \cup f
        BY <1>3, <2>1
      <4>. QED BY <1>3, <4>1, Zenon DEF Restores
    <3>. QED BY <1>1, <1>2, <3>1, <3>2, <3>3 DEF OpInv, Step
  <2>2. CASE op' = IF AfterWriting = "idle" THEN NoOp
                   ELSE [op EXCEPT !.queue = <<>>, !.pc = AfterWriting,
                                   !.cmd = IF @ = "budget" THEN "complete" ELSE @]
    <3>1. AfterWriting = "warn" /\ op.cmd # "budget"
      BY <1>2 DEF AfterWriting, Stopping
    <3>2. op' = [cmd |-> op.cmd, pc |-> "warn", by |-> op.by, queue |-> <<>>, doc |-> op.doc]
      BY <1>2, <2>2, <3>1
    <3>. QED BY <1>1, <1>2, <3>2 DEF OpInv, Step
  <2>. QED BY <1>4, <2>1, <2>2
<1>. QED BY <1>5, <1>6, <1>8, <1>9 DEF LifecycleInv

LEMMA WriteFileKeeps == ASSUME LifecycleInv, WriteFile PROVE LifecycleInv'
BY WritesRunning, WritesPublication, WritesRestored DEF WriteFile

-----------------------------------------------------------------------------
(* The other steps of the commands.                                        *)

\* A scan that is complete has no command at work.
LEMMA BusyIsNotComplete == ASSUME LifecycleInv, op.pc # "idle" PROVE scanStatus # "complete"
BY DEF LifecycleInv, CompleteInv, Idle

\* The command goes on to a step of which nothing is required but how the scan stands.
LEMMA MovesOn ==
  ASSUME LifecycleInv, NEW cmd, NEW pc, NEW queue, NEW doc,
         op' = [cmd |-> cmd, pc |-> pc, by |-> op.by, queue |-> queue, doc |-> doc],
         \/ pc = "stop" /\ cmd \in Completing /\ scanStatus' = "running"
         \/ pc \in {"warn", "clear"} /\ cmd \in Stopping /\ scanStatus' = "failed"
         \/ pc = "preserve" /\ cmd \in Stopping /\ scanStatus' = "failed"
  PROVE  OpInv'
<1>1. op'.cmd = cmd /\ op'.pc = pc
  OBVIOUS
<1>2. cmd \in Command /\ pc \in Step
  BY DEF Command, Step, Completing, Stopping
<1>. QED BY <1>1, <1>2 DEF OpInv

LEMMA WriteFailsKeeps == ASSUME LifecycleInv, WriteFails PROVE LifecycleInv'
<1>1. UNCHANGED <<handoffVars, rowVars, runVars, fileVars, evidence, crashes>> /\ scanStatus' = scanStatus
  BY DEF WriteFails, rowVars
<1>2. scanStatus # "complete"
  BY BusyIsNotComplete DEF WriteFails
<1>3. op = [cmd |-> op.cmd, pc |-> op.pc, by |-> op.by, queue |-> op.queue, doc |-> op.doc]
  BY DEF LifecycleInv, OpInv
<1>4. OpInv'
  <2>1. CASE Release
    BY <2>1, Releases
  <2>2. CASE op.cmd \in Completing /\ op.pc = "write" /\ Goto("stop")
    <3>1. op' = [cmd |-> op.cmd, pc |-> "stop", by |-> op.by, queue |-> op.queue, doc |-> op.doc]
      BY <1>3, <2>2 DEF Goto
    <3>2. scanStatus' = "running"
      BY <1>1, <2>2 DEF LifecycleInv, OpInv
    <3>. QED BY <2>2, <3>1, <3>2, MovesOn
  <2>3. CASE op.pc = "publish" /\ WriteThenGoto("restore", op.doc, None)
    <3>1. op' = [cmd |-> op.cmd, pc |-> "restore", by |-> op.by, queue |-> op.doc, doc |-> None]
      BY <1>3, <2>3 DEF WriteThenGoto
    <3>2. scanStatus = "failed" /\ op.cmd \in Stopping /\ op.cmd \in Command
          /\ Restores(op.doc, checkpoints, evidence, FindingsOf(OnDisk))
      BY <2>3 DEF LifecycleInv, OpInv
    <3>3. OnDisk' = OnDisk /\ checkpoints' = checkpoints /\ evidence' = evidence
      BY <1>1 DEF OnDisk, SourcesIn, fileVars
    <3>4. Restores(op.doc, checkpoints', evidence', FindingsOf(OnDisk'))
      BY <3>2, <3>3
    <3>. QED BY <1>1, <3>1, <3>2, <3>4 DEF OpInv, Step
  <2>. QED BY <2>1, <2>2, <2>3 DEF WriteFails, Completing
<1>. QED BY <1>1, <1>2, <1>4, OnlyOpMoves DEF LifecycleInv, RowInv

LEMMA CrashKeeps == ASSUME LifecycleInv, Crash PROVE LifecycleInv'
<1>1. crashes' \in 0 .. MaxCrashes
  BY LifecycleAssumption DEF LifecycleInv, RowInv, Crash
<1>. QED BY <1>1, Releases, OnlyOpMoves DEF Crash

\* What can be read from the roots and the workers is made of findings.
LEMMA SourcesAreSources ==
  ASSUME NEW roots, roots \subseteq SUBSET Finding, NEW results, results \in [Worker -> SUBSET Finding]
  PROVE  SourcesOf(roots, results) \subseteq Source
<1> SUFFICES ASSUME NEW s \in SourcesOf(roots, results) PROVE s \in Source
  OBVIOUS
<1>1. CASE \E c \in roots : s = [owner |-> "root", findings |-> c]
  BY <1>1 DEF Source
<1>2. CASE \E w \in Worker : results[w] # {} /\ s = [owner |-> w, findings |-> results[w]]
  BY <1>2 DEF Source
<1>. QED BY <1>1, <1>2, SourcesMember

LEMMA SealedIsDocument ==
  ASSUME NEW status \in Outcome \cup {"completed"}, NEW sources \in SUBSET Source, NEW f \in SUBSET Finding
  PROVE  Sealed(status, sources, f) \in SealedDoc
<1>1. TRUE \in {TRUE}
  BY Zenon
<1>2. "sealed" \in {"sealed"}
  OBVIOUS
<1>. QED BY <1>1, <1>2, Zenon DEF Sealed, SealedDoc

\* The seal of a completion is good.
LEMMA CompletionSeal ==
  ASSUME NEW f \in SUBSET Finding, NEW roots, roots \subseteq SUBSET Finding, f \in roots,
         NEW results, results \in [Worker -> SUBSET Finding],
         NEW m, m = Sealed("completed", SourcesOf(roots, results), f \cup UNION {results[w] : w \in Worker})
  PROVE  m \in SealedDoc /\ GoodSeal(m, roots) /\ m.status = "completed"
<1> DEFINE found == f \cup UNION {results[w] : w \in Worker}
           sources == SourcesOf(roots, results)
<1>1. found \subseteq Finding /\ \A w \in Worker : results[w] \subseteq found
  OBVIOUS
<1>2. sources \subseteq Source
  BY SourcesAreSources
<1>3. found \subseteq FindingsOf(sources)
  BY DiskFindings
<1>4. \A s \in sources : IF s.owner = "root" THEN s.findings \in roots ELSE s.findings \subseteq found
  BY <1>1, SourcesMember, LifecycleAssumption
<1> HIDE DEF found, sources
<1>5. m = [kind |-> "sealed", complete |-> TRUE, status |-> "completed",
           sources |-> sources, findings |-> found, coverage |-> "completed"]
  BY DEF Sealed, found, sources
<1>6. m \in SealedDoc
  <2>1. "completed" \in Outcome \cup {"completed"} /\ found \in SUBSET Finding /\ sources \in SUBSET Source
    BY <1>1, <1>2
  <2>. QED BY <2>1, SealedIsDocument DEF found, sources
<1>7. m.status = "completed" /\ m.coverage = "completed" /\ m.sources = sources /\ m.findings = found
  BY <1>5
<1>. QED BY <1>3, <1>4, <1>6, <1>7, Zenon DEF GoodSeal

LEMMA MergeKeeps == ASSUME LifecycleInv, MergeForCompletion PROVE LifecycleInv'
<1>1. /\ UNCHANGED <<handoffVars, rowVars, runVars, findingsFile, coverageFile, manifestFile,
                     workerResult, evidence, crashes>>
      /\ op = [cmd |-> op.cmd, pc |-> op.pc, by |-> op.by, queue |-> op.queue, doc |-> op.doc]
      /\ op.cmd \in Completing /\ op.cmd \in Command /\ scanStatus = "running" /\ scanStatus' = "running"
  BY DEF LifecycleInv, OpInv, MergeForCompletion, rowVars, Completing
<1>2. CASE IsSealed /\ SealHolds /\ WriteThenGoto("commit", <<>>, None) /\ UNCHANGED checkpoints
  <2>1. op' = [cmd |-> op.cmd, pc |-> "commit", by |-> op.by, queue |-> <<>>, doc |-> None]
    BY <1>1, <1>2 DEF WriteThenGoto
  <2>2. SealHolds' /\ manifestFile'.status = "completed"
    BY <1>1, <1>2 DEF LifecycleInv, RunningInv, SealHolds, IsSealed
  <2>3. OpInv'
    BY <1>1, <2>1, <2>2 DEF OpInv, Step
  <2>. QED BY <1>1, <1>2, <2>3, OnlyOpMoves DEF LifecycleInv, RowInv, fileVars
<1>3. CASE CannotPrepare /\ UNCHANGED checkpoints
  <2>1. CASE Release
    BY <1>1, <1>3, <2>1, Releases, OnlyOpMoves DEF LifecycleInv, RowInv, fileVars
  <2>2. CASE Goto("stop")
    <3>1. op' = [cmd |-> op.cmd, pc |-> "stop", by |-> op.by, queue |-> op.queue, doc |-> op.doc]
      BY <1>1, <2>2 DEF Goto
    <3>2. OpInv'
      BY <1>1, <3>1, MovesOn
    <3>. QED BY <1>1, <1>3, <3>2, OnlyOpMoves DEF LifecycleInv, RowInv, fileVars
  <2>. QED BY <1>3, <2>1, <2>2 DEF CannotPrepare
<1>4. CASE /\ ~IsSealed /\ ParentReadable
           /\ checkpoints' = checkpoints \cup {findingsFile}
           /\ LET findings == findingsFile \cup UNION {workerResult[w] : w \in Worker}
              IN WriteThenGoto("write",
                   ThreeFiles(findings, "completed",
                              Sealed("completed", SourcesIn(checkpoints'), findings)), None)
  <2> DEFINE found == findingsFile \cup UNION {workerResult[w] : w \in Worker}
             m == Sealed("completed", SourcesOf(checkpoints', workerResult), found)
  <2>1. /\ findingsFile \in SUBSET Finding /\ workerResult \in [Worker -> SUBSET Finding]
        /\ checkpoints' \subseteq SUBSET Finding /\ findingsFile \in checkpoints'
        /\ checkpoints \subseteq checkpoints'
    BY <1>4 DEF LifecycleInv, DocumentsInv, ParentReadable
  <2>2. m \in SealedDoc /\ GoodSeal(m, checkpoints') /\ m.status = "completed"
    BY <2>1, CompletionSeal
  <2>3. m.findings = found /\ m.coverage = "completed"
    BY DEF Sealed
  <2>4. SourcesIn(checkpoints') = SourcesOf(checkpoints', workerResult)
    BY DEF SourcesIn, SourcesOf
  <2>5. op' = [cmd |-> op.cmd, pc |-> "write", by |-> op.by,
               queue |-> ThreeFiles(m.findings, m.coverage, m), doc |-> None]
    BY <1>1, <1>4, <2>3, <2>4 DEF WriteThenGoto
  <2> HIDE DEF m
  <2>6. WritesCompletion(op'.queue, checkpoints', findingsFile', coverageFile')
    BY <2>2, <2>5 DEF WritesCompletion, Writes
  <2>7. OpInv'
    BY <1>1, <2>5, <2>6 DEF OpInv, Step
  <2>8. DocumentsInv'
    BY <1>1, <2>1, SealsLast DEF LifecycleInv, DocumentsInv
  <2>9. HandoffTypeOK' /\ RowInv' /\ RunningInv' /\ CompleteInv' /\ FailedInv'
    BY <1>1 DEF LifecycleInv, HandoffTypeOK, handoffVars, RowInv, rowVars, runVars, RunningInv, IsSealed,
       CompleteInv, FailedInv
  <2>. QED BY <2>7, <2>8, <2>9 DEF LifecycleInv
<1>. QED BY <1>2, <1>3, <1>4 DEF MergeForCompletion

LEMMA CommitKeeps == ASSUME LifecycleInv, CommitCompletion PROVE LifecycleInv'
<1>1. /\ scanStatus = "running" /\ SealHolds /\ manifestFile.status = "completed" /\ ~canceled
      /\ frozen = None /\ sealDigest = None
  BY DEF LifecycleInv, OpInv, RunningInv, CommitCompletion
<1>2. OpInv' /\ Idle'
  BY Releases DEF CommitCompletion
<1>3. UNCHANGED <<handoffVars, canceled, frozen, followUp, runVars, fileVars, evidence, crashes>>
  BY DEF CommitCompletion
<1>4. CASE /\ DeepScanReady
           /\ scanStatus' = "complete" /\ sealDigest' = manifestFile /\ indexed' = findingsFile
  <2>1. indexed' \subseteq Finding
    <3>1. manifestFile \in SealedDoc
      BY <1>1, ManifestKinds DEF LifecycleInv, DocumentsInv, GoodManifest, GoodSeal, SealHolds, IsSealed
    <3>2. manifestFile.findings \subseteq Finding
      BY <3>1 DEF SealedDoc
    <3>. QED BY <1>1, <1>4, <3>2 DEF SealHolds
  <2>2. SealHolds' /\ manifestFile' = manifestFile /\ findingsFile' = findingsFile
    BY <1>1, <1>3 DEF SealHolds, IsSealed, fileVars
  <2>3. HandoffTypeOK' /\ DocumentsInv'
    BY <1>3 DEF LifecycleInv, HandoffTypeOK, handoffVars, DocumentsInv, fileVars
  <2>4. RowInv'
    BY <1>3, <1>4, <2>1 DEF LifecycleInv, RowInv, runVars
  <2>5. CompleteInv'
    BY <1>1, <1>2, <1>3, <1>4, <2>2 DEF CompleteInv, DeepScanReady, handoffVars, runVars
  <2>6. RunningInv' /\ FailedInv'
    BY <1>4 DEF RunningInv, FailedInv
  <2>. QED BY <1>2, <2>3, <2>4, <2>5, <2>6 DEF LifecycleInv
<1>5. CASE UNCHANGED <<scanStatus, sealDigest, indexed>>
  BY <1>2, <1>3, <1>5, OnlyOpMoves DEF LifecycleInv, RowInv, rowVars
<1>. QED BY <1>4, <1>5 DEF CommitCompletion

LEMMA CompletionFailsKeeps == ASSUME LifecycleInv, CompletionFailsScan PROVE LifecycleInv'
<1>1. CASE /\ scanStatus = "running"
           /\ op' = [NoOp EXCEPT !.cmd = "fail", !.by = op.by, !.pc = "preserve"]
           /\ runStatus' = IF runStatus = "running" THEN "failed" ELSE runStatus
           /\ StopsScan /\ UNCHANGED canceled
  <2>1. op' = [cmd |-> "fail", pc |-> "preserve", by |-> op.by, queue |-> <<>>, doc |-> None]
    BY <1>1 DEF NoOp
  <2>2. scanStatus' = "failed"
    BY <1>1 DEF StopsScan
  <2>3. OpInv'
    BY <2>1, <2>2, MovesOn DEF Stopping
  <2>4. canceled' \in BOOLEAN
    BY <1>1, Zenon DEF LifecycleInv, RowInv
  <2>5. runStatus' \in {"running", "none", "succeeded", "failed", "canceled", "interrupted"}
    BY <1>1 DEF LifecycleInv, RowInv
  <2>. QED BY <1>1, <2>3, <2>4, <2>5, Stops
<1>2. CASE Release /\ UNCHANGED <<handoffVars, rowVars, runVars, fileVars, evidence, crashes>>
  BY <1>2, Releases, OnlyOpMoves DEF LifecycleInv, RowInv
<1>. QED BY <1>1, <1>2 DEF CompletionFailsScan

LEMMA StopOutcomeIsOutcome == StopOutcome \in Outcome
BY DEF StopOutcome, Outcome

LEMMA AlreadyPublishedKeeps == ASSUME LifecycleInv, AlreadyPublished PROVE LifecycleInv'
<1>1. /\ UNCHANGED <<handoffVars, rowVars, runVars, fileVars, evidence, crashes>>
      /\ op = [cmd |-> op.cmd, pc |-> op.pc, by |-> op.by, queue |-> op.queue, doc |-> op.doc]
      /\ op.cmd \in Stopping /\ op.cmd \in Command /\ scanStatus = "failed" /\ scanStatus' = "failed"
  BY DEF LifecycleInv, OpInv, AlreadyPublished, rowVars
<1>2. SealHolds /\ manifestFile.status # "completed"
  BY StopOutcomeIsOutcome DEF AlreadyPublished, SealVerified, SameOutcome, Outcome
<1>3. OpInv'
  <2>1. CASE Goto("clear")
    <3>1. op' = [cmd |-> op.cmd, pc |-> "clear", by |-> op.by, queue |-> op.queue, doc |-> op.doc]
      BY <1>1, <2>1 DEF Goto
    <3>. QED BY <1>1, <3>1, MovesOn
  <2>2. CASE Goto("record")
    <3>1. op' = [cmd |-> op.cmd, pc |-> "record", by |-> op.by, queue |-> op.queue, doc |-> op.doc]
      BY <1>1, <2>2 DEF Goto
    <3>2. SealHolds' /\ manifestFile'.status # "completed"
      BY <1>1, <1>2 DEF SealHolds, IsSealed, fileVars
    <3>. QED BY <1>1, <3>1, <3>2 DEF OpInv, Step
  <2>. QED BY <2>1, <2>2 DEF AlreadyPublished
<1>. QED BY <1>1, <1>3, OnlyOpMoves DEF LifecycleInv, RowInv

\* A publication that cannot go on.
LEMMA PublicationFailsMoves ==
  ASSUME LifecycleInv, op.pc = "preserve", PublicationFails, scanStatus' = scanStatus
  PROVE  OpInv'
<1>1. /\ op = [cmd |-> op.cmd, pc |-> op.pc, by |-> op.by, queue |-> op.queue, doc |-> op.doc]
      /\ op.cmd \in Stopping /\ scanStatus = "failed"
  BY DEF LifecycleInv, OpInv
<1>2. CASE Release
  BY <1>2, Releases
<1>3. CASE Goto("warn")
  <2>1. op' = [cmd |-> op.cmd, pc |-> "warn", by |-> op.by, queue |-> op.queue, doc |-> op.doc]
    BY <1>1, <1>3 DEF Goto
  <2>. QED BY <1>1, <2>1, MovesOn
<1>. QED BY <1>2, <1>3 DEF PublicationFails

LEMMA CannotVerifyKeeps == ASSUME LifecycleInv, CannotVerify PROVE LifecycleInv'
<1>1. OpInv'
  BY PublicationFailsMoves DEF CannotVerify, rowVars
<1>. QED BY <1>1, BusyIsNotComplete, OnlyOpMoves DEF CannotVerify, LifecycleInv, RowInv

LEMMA SealedSources ==
  ASSUME NEW m \in SealedDoc
  PROVE  m.sources \subseteq Source /\ m.sources # None /\ m.findings \subseteq Finding
         /\ m.findings # None /\ m.coverage # None
<1>1. m.sources \subseteq Source /\ m.findings \subseteq Finding /\ m.coverage \in Outcome \cup {"completed"}
  BY DEF SealedDoc
<1>. QED BY <1>1, NullAssumption

LEMMA FreezeKeeps == ASSUME LifecycleInv, FreezeSources PROVE LifecycleInv'
<1>1. /\ UNCHANGED <<handoffVars, scanStatus, canceled, sealDigest, followUp, indexed, runVars,
                     fileVars, evidence, crashes>>
      /\ op = [cmd |-> op.cmd, pc |-> op.pc, by |-> op.by, queue |-> op.queue, doc |-> op.doc]
      /\ op.cmd \in Stopping /\ op.cmd \in Command /\ scanStatus = "failed" /\ scanStatus' = "failed"
      /\ frozen = None
      /\ WritesStopped(op.queue, checkpoints, evidence, findingsFile, coverageFile)
      /\ Restores(op.doc, checkpoints, evidence, FindingsOf(OnDisk))
  BY DEF LifecycleInv, OpInv, FreezeSources
<1> DEFINE q == op.queue[3][2]
<1>2. q \in SealedDoc /\ op.queue = ThreeFiles(q.findings, q.coverage, q)
  BY DEF LifecycleInv, OpInv, FreezeSources
<1> HIDE DEF q
<1>3. StoppedSeal(q, checkpoints, evidence)
  <2>1. PICK m \in SealedDoc : /\ StoppedSeal(m, checkpoints, evidence)
                               /\ Writes(op.queue, m.findings, m.coverage, m, findingsFile, coverageFile)
    BY <1>1 DEF WritesStopped
  <2>2. Len(op.queue) = 3
    BY <1>2, ThreeFilesShape
  <2>3. Len(Rest2(m.coverage, m)) = 2 /\ Len(Rest1(m)) = 1
    BY ThreeFilesShape
  <2>4. op.queue = ThreeFiles(m.findings, m.coverage, m)
    BY <2>1, <2>2, <2>3 DEF Writes
  <2>5. q = m
    BY <2>4, ThreeFilesShape DEF q
  <2>. QED BY <2>1, <2>5
<1>4. frozen' = q.sources
  BY DEF FreezeSources, q
<1>5. sealDigest = None
  <2>1. sealDigest # None => sealDigest \in SealedDoc /\ frozen = sealDigest.sources
    BY <1>1 DEF LifecycleInv, FailedInv, StoppedSeal, GoodSeal
  <2>. QED BY <1>1, <2>1, SealedSources
<1>6. HandoffTypeOK' /\ DocumentsInv' /\ RowInv'
  BY <1>1, <1>2, <1>4, SealedSources DEF LifecycleInv, HandoffTypeOK, handoffVars, DocumentsInv, fileVars,
     RowInv, runVars
<1>7. evidence' \subseteq EvidenceOnDisk'
  BY <1>1 DEF LifecycleInv, FailedInv, EvidenceOnDisk, OnDisk, SourcesIn, ParentReadable, fileVars
<1>8. evidence \subseteq FindingsOf(q.sources)
  BY <1>3 DEF StoppedSeal
<1>9. RunningInv' /\ CompleteInv' /\ FailedInv'
  BY <1>1, <1>4, <1>5, <1>7, <1>8 DEF RunningInv, CompleteInv, FailedInv
<1>10. OpInv'
  <2>1. op' = [cmd |-> op.cmd, pc |-> "publish", by |-> op.by, queue |-> op.queue, doc |-> op.doc]
    BY <1>1 DEF FreezeSources, Goto
  <2>2. OnDisk' = OnDisk /\ UNCHANGED <<checkpoints, evidence, findingsFile, coverageFile>>
    BY <1>1 DEF OnDisk, SourcesIn, fileVars
  <2>. QED BY <1>1, <2>1, <2>2 DEF OpInv, Step
<1>. QED BY <1>6, <1>9, <1>10 DEF LifecycleInv

LEMMA RecordKeeps == ASSUME LifecycleInv, RecordPublication PROVE LifecycleInv'
<1>1. /\ UNCHANGED <<handoffVars, scanStatus, canceled, runVars, fileVars, evidence, crashes>>
      /\ op = [cmd |-> op.cmd, pc |-> op.pc, by |-> op.by, queue |-> op.queue, doc |-> op.doc]
      /\ op.cmd \in Stopping /\ scanStatus = "failed" /\ scanStatus' = "failed"
      /\ SealHolds /\ manifestFile.status # "completed"
      /\ sealDigest' = manifestFile /\ frozen' = manifestFile.sources /\ indexed' = findingsFile
      /\ followUp' = FALSE
  BY DEF LifecycleInv, OpInv, RecordPublication
<1>2. StoppedSeal(manifestFile, checkpoints, evidence) /\ manifestFile \in SealedDoc
  BY <1>1, ManifestKinds DEF LifecycleInv, DocumentsInv, GoodManifest, GoodSeal, SealHolds, IsSealed
<1>3. findingsFile = manifestFile.findings
  BY <1>1 DEF SealHolds
<1>4. followUp' \in BOOLEAN
  BY <1>1, Zenon
<1>5. HandoffTypeOK' /\ DocumentsInv' /\ RowInv'
  BY <1>1, <1>2, <1>3, <1>4, SealedSources DEF LifecycleInv, HandoffTypeOK, handoffVars, DocumentsInv, fileVars,
     RowInv, runVars
<1>6. evidence' \subseteq EvidenceOnDisk'
  BY <1>1 DEF LifecycleInv, FailedInv, EvidenceOnDisk, OnDisk, SourcesIn, ParentReadable, fileVars
<1>7. evidence \subseteq FindingsOf(manifestFile.sources)
  BY <1>2 DEF StoppedSeal
<1>8. RunningInv' /\ CompleteInv' /\ FailedInv'
  BY <1>1, <1>2, <1>3, <1>6, <1>7 DEF RunningInv, CompleteInv, FailedInv, fileVars
<1>9. OpInv'
  <2>1. op' = [cmd |-> op.cmd, pc |-> "clear", by |-> op.by, queue |-> op.queue, doc |-> op.doc]
    BY <1>1 DEF RecordPublication, Goto
  <2>. QED BY <1>1, <2>1, MovesOn
<1>. QED BY <1>5, <1>8, <1>9 DEF LifecycleInv

\* The last steps of a publication release the lock and write a flag.
LEMMA LastStepsKeep ==
  ASSUME LifecycleInv, ClearPublicationFailure \/ WarnOfPublication
  PROVE  LifecycleInv'
<1>1. UNCHANGED <<handoffVars, scanStatus, canceled, sealDigest, frozen, indexed, runStatus, fileVars,
                  evidence, crashes>>
  BY DEF ClearPublicationFailure, WarnOfPublication, rowVars, runVars
<1>2. followUp' \in BOOLEAN /\ publicationError' \in BOOLEAN
  BY Zenon DEF LifecycleInv, RowInv, ClearPublicationFailure, WarnOfPublication, rowVars, runVars
<1>3. OpInv' /\ Idle'
  BY Releases DEF ClearPublicationFailure, WarnOfPublication
<1>4. HandoffTypeOK' /\ DocumentsInv' /\ RowInv'
  BY <1>1, <1>2 DEF LifecycleInv, HandoffTypeOK, handoffVars, DocumentsInv, fileVars, RowInv
<1>5. scanStatus = "failed"
  BY DEF LifecycleInv, OpInv, ClearPublicationFailure, WarnOfPublication
<1>6. evidence' \subseteq EvidenceOnDisk'
  BY <1>1, <1>5 DEF LifecycleInv, FailedInv, EvidenceOnDisk, OnDisk, SourcesIn, ParentReadable, fileVars
<1>7. RunningInv' /\ CompleteInv' /\ FailedInv'
  BY <1>1, <1>5, <1>6 DEF LifecycleInv, RunningInv, CompleteInv, FailedInv, fileVars
<1>. QED BY <1>3, <1>4, <1>7 DEF LifecycleInv

-----------------------------------------------------------------------------
(* Merging what a stopped scan saved.                                      *)

\* A recovery is always limited to sources.
LEMMA RecoveryIsLimited ==
  ASSUME LifecycleInv, op.cmd = "recover"
  PROVE  FrozenSources = RecoverySources /\ FrozenSources # None
<1>1. OnDisk \subseteq Source
  <2>1. OnDisk = SourcesOf(checkpoints, workerResult)
    BY DEF OnDisk, SourcesIn, SourcesOf
  <2>. QED BY <2>1, SourcesAreSources DEF LifecycleInv, DocumentsInv
<1>2. RecoveryBase \subseteq Source
  <2>1. IsSealed => manifestFile.sources \subseteq Source
    BY ManifestKinds, SealedSources DEF LifecycleInv, DocumentsInv, GoodManifest, GoodSeal, IsSealed
  <2>. QED BY <2>1 DEF RecoveryBase, PublishedSources, LifecycleInv, RowInv
<1>3. RecoverySources \in SUBSET Source
  BY <1>1, <1>2 DEF RecoverySources
<1>4. RecoverySources # None
  BY <1>3, NullAssumption
<1>. QED BY <1>4 DEF FrozenSources

\* The manifest a merge reads beside the findings: its sources hold nothing else.
LEMMA ParentManifest ==
  ASSUME LifecycleInv, MayMerge, ParentReadable
  PROVE  \/ manifestFile \in DraftDoc /\ ~IsSealed /\ manifestFile.sources = {}
         \/ /\ IsSealed /\ GoodSeal(manifestFile, checkpoints) /\ findingsFile = manifestFile.findings
            /\ manifestFile.status # "completed" => FindingsOf(manifestFile.sources) = findingsFile
<1>1. CASE manifestFile \in DraftDoc
  BY <1>1, ManifestKinds DEF IsSealed
<1>2. CASE manifestFile \notin DraftDoc
  <2>1. GoodSeal(manifestFile, checkpoints)
        /\ (manifestFile.status # "completed" => StoppedSeal(manifestFile, checkpoints, evidence))
    BY <1>2 DEF LifecycleInv, DocumentsInv, GoodManifest, ParentReadable
  <2>2. IsSealed
    BY <2>1, ManifestKinds DEF IsSealed, GoodSeal
  <2>3. findingsFile = manifestFile.findings
    BY <2>2 DEF MayMerge, SealVerified, SealHolds
  <2>. QED BY <2>1, <2>2, <2>3 DEF StoppedSeal
<1>. QED BY <1>1, <1>2

LEMMA FindingsOfUnion ==
  ASSUME NEW some, NEW others
  PROVE  /\ FindingsOf(some \cup others) = FindingsOf(some) \cup FindingsOf(others)
         /\ FindingsOf({}) = {}
BY DEF FindingsOf

LEMMA FindingsBounded ==
  ASSUME NEW sources, NEW all, \A s \in sources : s.findings \subseteq all
  PROVE  FindingsOf(sources) \subseteq all
BY DEF FindingsOf

\* What MergeStoppedResults computes on its way.
SavedRoots == IF ParentIsSaved THEN checkpoints \cup {findingsFile} ELSE checkpoints
SavedLimit ==
    IF FrozenSources = None THEN SourcesOf(SavedRoots, workerResult)
    ELSE FrozenSources \cup (IF ParentIsSaved THEN {[owner |-> "root", findings |-> findingsFile]} ELSE {})
Chosen == SourcesOf(SavedRoots, workerResult) \cap SavedLimit
Named == Chosen \cup (IF ParentIsRead THEN manifestFile.sources ELSE {})
Found == FindingsOf(Chosen) \cup (IF ParentIsRead THEN findingsFile ELSE {})
StoppedManifest == Sealed(StopOutcome, Named, Found)

\* The seal of a stopped scan is good and holds all the evidence.
LEMMA MergedSeal ==
  ASSUME LifecycleInv, op.pc = "preserve", MayMerge, SavedLimit \subseteq Chosen
  PROVE  /\ StoppedManifest \in SealedDoc /\ StoppedSeal(StoppedManifest, SavedRoots, evidence)
         /\ StoppedManifest.findings = Found /\ StoppedManifest.coverage = StopOutcome
<1> DEFINE m == StoppedManifest
<1>a. /\ Chosen \subseteq SourcesOf(SavedRoots, workerResult)
      /\ FrozenSources = None => Chosen = SourcesOf(SavedRoots, workerResult)
      /\ FrozenSources # None => FrozenSources \subseteq Chosen
  BY DEF Chosen, SavedLimit
<1>b. Chosen \subseteq Named /\ FindingsOf(Chosen) \subseteq Found
      /\ (ParentIsRead => manifestFile.sources \subseteq Named /\ findingsFile \subseteq Found)
  BY DEF Named, Found
<1>0. /\ checkpoints \subseteq SUBSET Finding /\ workerResult \in [Worker -> SUBSET Finding]
      /\ scanStatus = "failed"
      /\ ParentReadable => findingsFile \subseteq Finding
      /\ ParentIsRead => ParentReadable
      /\ ParentIsSaved => ParentIsRead
  BY DEF LifecycleInv, DocumentsInv, OpInv, ParentReadable, ParentIsRead, ParentIsSaved
<1>1. SavedRoots \subseteq SUBSET Finding /\ checkpoints \subseteq SavedRoots
  BY <1>0 DEF SavedRoots
<1>2. SourcesOf(SavedRoots, workerResult) \subseteq Source
  BY <1>0, <1>1, SourcesAreSources
<1>4. FindingsOf(Chosen) \subseteq Finding
  <2>1. \A s \in Chosen : s.findings \subseteq Finding
    BY <1>2, <1>a DEF Source
  <2>. QED BY <2>1, FindingsBounded
<1>5. Found \in SUBSET Finding
  BY <1>0, <1>4 DEF Found
<1>6. Named \in SUBSET Source
  <2>1. ParentIsRead => manifestFile.sources \subseteq Source
    BY <1>0, ParentManifest, SealedSources DEF GoodSeal
  <2>. QED BY <1>2, <1>a, <2>1 DEF Named
<1>7. m \in SealedDoc
  BY <1>5, <1>6, StopOutcomeIsOutcome, SealedIsDocument DEF StoppedManifest
<1>8. m.coverage = m.status /\ m.status = StopOutcome /\ m.status # "completed"
      /\ m.findings = Found /\ m.sources = Named
  BY StopOutcomeIsOutcome DEF StoppedManifest, Sealed, Outcome
<1> HIDE DEF m
<1>9. FindingsOf(Named) \subseteq Found
  <2> SUFFICES ASSUME ParentIsRead PROVE FindingsOf(manifestFile.sources) \subseteq Found
    <3>1. FindingsOf(Named) = FindingsOf(Chosen) \cup FindingsOf(IF ParentIsRead THEN manifestFile.sources ELSE {})
      BY FindingsOfUnion DEF Named
    <3>2. FindingsOf({}) = {}
      BY FindingsOfUnion
    <3>. QED BY <1>b, <3>1, <3>2
  <2> SUFFICES ASSUME NEW s \in manifestFile.sources PROVE s.findings \subseteq Found
    BY FindingsBounded
  <2>1. CASE ~IsSealed
    BY <1>0, <2>1, ParentManifest
  <2>2. CASE IsSealed
    <3>1. GoodSeal(manifestFile, checkpoints) /\ findingsFile = manifestFile.findings
      BY <1>0, <2>2, ParentManifest
    <3>2. CASE s.owner # "root"
      BY <1>b, <3>1, <3>2 DEF GoodSeal
    <3>3. CASE s.owner = "root"
      <4>1. FrozenSources = None
        BY <2>2 DEF ParentIsRead, RecoveryIncludesParent, PublishedSources
      <4>2. s.findings \in checkpoints
        BY <3>1, <3>3 DEF GoodSeal
      <4>3. Chosen = SourcesOf(SavedRoots, workerResult)
        BY <1>a, <4>1
      <4>4. s.findings \subseteq FindingsOf(SourcesOf(SavedRoots, workerResult))
        BY <1>1, <4>2, DiskFindings
      <4>. QED BY <1>b, <4>3, <4>4
    <3>. QED BY <3>2, <3>3
  <2>. QED BY <2>1, <2>2
<1>10. Found \subseteq FindingsOf(Named)
  <2> SUFFICES ASSUME ParentIsRead PROVE findingsFile \subseteq FindingsOf(Named)
    <3>1. FindingsOf(Chosen) \subseteq FindingsOf(Named)
      BY <1>b, FindingsOfMember
    <3>. QED BY <3>1 DEF Found
  <2>1. CASE ParentIsSaved
    <3> DEFINE s == [owner |-> "root", findings |-> findingsFile]
    <3>1. s \in SourcesOf(SavedRoots, workerResult)
      BY <2>1, SourcesMember DEF SavedRoots
    <3>2. s \in Chosen
      BY <2>1, <3>1 DEF Chosen, SavedLimit
    <3>3. s \in Named /\ s.findings = findingsFile
      BY <1>b, <3>2
    <3>. QED BY <3>3, FindingsOfMember
  <2>2. CASE ~ParentIsSaved
    <3>1. IsSealed
      BY <2>2 DEF ParentIsSaved
    <3>2. findingsFile \subseteq FindingsOf(manifestFile.sources)
      BY <1>0, <3>1, ParentManifest DEF GoodSeal
    <3>3. manifestFile.sources \subseteq Named
      BY <1>b
    <3>. QED BY <3>2, <3>3, FindingsOfMember
  <2>. QED BY <2>1, <2>2
<1>11. \A s \in Named : IF s.owner = "root" THEN s.findings \in SavedRoots ELSE s.findings \subseteq Found
  <2>1. ASSUME NEW s \in Chosen
        PROVE  IF s.owner = "root" THEN s.findings \in SavedRoots ELSE s.findings \subseteq Found
    <3>1. s.findings \subseteq Found
      BY <1>b, FindingsOfMember
    <3>2. s.owner = "root" => s.findings \in SavedRoots
      BY <1>a, SourcesMember, LifecycleAssumption
    <3>. QED BY <3>1, <3>2
  <2>2. ASSUME ParentIsRead, NEW s \in manifestFile.sources
        PROVE  IF s.owner = "root" THEN s.findings \in SavedRoots ELSE s.findings \subseteq Found
    <3>1. CASE ~IsSealed
      BY <1>0, <2>2, <3>1, ParentManifest
    <3>2. CASE IsSealed
      <4>1. manifestFile.findings \subseteq Found /\ GoodSeal(manifestFile, checkpoints)
        BY <1>0, <1>b, <2>2, <3>2, ParentManifest
      <4>. QED BY <1>1, <2>2, <4>1 DEF GoodSeal
    <3>. QED BY <3>1, <3>2
  <2>. QED BY <2>1, <2>2 DEF Named
<1>12. evidence \subseteq Found
  <2>1. evidence \subseteq FindingsOf(OnDisk) \cup (IF ParentReadable THEN findingsFile ELSE {})
        /\ (frozen # None => evidence \subseteq FindingsOf(frozen))
    BY <1>0 DEF LifecycleInv, FailedInv, EvidenceOnDisk
  <2>2. OnDisk = SourcesOf(checkpoints, workerResult)
    BY DEF OnDisk, SourcesIn, SourcesOf
  <2>3. CASE FrozenSources = None
    <3>1. Chosen = SourcesOf(SavedRoots, workerResult) /\ (ParentReadable => ParentIsRead)
      BY <1>a, <2>3 DEF ParentIsRead
    <3>2. FindingsOf(OnDisk) \subseteq FindingsOf(Chosen)
      BY <1>1, <2>2, <3>1, SourcesGrow
    <3>. QED BY <1>b, <2>1, <3>1, <3>2
  <2>4. CASE FrozenSources # None /\ op.cmd # "recover"
    <3>1. frozen # None /\ frozen \subseteq Chosen
      BY <1>a, <2>4 DEF FrozenSources
    <3>2. FindingsOf(frozen) \subseteq Found
      BY <1>b, <3>1, FindingsOfMember
    <3>. QED BY <2>1, <3>1, <3>2
  <2>5. CASE op.cmd = "recover"
    <3>1. RecoveryBase \subseteq Chosen /\ OnDisk \subseteq Chosen
      BY <1>a, <2>5, RecoveryIsLimited DEF RecoverySources
    <3>2. FindingsOf(OnDisk) \subseteq Found
      BY <1>b, <3>1, FindingsOfMember
    <3>3. CASE ~ParentReadable
      BY <2>1, <3>2, <3>3
    <3>4. CASE ParentReadable /\ RecoveryIncludesParent
      <4>1. ParentIsRead
        BY <2>5, <3>4 DEF ParentIsRead
      <4>. QED BY <1>b, <2>1, <3>2, <3>4, <4>1
    <3>5. CASE ParentReadable /\ ~RecoveryIncludesParent /\ IsSealed
      <4>1. RecoveryBase = manifestFile.sources
        BY <3>5 DEF RecoveryBase, PublishedSources, RecoveryIncludesParent
      <4>2. findingsFile \subseteq FindingsOf(manifestFile.sources)
        BY <3>5, ParentManifest DEF GoodSeal
      <4>3. FindingsOf(manifestFile.sources) \subseteq Found
        BY <1>b, <3>1, <4>1, FindingsOfMember
      <4>. QED BY <2>1, <3>2, <4>2, <4>3
    <3>6. CASE ~RecoveryIncludesParent /\ ~IsSealed
      <4>1. frozen # None /\ RecoveryBase = frozen
        BY <3>6 DEF RecoveryBase, PublishedSources, RecoveryIncludesParent
      <4>2. FindingsOf(frozen) \subseteq Found
        BY <1>b, <3>1, <4>1, FindingsOfMember
      <4>. QED BY <2>1, <4>1, <4>2
    <3>. QED BY <3>3, <3>4, <3>5, <3>6
  <2>. QED BY <2>3, <2>4, <2>5
<1>13. GoodSeal(m, SavedRoots)
  <2>1. m.findings \subseteq FindingsOf(m.sources)
    BY <1>8, <1>10, Zenon
  <2>2. \A s \in m.sources : IF s.owner = "root" THEN s.findings \in SavedRoots ELSE s.findings \subseteq m.findings
    BY <1>8, <1>11, Zenon
  <2>. QED BY <1>7, <1>8, <2>1, <2>2, Zenon DEF GoodSeal
<1>14. FindingsOf(m.sources) = m.findings
  <2>1. FindingsOf(Named) = Found
    BY <1>9, <1>10, Zenon
  <2>. QED BY <1>8, <2>1, Zenon
<1>15. StoppedSeal(m, SavedRoots, evidence)
  BY <1>8, <1>12, <1>13, <1>14, Zenon DEF StoppedSeal
<1>. QED BY <1>7, <1>8, <1>15 DEF m

LEMMA MergeStoppedKeeps == ASSUME LifecycleInv, MergeStoppedResults PROVE LifecycleInv'
<1>1. /\ UNCHANGED <<handoffVars, rowVars, runVars, findingsFile, coverageFile, manifestFile,
                     workerResult, evidence, crashes>>
      /\ op.pc = "preserve" /\ MayMerge
  BY DEF MergeStoppedResults
<1>2. /\ op = [cmd |-> op.cmd, pc |-> op.pc, by |-> op.by, queue |-> op.queue, doc |-> op.doc]
      /\ op.cmd \in Stopping /\ op.cmd \in Command /\ scanStatus = "failed" /\ scanStatus' = "failed"
  BY <1>1 DEF LifecycleInv, OpInv, rowVars
<1>3. SourcesIn(SavedRoots) = SourcesOf(SavedRoots, workerResult)
      /\ OnDisk' = SourcesOf(SavedRoots, workerResult)
      /\ checkpoints' = SavedRoots
  <2>1. checkpoints' = SavedRoots
    BY DEF MergeStoppedResults, SavedRoots
  <2>. QED BY <1>1, <2>1 DEF SourcesIn, SourcesOf, OnDisk
<1>4. \/ /\ SavedLimit \subseteq Chosen
         /\ op' = [op EXCEPT !.pc = IF FrozenSources = None THEN "freeze" ELSE "publish",
                     !.queue = ThreeFiles(Found, StopOutcome, StoppedManifest),
                     !.doc = ThreeFiles(findingsFile, coverageFile, manifestFile)]
      \/ Release
      \/ PublicationFails
  BY <1>3 DEF MergeStoppedResults, SavedLimit, Chosen, Named, Found, StoppedManifest, SavedRoots
<1>5. checkpoints \subseteq checkpoints' /\ checkpoints' \subseteq SUBSET Finding
  BY <1>3 DEF SavedRoots, ParentIsSaved, ParentIsRead, ParentReadable, LifecycleInv, DocumentsInv
<1>6. FindingsOf(OnDisk) \subseteq FindingsOf(OnDisk')
  BY <1>1, <1>5, DiskGrows
<1>7. HandoffTypeOK' /\ DocumentsInv' /\ RowInv'
  BY <1>1, <1>5, SealsLast DEF LifecycleInv, HandoffTypeOK, handoffVars, DocumentsInv, RowInv, rowVars, runVars
<1>8. evidence' \subseteq EvidenceOnDisk'
  BY <1>1, <1>2, <1>6 DEF LifecycleInv, FailedInv, EvidenceOnDisk, ParentReadable
<1>9. RunningInv' /\ CompleteInv' /\ FailedInv'
  <2>1. sealDigest # None => StoppedSeal(sealDigest, checkpoints', evidence)
    BY <1>2, <1>5, SealsLast DEF LifecycleInv, FailedInv
  <2>. QED BY <1>1, <1>2, <1>8, <2>1 DEF LifecycleInv, RunningInv, CompleteInv, FailedInv, rowVars
<1>10. OpInv'
  <2>1. CASE Release
    BY <2>1, Releases
  <2>2. CASE PublicationFails
    BY <1>1, <1>2, <2>2, PublicationFailsMoves
  <2>3. CASE /\ SavedLimit \subseteq Chosen
             /\ op' = [op EXCEPT !.pc = IF FrozenSources = None THEN "freeze" ELSE "publish",
                         !.queue = ThreeFiles(Found, StopOutcome, StoppedManifest),
                         !.doc = ThreeFiles(findingsFile, coverageFile, manifestFile)]
    <3> DEFINE m == StoppedManifest
               queue == ThreeFiles(m.findings, m.coverage, m)
               doc == ThreeFiles(findingsFile, coverageFile, manifestFile)
    <3>1. /\ m \in SealedDoc /\ StoppedSeal(m, checkpoints', evidence')
          /\ m.findings = Found /\ m.coverage = StopOutcome
      BY <1>1, <1>3, <2>3, MergedSeal
    <3>2. op' = [cmd |-> op.cmd, pc |-> IF FrozenSources = None THEN "freeze" ELSE "publish", by |-> op.by,
                 queue |-> queue, doc |-> doc]
      BY <1>2, <2>3, <3>1
    <3>3. queue[3][2] = m
      BY ThreeFilesShape
    <3>4. FrozenSources = None => frozen' = None
      BY <1>1, RecoveryIsLimited DEF FrozenSources, rowVars
    <3>5. Restores(doc, checkpoints', evidence', FindingsOf(OnDisk'))
      <4>1. /\ findingsFile \in (SUBSET Finding) \cup {None} /\ coverageFile \in CoverageDoc \cup {None}
            /\ GoodManifest(manifestFile, checkpoints', evidence')
        BY <1>1, <1>5, SealsLast DEF LifecycleInv, DocumentsInv
      <4>2. \/ evidence' \subseteq FindingsOf(OnDisk')
            \/ /\ findingsFile # None /\ coverageFile # None /\ manifestFile # None
               /\ evidence' \subseteq FindingsOf(OnDisk') \cup findingsFile
        BY <1>1, <1>8 DEF EvidenceOnDisk, ParentReadable
      <4>3. \E m1 \in ManifestDoc : /\ doc \in {ThreeFiles(findingsFile, coverageFile, m1), Rest2(coverageFile, m1), Rest1(m1)}
                    /\ GoodManifest(m1, checkpoints', evidence')
                    /\ \/ evidence' \subseteq FindingsOf(OnDisk')
                       \/ /\ findingsFile # None /\ coverageFile # None /\ m1 # None
                          /\ evidence' \subseteq FindingsOf(OnDisk') \cup findingsFile
        BY <4>1, <4>2, ManifestsAreDocs
      <4> HIDE DEF doc
      <4>. QED BY <4>1, <4>3, Zenon DEF Restores
    <3> HIDE DEF m, doc
    <3>6. WritesStopped(queue, checkpoints', evidence', findingsFile', coverageFile')
      BY <3>1 DEF WritesStopped, Writes
    <3> HIDE DEF queue
    <3>7. /\ op'.cmd = op.cmd /\ op'.queue = queue /\ op'.doc = doc
          /\ op'.pc = (IF FrozenSources = None THEN "freeze" ELSE "publish")
          /\ op' = [cmd |-> op'.cmd, pc |-> op'.pc, by |-> op'.by, queue |-> op'.queue, doc |-> op'.doc]
      BY <3>2
    <3>8. op'.pc = "freeze" => frozen' = None
      BY <3>4, <3>7
    <3>9. op'.queue[3][2] \in SealedDoc
          /\ op'.queue = ThreeFiles(op'.queue[3][2].findings, op'.queue[3][2].coverage, op'.queue[3][2])
      BY <3>1, <3>3, <3>7 DEF queue
    <3>. QED BY <1>2, <3>5, <3>6, <3>7, <3>8, <3>9 DEF OpInv, Step
  <2>. QED BY <1>4, <2>1, <2>2, <2>3
<1>. QED BY <1>7, <1>9, <1>10 DEF LifecycleInv

-----------------------------------------------------------------------------
(* The invariant.                                                          *)

LEMMA CommandsKeep == ASSUME LifecycleInv, Commands PROVE LifecycleInv'
<1>1. ASSUME NEW t \in Token \cup {None}, NEW findings \in SUBSET Finding, NEW complete \in BOOLEAN,
             NEW keep \in BOOLEAN, WriteScanDraft(t, findings, complete, keep)
      PROVE  LifecycleInv'
  BY <1>1, DraftKeeps
<1>2. ASSUME NEW t \in Token \cup {None}, NEW prepareOnly \in BOOLEAN, CompleteScan(t, prepareOnly)
      PROVE  LifecycleInv'
  BY <1>2, CompleteScanKeeps
<1>. QED BY <1>1, <1>2, StopsKeep, RunKeeps, BudgetKeeps, RepeatsKeep DEF Commands

LEMMA StepsKeep == ASSUME LifecycleInv, Steps PROVE LifecycleInv'
BY WriteFileKeeps, WriteFailsKeeps, MergeKeeps, CommitKeeps, CompletionFailsKeeps, AlreadyPublishedKeeps,
   CannotVerifyKeeps, MergeStoppedKeeps, FreezeKeeps, RecordKeeps, LastStepsKeep DEF Steps

LEMMA LifecycleStep == LifecycleInv /\ [LifecycleNext]_vars => LifecycleInv'
<1> SUFFICES ASSUME LifecycleInv, [LifecycleNext]_vars PROVE LifecycleInv'
  OBVIOUS
<1>1. CASE UNCHANGED vars
  <2>1. OpInv'
    BY <1>1, OpStays DEF vars, rowVars, fileVars, LifecycleInv, DocumentsInv
  <2>. QED BY <1>1, <2>1, OnlyOpMoves DEF vars, LifecycleInv, RowInv, CompleteInv, Idle
<1>2. ASSUME NEW w \in Worker, NEW findings \in SUBSET Finding, WorkerSaves(w, findings)
      PROVE  LifecycleInv'
  BY <1>2, SavesKeep
<1>. QED BY <1>1, <1>2, HandoffKeeps, CommandsKeep, StepsKeep, CrashKeeps DEF LifecycleNext

\* Nothing that a completion, a stop, a crash or a recovery leaves behind contradicts
\* what the next one relies on.
THEOREM LifecycleInvariant == LifecycleSpec => []LifecycleInv
BY LifecycleStarts, LifecycleStep, PTL DEF LifecycleSpec

-----------------------------------------------------------------------------
(* What follows from it.                                                   *)

LEMMA LifecycleInvTypes == LifecycleInv => TypeOK
<1> SUFFICES ASSUME LifecycleInv PROVE TypeOK
  OBVIOUS
<1>1. manifestFile # None => manifestFile.kind \in {"draft", "sealed"}
  BY ManifestKinds DEF LifecycleInv, DocumentsInv, GoodManifest, GoodSeal
<1>2. sealDigest # None => sealDigest.kind = "sealed"
  <2>1. CASE scanStatus = "running"
    BY <2>1 DEF LifecycleInv, RunningInv
  <2>2. CASE scanStatus = "complete"
    BY <2>2 DEF LifecycleInv, CompleteInv, SealHolds, IsSealed
  <2>3. CASE scanStatus = "failed"
    BY <2>3, ManifestKinds DEF LifecycleInv, FailedInv, StoppedSeal, GoodSeal
  <2>. QED BY <2>1, <2>2, <2>3 DEF LifecycleInv, RowInv
<1>3. findingsFile # None => findingsFile \subseteq Finding
  BY DEF LifecycleInv, DocumentsInv
<1>4. coverageFile \in Outcome \cup {None, "draft", "completed"}
  BY DEF LifecycleInv, DocumentsInv, CoverageDoc
<1>5. canceled \in BOOLEAN /\ followUp \in BOOLEAN /\ publicationError \in BOOLEAN
  BY Zenon DEF LifecycleInv, RowInv
<1>. QED BY <1>1, <1>2, <1>3, <1>4, <1>5 DEF LifecycleInv, TypeOK, DocumentsInv, RowInv, OpInv

\* No command, however it races or breaks off, leaves a value in the row or on disk
\* that the next one cannot read.
THEOREM LifecycleTypeCorrect == LifecycleSpec => []TypeOK
BY LifecycleInvariant, LifecycleInvTypes, PTL

\* The life of a scan keeps claim, thread and Deep Scan together.
THEOREM ScansKeepTheirHandoff == LifecycleSpec => []HandoffIsSound
<1>1. HandoffInv => HandoffIsSound
  BY DEF HandoffInv, HandoffIsSound
<1>. QED BY <1>1, LifecycleImplementsHandoff, HandoffInvariant, PTL

LEMMA LifecycleInvCompletes == LifecycleInv => CompletionIsSound
<1> SUFFICES ASSUME LifecycleInv PROVE CompletionIsSound
  OBVIOUS
<1>1. CompletedIsSealed /\ CompletedRunSucceeded
  BY DEF LifecycleInv, CompleteInv, CompletedIsSealed, CompletedRunSucceeded
<1>2. CompletionKeepsWorkerResults
  <2>1. IsSealed => GoodSeal(manifestFile, checkpoints)
    BY ManifestKinds DEF LifecycleInv, DocumentsInv, GoodManifest, IsSealed
  <2>. QED BY <2>1 DEF CompletionKeepsWorkerResults, GoodSeal
<1>. QED BY <1>1, <1>2 DEF CompletionIsSound

\* A scan that is complete, or sealed to be, is what its files, its row, its index, its
\* Deep Scan and its workers say, whatever died or failed on the way.
THEOREM CompletionsAreSound == LifecycleSpec => []CompletionIsSound
BY LifecycleInvariant, LifecycleInvCompletes, PTL

LEMMA LifecycleInvKeepsEvidence == LifecycleInv => EvidenceIsSafe
<1> SUFFICES ASSUME LifecycleInv PROVE EvidenceIsSafe
  OBVIOUS
<1>1. PublishedEvidence /\ FrozenArePublished
  BY DEF LifecycleInv, FailedInv, PublishedEvidence, FrozenArePublished, StoppedSeal
<1>2. EvidenceStaysOnDisk
  BY DEF LifecycleInv, FailedInv, EvidenceStaysOnDisk, EvidenceOnDisk, ParentReadable
<1>3. EvidenceIsNotForgotten
  <2> SUFFICES ASSUME Idle, scanStatus = "failed", ~canceled, sealDigest = None, evidence # {}
               PROVE  SavedResultsChanged
    BY DEF EvidenceIsNotForgotten, RecoveryNeeded
  <2>1. evidence \subseteq EvidenceOnDisk /\ (frozen # None => evidence \subseteq FindingsOf(frozen))
    BY DEF LifecycleInv, FailedInv
  <2>2. FindingsOf({}) = {}
    BY FindingsOfUnion
  <2>3. frozen # None => frozen # {}
    BY <2>1, <2>2
  <2>4. ~ParentReadable => OnDisk # {}
    BY <2>1, <2>2 DEF EvidenceOnDisk
  <2>. QED BY <2>3, <2>4 DEF SavedResultsChanged, ParentReadable
<1>. QED BY <1>1, <1>2, <1>3 DEF EvidenceIsSafe

\* Whatever was found before a scan stopped stays on disk, is published whole, and is
\* shown as recoverable until it is, whichever process dies and whichever write fails.
THEOREM EvidenceIsNeverLost == LifecycleSpec => []EvidenceIsSafe
BY LifecycleInvariant, LifecycleInvKeepsEvidence, PTL

-----------------------------------------------------------------------------
(* What a canceled scan is published from.                                 *)

\* A publication that is no recovery writes a manifest of the sources in the row.
FreezeInv ==
    /\ canceled => op.cmd # "recover"
    /\ op.pc = "publish" /\ op.cmd # "recover" =>
          \E m : /\ op.queue \in {ThreeFiles(m.findings, m.coverage, m), Rest2(m.coverage, m), Rest1(m)}
                 /\ m.sources = frozen
    /\ op.pc = "record" /\ op.cmd # "recover" => frozen = None \/ manifestFile.sources = frozen

\* A step that leaves the command alone, or releases the lock, or takes it, or goes on
\* to a step that writes nothing.
LEMMA FreezeStays ==
  ASSUME FreezeInv,
         \/ UNCHANGED <<op, canceled, frozen, manifestFile>>
         \/ op'.pc \notin {"publish", "record"} /\ (canceled' => op'.cmd # "recover")
  PROVE  FreezeInv'
BY DEF FreezeInv

LEMMA FreezeCommands == ASSUME LifecycleInv, FreezeInv, Commands PROVE FreezeInv'
<1>1. ASSUME NEW t \in Token \cup {None}, NEW findings \in SUBSET Finding, NEW complete \in BOOLEAN,
             NEW keep \in BOOLEAN, WriteScanDraft(t, findings, complete, keep)
      PROVE  FreezeInv'
  <2>1. op'.cmd \in {"none", "draft"} /\ op'.pc \in {"idle", "write"}
    <3>1. CASE op' = NoOp
      BY <3>1 DEF NoOp
    <3>2. CASE op' = [NoOp EXCEPT !.cmd = "draft", !.by = t, !.pc = "write",
                        !.queue = ThreeFiles(findings, "draft", Draft(complete))]
      BY <3>2 DEF NoOp
    <3>. QED BY <1>1, <3>1, <3>2 DEF WriteScanDraft
  <2>. QED BY <2>1, FreezeStays
<1>2. ASSUME NEW t \in Token \cup {None}, NEW prepareOnly \in BOOLEAN, CompleteScan(t, prepareOnly)
      PROVE  FreezeInv'
  BY <1>2, FreezeStays DEF CompleteScan, Acquire, NoOp
<1>3. ASSUME NEW t \in Token \cup {None}, FailScan(t) \/ BeginDeepScan(t) PROVE FreezeInv'
  BY <1>3, FreezeStays DEF FailScan, BeginDeepScan, Acquire, NoOp, rowVars, fileVars
<1>4. ASSUME NEW thread \in Thread \cup {None}, CancelScan(thread) PROVE FreezeInv'
  BY <1>4, FreezeStays DEF CancelScan, Acquire, NoOp
<1>5. ASSUME NEW status \in {"failed", "interrupted"}, FailDeepScan(status) PROVE FreezeInv'
  BY <1>5, FreezeStays DEF FailDeepScan, Acquire, NoOp
<1>6. CASE CompleteBudgetExhaustedScan \/ FinishDeepScan \/ RecordPublicationFailure
  BY <1>6, FreezeStays DEF CompleteBudgetExhaustedScan, FinishDeepScan, RecordPublicationFailure, NoOp,
     rowVars, fileVars
<1>7. CASE PreserveScanResults \/ RecoverScanResults
  <2>1. op'.pc = "preserve" /\ canceled' = canceled
        /\ (op'.cmd = "preserve" \/ (op'.cmd = "recover" /\ ~canceled))
    BY <1>7 DEF PreserveScanResults, RecoverScanResults, Acquire, NoOp, rowVars
  <2>. QED BY <2>1, FreezeStays
<1>. QED BY <1>1, <1>2, <1>3, <1>4, <1>5, <1>6, <1>7 DEF Commands

LEMMA FreezeWrites == ASSUME LifecycleInv, FreezeInv, WriteFile PROVE FreezeInv'
<1>1. op = [cmd |-> op.cmd, pc |-> op.pc, by |-> op.by, queue |-> op.queue, doc |-> op.doc]
      /\ UNCHANGED <<canceled, frozen>>
  BY DEF LifecycleInv, OpInv, WriteFile, rowVars
<1>2. CASE op.pc = "publish" /\ op.cmd # "recover"
  <2>1. PICK m : /\ op.queue \in {ThreeFiles(m.findings, m.coverage, m), Rest2(m.coverage, m), Rest1(m)}
                 /\ m.sources = frozen
    BY <1>2, Zenon DEF FreezeInv
  <2> DEFINE f == m.findings
             c == m.coverage
  <2>2. op.queue \in {ThreeFiles(f, c, m), Rest2(c, m), Rest1(m)}
    BY <2>1
  <2> HIDE DEF f, c
  <2>3. op.cmd \in Stopping
    BY <1>2 DEF LifecycleInv, OpInv
  <2>4. \/ op' = [op EXCEPT !.queue = op'.queue] /\ op'.queue \in {Rest2(c, m), Rest1(m)}
        \/ /\ manifestFile' = m
           /\ op' = IF AfterWriting = "idle" THEN NoOp
                    ELSE [op EXCEPT !.queue = <<>>, !.pc = AfterWriting,
                                    !.cmd = IF @ = "budget" THEN "complete" ELSE @]
    <3>1. CASE op.queue = ThreeFiles(f, c, m)
      BY <1>1, <3>1, WritesOne
    <3>2. CASE op.queue = Rest2(c, m)
      <4>1. op' = [op EXCEPT !.queue = Rest1(m)]
        BY <3>2, WritesOne
      <4>2. op'.queue = Rest1(m)
        BY <1>1, <4>1
      <4>. QED BY <4>1, <4>2
    <3>3. CASE op.queue = Rest1(m)
      BY <1>1, <3>3, WritesOne
    <3>. QED BY <2>2, <3>1, <3>2, <3>3
  <2>5. CASE op' = [op EXCEPT !.queue = op'.queue] /\ op'.queue \in {Rest2(c, m), Rest1(m)}
    <3>1. op'.cmd = op.cmd /\ op'.pc = "publish"
      BY <1>1, <1>2, <2>5
    <3>2. op'.queue \in {ThreeFiles(m.findings, m.coverage, m), Rest2(m.coverage, m), Rest1(m)}
          /\ m.sources = frozen'
      BY <1>1, <2>1, <2>5 DEF f, c
    <3>. QED BY <1>1, <3>1, <3>2 DEF FreezeInv
  <2>6. CASE /\ manifestFile' = m
             /\ op' = IF AfterWriting = "idle" THEN NoOp
                      ELSE [op EXCEPT !.queue = <<>>, !.pc = AfterWriting,
                                      !.cmd = IF @ = "budget" THEN "complete" ELSE @]
    <3>1. AfterWriting = "record" /\ op.cmd # "budget"
      BY <1>2, <2>3 DEF AfterWriting, Stopping
    <3>2. op'.cmd = op.cmd /\ op'.pc = "record"
      BY <1>1, <2>6, <3>1
    <3>. QED BY <1>1, <2>1, <2>6, <3>2 DEF FreezeInv
  <2>. QED BY <2>4, <2>5, <2>6
<1>3. CASE op.cmd = "recover"
  <2>1. op'.cmd = "recover" \/ op' = NoOp
    BY <1>1, <1>3 DEF WriteFile
  <2>. QED BY <1>1, <1>3, <2>1 DEF FreezeInv, NoOp
<1>4. CASE op.pc \in {"write", "restore"} /\ op.cmd # "recover"
  <2>1. op'.pc \in {"write", "restore", "merge", "commit", "warn", "idle"} /\ op'.cmd # "recover"
    <3>1. op.pc = "write" => AfterWriting \in {"idle", "merge", "commit"}
      BY DEF LifecycleInv, OpInv, AfterWriting, Completing
    <3>2. op.pc = "restore" => AfterWriting = "warn"
      BY DEF LifecycleInv, OpInv, AfterWriting, Stopping
    <3>3. \/ op' = NoOp
          \/ op'.pc = op.pc /\ op'.cmd = op.cmd
          \/ op'.pc = AfterWriting /\ op'.cmd \in {op.cmd, "complete"}
      <4>1. \/ op' = [op EXCEPT !.queue = Tail(op.queue)]
            \/ op' = NoOp
            \/ op' = [op EXCEPT !.queue = <<>>, !.pc = AfterWriting,
                               !.cmd = IF op.cmd = "budget" THEN "complete" ELSE op.cmd]
        BY Zenon DEF WriteFile
      <4>2. CASE op' = [op EXCEPT !.queue = Tail(op.queue)]
        BY <1>1, <4>2
      <4>3. CASE op' = [op EXCEPT !.queue = <<>>, !.pc = AfterWriting,
                          !.cmd = IF op.cmd = "budget" THEN "complete" ELSE op.cmd]
        <5>1. op'.pc = AfterWriting /\ op'.cmd = (IF op.cmd = "budget" THEN "complete" ELSE op.cmd)
          BY <1>1, <4>3
        <5>. QED BY <5>1
      <4>. QED BY <4>1, <4>2, <4>3
    <3>. QED BY <1>4, <3>1, <3>2, <3>3 DEF NoOp
  <2>. QED BY <2>1, FreezeStays
<1>. QED BY <1>2, <1>3, <1>4 DEF WriteFile

\* The steps that write no documents of the sources, and do not take the lock.
LEMMA FreezeOtherSteps ==
  ASSUME LifecycleInv, FreezeInv,
         \/ WriteFails \/ MergeForCompletion \/ CommitCompletion \/ CompletionFailsScan \/ CannotVerify
         \/ RecordPublication \/ ClearPublicationFailure \/ WarnOfPublication \/ Crash
  PROVE  FreezeInv'
<1>1. op = [cmd |-> op.cmd, pc |-> op.pc, by |-> op.by, queue |-> op.queue, doc |-> op.doc]
      /\ canceled' = canceled
  BY DEF LifecycleInv, OpInv, WriteFails, MergeForCompletion, CommitCompletion, CompletionFailsScan,
     CannotVerify, RecordPublication, ClearPublicationFailure, WarnOfPublication, Crash, rowVars
<1>2. \/ op' = NoOp
      \/ op' = [NoOp EXCEPT !.cmd = "fail", !.by = op.by, !.pc = "preserve"]
      \/ Goto("stop") \/ Goto("warn") \/ Goto("clear")
      \/ WriteThenGoto("restore", op.doc, None)
      \/ \E queue : WriteThenGoto("write", queue, None)
      \/ WriteThenGoto("commit", <<>>, None)
  <2>1. CASE WriteFails
    BY <2>1, Zenon DEF WriteFails, Release
  <2>2. CASE MergeForCompletion
    BY <2>2, Zenon DEF MergeForCompletion, CannotPrepare, Release
  <2>3. CASE CommitCompletion \/ CompletionFailsScan \/ RecordPublication \/ ClearPublicationFailure
             \/ WarnOfPublication \/ Crash
    BY <2>3, Zenon DEF CommitCompletion, CompletionFailsScan, RecordPublication, ClearPublicationFailure,
       WarnOfPublication, Crash, Release
  <2>4. CASE CannotVerify
    BY <2>4, Zenon DEF CannotVerify, PublicationFails, Release
  <2>. QED BY <2>1, <2>2, <2>3, <2>4
<1>3. ASSUME NEW pc \in {"stop", "warn", "clear"}, Goto(pc) PROVE FreezeInv'
  <2>1. op'.pc = pc /\ op'.cmd = op.cmd
    BY <1>1, <1>3 DEF Goto
  <2>. QED BY <1>1, <2>1, FreezeStays DEF FreezeInv
<1>4. ASSUME NEW pc \in {"restore", "write", "commit"}, NEW queue, WriteThenGoto(pc, queue, None)
      PROVE  FreezeInv'
  <2>1. op'.pc = pc /\ op'.cmd = op.cmd
    BY <1>1, <1>4 DEF WriteThenGoto
  <2>. QED BY <1>1, <2>1, FreezeStays DEF FreezeInv
<1>5. CASE op' = NoOp \/ op' = [NoOp EXCEPT !.cmd = "fail", !.by = op.by, !.pc = "preserve"]
  <2>1. op'.pc \in {"idle", "preserve"} /\ op'.cmd \in {"none", "fail"}
    <3>1. CASE op' = NoOp
      BY <3>1 DEF NoOp
    <3>2. CASE op' = [NoOp EXCEPT !.cmd = "fail", !.by = op.by, !.pc = "preserve"]
      BY <3>2 DEF NoOp
    <3>. QED BY <1>5, <3>1, <3>2
  <2>. QED BY <2>1, FreezeStays
<1>. QED BY <1>2, <1>3, <1>4, <1>5

LEMMA FreezePublished == ASSUME LifecycleInv, FreezeInv, AlreadyPublished PROVE FreezeInv'
<1>1. op = [cmd |-> op.cmd, pc |-> op.pc, by |-> op.by, queue |-> op.queue, doc |-> op.doc]
      /\ UNCHANGED <<canceled, frozen, manifestFile>>
  BY DEF LifecycleInv, OpInv, AlreadyPublished, rowVars, fileVars
<1>2. op.cmd # "recover" => frozen = None \/ manifestFile.sources = frozen
  BY DEF AlreadyPublished, FrozenSources
<1>3. op'.pc \in {"clear", "record"} /\ op'.cmd = op.cmd
  <2>1. Goto("clear") \/ Goto("record")
    BY DEF AlreadyPublished
  <2>. QED BY <1>1, <2>1 DEF Goto
<1>. QED BY <1>1, <1>2, <1>3 DEF FreezeInv

LEMMA FreezeMerged == ASSUME LifecycleInv, FreezeInv, MergeStoppedResults PROVE FreezeInv'
<1>1. op = [cmd |-> op.cmd, pc |-> op.pc, by |-> op.by, queue |-> op.queue, doc |-> op.doc]
      /\ UNCHANGED <<canceled, frozen, manifestFile>> /\ op.pc = "preserve" /\ MayMerge
  BY DEF LifecycleInv, OpInv, MergeStoppedResults, rowVars
<1>2. SourcesIn(SavedRoots) = SourcesOf(SavedRoots, workerResult)
  BY DEF SourcesIn, SourcesOf
<1>3. \/ /\ SavedLimit \subseteq Chosen
         /\ op' = [op EXCEPT !.pc = IF FrozenSources = None THEN "freeze" ELSE "publish",
                     !.queue = ThreeFiles(Found, StopOutcome, StoppedManifest),
                     !.doc = ThreeFiles(findingsFile, coverageFile, manifestFile)]
      \/ Release \/ Goto("warn")
  BY <1>2 DEF MergeStoppedResults, SavedLimit, Chosen, Named, Found, StoppedManifest, SavedRoots, PublicationFails
<1>4. CASE Release
  BY <1>4, FreezeStays DEF Release, NoOp
<1>5. CASE Goto("warn")
  <2>1. op'.pc = "warn" /\ op'.cmd = op.cmd
    BY <1>1, <1>5 DEF Goto
  <2>. QED BY <1>1, <2>1, FreezeStays DEF FreezeInv
<1>6. CASE /\ SavedLimit \subseteq Chosen
           /\ op' = [op EXCEPT !.pc = IF FrozenSources = None THEN "freeze" ELSE "publish",
                       !.queue = ThreeFiles(Found, StopOutcome, StoppedManifest),
                       !.doc = ThreeFiles(findingsFile, coverageFile, manifestFile)]
  <2> DEFINE m == StoppedManifest
  <2>1. m.findings = Found /\ m.coverage = StopOutcome
    BY <1>1, <1>6, MergedSeal
  <2>2. m.sources = Named
    BY DEF StoppedManifest, Sealed
  <2>3. /\ op'.pc = (IF FrozenSources = None THEN "freeze" ELSE "publish") /\ op'.cmd = op.cmd
        /\ op'.queue = ThreeFiles(m.findings, m.coverage, m)
    BY <1>1, <1>6, <2>1
  <2>4. FrozenSources # None /\ op.cmd # "recover" => Named = frozen
    BY <1>6 DEF FrozenSources, Named, Chosen, SavedLimit, ParentIsRead, ParentIsSaved
  <2> HIDE DEF m
  <2>5. op'.pc = "publish" /\ op'.cmd # "recover" =>
          \E m1 : /\ op'.queue \in {ThreeFiles(m1.findings, m1.coverage, m1), Rest2(m1.coverage, m1), Rest1(m1)}
                  /\ m1.sources = frozen'
    BY <1>1, <2>2, <2>3, <2>4
  <2>. QED BY <1>1, <2>3, <2>5 DEF FreezeInv
<1>. QED BY <1>3, <1>4, <1>5, <1>6

LEMMA FreezeFreezes == ASSUME LifecycleInv, FreezeInv, FreezeSources PROVE FreezeInv'
<1>1. op = [cmd |-> op.cmd, pc |-> op.pc, by |-> op.by, queue |-> op.queue, doc |-> op.doc]
      /\ canceled' = canceled
  BY DEF LifecycleInv, OpInv, FreezeSources
<1>2. op'.pc = "publish" /\ op'.cmd = op.cmd /\ op'.queue = op.queue
  BY <1>1 DEF FreezeSources, Goto
<1> DEFINE q == op.queue[3][2]
<1>3. op.queue = ThreeFiles(q.findings, q.coverage, q) /\ frozen' = q.sources
  BY DEF LifecycleInv, OpInv, FreezeSources
<1> HIDE DEF q
<1>4. \E m : /\ op'.queue \in {ThreeFiles(m.findings, m.coverage, m), Rest2(m.coverage, m), Rest1(m)}
             /\ m.sources = frozen'
  BY <1>2, <1>3
<1>. QED BY <1>1, <1>2, <1>4 DEF FreezeInv

LEMMA FreezeStep == LifecycleInv /\ FreezeInv /\ [LifecycleNext]_vars => FreezeInv'
<1> SUFFICES ASSUME LifecycleInv, FreezeInv, [LifecycleNext]_vars PROVE FreezeInv'
  OBVIOUS
<1>1. CASE Handoff \/ UNCHANGED vars
  BY <1>1, FreezeStays DEF Handoff, vars, rowVars, fileVars
<1>2. ASSUME NEW w \in Worker, NEW findings \in SUBSET Finding, WorkerSaves(w, findings)
      PROVE  FreezeInv'
  BY <1>2, FreezeStays DEF WorkerSaves, rowVars
<1>3. CASE Steps
  BY <1>3, FreezeWrites, FreezeOtherSteps, FreezePublished, FreezeMerged, FreezeFreezes DEF Steps
<1>. QED BY <1>1, <1>2, <1>3, FreezeCommands, FreezeOtherSteps DEF LifecycleNext

LEMMA FreezeInvariant == LifecycleSpec => []FreezeInv
<1>1. LifecycleInit => FreezeInv
  BY DEF LifecycleInit, NoOp, FreezeInv
<1>. QED BY <1>1, FreezeStep, LifecycleInvariant, PTL DEF LifecycleSpec

\* Neither publishing again nor a recovery changes what a canceled scan is made of.
THEOREM CanceledScansStayFrozen == LifecycleSpec => CancellationFreezes
<1>1. LifecycleInv /\ FreezeInv /\ [LifecycleNext]_vars => [canceled /\ frozen # None => frozen' = frozen]_vars
  <2> SUFFICES ASSUME LifecycleInv, FreezeInv, LifecycleNext, canceled, frozen # None
               PROVE  frozen' = frozen
    OBVIOUS
  <2>1. CASE FreezeSources
    BY <2>1 DEF LifecycleInv, OpInv, FreezeSources
  <2>2. CASE RecordPublication
    BY <2>2 DEF FreezeInv, RecordPublication
  <2>3. CASE Handoff \/ Crash \/ \E w \in Worker, findings \in SUBSET Finding : WorkerSaves(w, findings)
    BY <2>3 DEF Handoff, Crash, WorkerSaves, rowVars
  <2>4. CASE Commands
    BY <2>4 DEF Commands, WriteScanDraft, CompleteScan, FailScan, BeginDeepScan, CancelScan,
       FailDeepScan, CompleteBudgetExhaustedScan, FinishDeepScan, PreserveScanResults,
       RecoverScanResults, RecordPublicationFailure, StopsScan, rowVars
  <2>5. CASE Steps /\ ~FreezeSources /\ ~RecordPublication
    BY <2>5 DEF Steps, WriteFile, WriteFails, MergeForCompletion, CommitCompletion,
       CompletionFailsScan, AlreadyPublished, CannotVerify, MergeStoppedResults,
       ClearPublicationFailure, WarnOfPublication, StopsScan, rowVars
  <2>. QED BY <2>1, <2>2, <2>3, <2>4, <2>5 DEF LifecycleNext
<1>. QED BY <1>1, LifecycleInvariant, FreezeInvariant, PTL DEF LifecycleSpec, CancellationFreezes

\* Who delivers, who continues, how the scan ended and from which sources a canceled
\* scan is published: none of it is decided twice.
THEOREM DecisionsStand == LifecycleSpec => DecisionsAreFinal
<1>1. LifecycleSpec => DeliverySettles /\ FreshClaimsAreSafe
  BY LifecycleImplementsHandoff, DeliveryIsFinal, FreshClaimsCannotBeStolen
<1>. QED BY <1>1, ScansEndOnce, SupersededCannotComplete, CanceledScansStayFrozen DEF DecisionsAreFinal
=============================================================================
