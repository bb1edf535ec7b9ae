--------------------------- MODULE MultiscanProofs ---------------------------
(***************************************************************************)
(* What MultiscanLock and MultiscanCampaign promise.                          *)
(*                                                                           *)
(* The lock, for any number of supervisors, as long as none dies between     *)
(* making the directory and writing its owner file, in a recovery, or in a   *)
(* release (LockConstants).  The assumption is needed: with a death of the   *)
(* first kind TLC finds two supervisors that run, in multiscan_recovery,     *)
(* since taking over is safe only while an owner is there for recoverLock to *)
(* compare.  Taking over is safe as one owner is all                          *)
(* that recoverLock compares.  So the argument is about what a recovery may   *)
(* find: a directory without an owner is in the hands of a supervisor that   *)
(* lives and is never old, so that nobody sets out to recover it; and while   *)
(* an owner that may be taken from is at the path, whoever is between its     *)
(* claim and its rename has the claim, so that one supervisor renames that   *)
(* directory and no other.                                                   *)
(*                                                                           *)
(* The campaigns that follow each other under the lock, for any inventory,    *)
(* workers, attempts and incidents.  That a campaign leaves alone what is    *)
(* finished is true as nobody but the worker of a task writes for it, and a   *)
(* task has one worker: the list has every task once, and what a worker has  *)
(* lies behind next.  That its counters are what the ledger says follows     *)
(* from the same of the tasks that are no longer open, step by step, with    *)
(* the cardinalities of these sets.                                          *)
(***************************************************************************)
EXTENDS MultiscanLock, MultiscanCampaign, FiniteSetTheorems, TLAPS

-----------------------------------------------------------------------------
(* The lock.                                                                 *)

\* The names are different, and supervisors die only before they make or recover a
\* directory, while they write its owner file or while they hold the lock: one that dies
\* leaves neither a directory without an owner nor a claim of a recovery.  Deaths at
\* "created", in a recovery, in the cleanup of a failed acquisition and in a release are
\* ruled out; a death at "created" is where OneSupervisor fails (multiscan.ts:443, 615).
LockConstants ==
    /\ NoFile \notin Supervisor /\ Legacy \notin Supervisor /\ "empty" \notin Supervisor
    /\ NoFile # Legacy /\ NoFile # "empty" /\ Legacy # "empty"
    /\ CrashIn \subseteq {"idle", "mkdir", "inspect", "open", "writing", "held"}

\* The supervisors that have the directory, and those that recover it.
Having == {"created", "writing", "held", "remove", "rmdir"}
Recovering == {"reinspect", "rename", "abandon"}

Has(p) == pc[p] \in Having
Recovers(p) == pc[p] \in Recovering

\* An owner that has written its file, or may do so, lives.
OwnerMayBeDead == owner = Legacy \/ (owner # NoFile /\ ownerAge = "stale")

\* One supervisor at most has the directory, and the owner file is its own.
OneHas ==
    /\ \A p, q \in Supervisor : Has(p) /\ Has(q) => p = q
    /\ \A p \in Supervisor : Has(p) => lock # NoFile /\ owner \in {NoFile, p}
    /\ \A p \in Supervisor : pc[p] \in {"created", "rmdir"} => owner = NoFile
    /\ \A p \in Supervisor : pc[p] \in {"writing", "held"} => owner = p
    /\ \A p \in Supervisor : Has(p) /\ owner = p => ownerAge = "fresh"
    /\ \A p \in Supervisor : pc[p] \in {"held", "remove"} /\ owner = p => written

\* A directory without an owner is in somebody's hands, and young.
OwnerlessIsYoung ==
    lock # NoFile /\ owner = NoFile =>
        /\ dirAge = "fresh"
        /\ \E p \in Supervisor : pc[p] \in {"created", "remove", "rmdir"}

\* A claim is that of a supervisor at work on it; it never gets old.
ClaimsAreLive ==
    /\ claim # NoFile => claim \in Supervisor /\ Recovers(claim) /\ claimAge = "fresh"
    /\ \A p \in Supervisor : pc[p] \notin {"dropClaim", "cleanup"}

\* Whoever recovers has found an owner, and has the claim if there is one to recover from;
\* whoever is about to rename has looked again.
RecoveryIsExclusive ==
    /\ \A p \in Supervisor :
          pc[p] \in {"open", "reinspect", "rename"} => expected[p] # NoFile
    /\ OwnerMayBeDead => \A p \in Supervisor : Recovers(p) => claim = p
    /\ \A p \in Supervisor :
          pc[p] = "rename" => lock # NoFile /\ owner # NoFile /\ Stale

\* The lock of a process of an older release stays.
LegacyKeepsLock == legacyAlive => lock # NoFile /\ owner = Legacy

LockInv ==
    /\ LockTypeOK /\ OneHas /\ OwnerlessIsYoung /\ ClaimsAreLive
    /\ RecoveryIsExclusive /\ LegacyKeepsLock /\ (owner = Legacy => written)

-----------------------------------------------------------------------------
(* Each step keeps the invariant. *)

LEMMA LockStarts ==
  ASSUME LockConstants, LockInit
  PROVE  LockInv
BY DEF LockConstants, LockInit, LockInv, LockTypeOK, Step, Age, OneHas, Has, Having,
       OwnerlessIsYoung, ClaimsAreLive, RecoveryIsExclusive, OwnerMayBeDead, Recovers,
       Recovering, LegacyKeepsLock

\* A supervisor makes the directory and signs it.
LEMMA TakingKeeps ==
  ASSUME LockConstants, LockInv, NEW p \in Supervisor,
         Start(p) \/ Mkdir(p) \/ Inspect(p) \/ CreateOwner(p) \/ WriteOwner(p) \/ Cleanup(p)
  PROVE  LockInv'
<1> USE DEF LockConstants, LockInv, LockTypeOK, Step, Age, OneHas, Has, Having,
            OwnerlessIsYoung, ClaimsAreLive, RecoveryIsExclusive, OwnerMayBeDead,
            Recovers, Recovering, LegacyKeepsLock, OwnerRead, Stale, Goto, Refused,
            Files, EmptyDirectory, RemoveClaim
<1>1. CASE Start(p)
  BY <1>1 DEF Start
<1>2. CASE Mkdir(p)
  BY <1>2 DEF Mkdir
<1>3. CASE Inspect(p)
  BY <1>3 DEF Inspect
<1>4. CASE CreateOwner(p)
  <2>1. LockTypeOK'
    BY <1>4 DEF CreateOwner
  <2>2. OneHas'
    BY <1>4 DEF CreateOwner
  <2>3. OwnerlessIsYoung' /\ ClaimsAreLive'
    BY <1>4 DEF CreateOwner
  <2>4. RecoveryIsExclusive'
    BY <1>4 DEF CreateOwner
  <2>5. LegacyKeepsLock' /\ (owner = Legacy => written)'
    BY <1>4 DEF CreateOwner
  <2> QED BY <2>1, <2>2, <2>3, <2>4, <2>5
<1>5. CASE WriteOwner(p)
  <2>1. LockTypeOK'
    BY <1>5 DEF WriteOwner
  <2>2. OneHas'
    BY <1>5 DEF WriteOwner
  <2>3. OwnerlessIsYoung' /\ ClaimsAreLive'
    BY <1>5 DEF WriteOwner
  <2>4. RecoveryIsExclusive'
    BY <1>5 DEF WriteOwner
  <2>5. LegacyKeepsLock' /\ (owner = Legacy => written)'
    BY <1>5 DEF WriteOwner
  <2> QED BY <2>1, <2>2, <2>3, <2>4, <2>5
<1>6. CASE Cleanup(p)
  BY <1>6 DEF Cleanup
<1> QED BY <1>1, <1>2, <1>3, <1>4, <1>5, <1>6

\* A supervisor takes the lock from an owner that it found dead.
LEMMA RecoveringKeeps ==
  ASSUME LockConstants, LockInv, NEW p \in Supervisor,
         OpenClaim(p) \/ DropClaim(p) \/ Reinspect(p) \/ Abandon(p) \/ Rename(p)
  PROVE  LockInv'
<1> USE DEF LockConstants, LockInv, LockTypeOK, Step, Age, OneHas, Has, Having,
            OwnerlessIsYoung, ClaimsAreLive, RecoveryIsExclusive, OwnerMayBeDead,
            Recovers, Recovering, LegacyKeepsLock, OwnerRead, Stale, Goto, Refused,
            Files, EmptyDirectory, RemoveClaim
<1>1. CASE OpenClaim(p)
  BY <1>1 DEF OpenClaim
<1>2. CASE DropClaim(p)
  BY <1>2 DEF DropClaim
<1>3. CASE Reinspect(p)
  BY <1>3 DEF Reinspect
<1>4. CASE Abandon(p)
  BY <1>4 DEF Abandon
<1>5. CASE Rename(p)
  BY <1>5 DEF Rename
<1> QED BY <1>1, <1>2, <1>3, <1>4, <1>5

\* The holder removes its files and the directory; supervisors die.
LEMMA ReleasingKeeps ==
  ASSUME LockConstants, LockInv, NEW p \in Supervisor,
         Release(p) \/ RemoveFiles(p) \/ RemoveDirectory(p) \/ Die(p)
  PROVE  LockInv'
<1> USE DEF LockConstants, LockInv, LockTypeOK, Step, Age, OneHas, Has, Having,
            OwnerlessIsYoung, ClaimsAreLive, RecoveryIsExclusive, OwnerMayBeDead,
            Recovers, Recovering, LegacyKeepsLock, OwnerRead, Stale, Goto, Refused,
            Files, EmptyDirectory, RemoveClaim
<1>1. CASE Release(p)
  BY <1>1 DEF Release
<1>2. CASE RemoveFiles(p)
  BY <1>2 DEF RemoveFiles
<1>3. CASE RemoveDirectory(p)
  BY <1>3 DEF RemoveDirectory
<1>4. CASE Die(p)
  BY <1>4 DEF Die
<1> QED BY <1>1, <1>2, <1>3, <1>4

\* A heartbeat keeps the holder's file young, and who is busy is quicker than a lease.
LEMMA TimeKeeps ==
  ASSUME LockConstants, LockInv, TimePasses \/ LegacyEnds \/ UNCHANGED lockVars
  PROVE  LockInv'
<1> USE DEF LockConstants, LockInv, LockTypeOK, Step, Age, OneHas, Has, Having,
            OwnerlessIsYoung, ClaimsAreLive, RecoveryIsExclusive, OwnerMayBeDead,
            Recovers, Recovering, LegacyKeepsLock, OwnerRead, Stale, Files
<1>1. CASE TimePasses
  BY <1>1 DEF TimePasses, Busy
<1>2. CASE LegacyEnds
  BY <1>2 DEF LegacyEnds
<1>3. CASE UNCHANGED lockVars
  BY <1>3 DEF lockVars
<1> QED BY <1>1, <1>2, <1>3

-----------------------------------------------------------------------------
(* The theorems. *)

\* However many supervisors take, recover and release the lock, one at most has the
\* directory, recoveries exclude each other, and what they take has a dead owner, as long
\* as supervisors die only where LockConstants lets them.
THEOREM LockInvariant ==
  ASSUME LockConstants
  PROVE  LockSpec => []LockInv
<1>1. LockInit => LockInv
  BY LockStarts
<1>2. ASSUME LockInv, [LockNext]_lockVars
      PROVE  LockInv'
  <2>1. ASSUME NEW p \in Supervisor, Start(p) \/ Acquire(p) \/ Finish(p) \/ Die(p)
        PROVE  LockInv'
    BY <1>2, <2>1, TakingKeeps, RecoveringKeeps, ReleasingKeeps DEF Acquire, Finish
  <2> QED BY <1>2, <2>1, TimeKeeps DEF LockNext
<1> QED BY <1>1, <1>2, PTL DEF LockSpec

\* The steps, ages and owners of the lock keep to the values they declare.
THEOREM LockTypeCorrect ==
  ASSUME LockConstants
  PROVE  LockSpec => []LockTypeOK
<1>1. LockInv => LockTypeOK
  BY DEF LockInv
<1> QED BY <1>1, LockInvariant, PTL

\* If supervisors die only where LockConstants lets them, one at most runs the campaign
\* and no older release beside it, and the lock at the path is that of whoever does: nobody
\* recovers or cleans up the lock of a process that lives.  Without that assumption the
\* statement is false of the code.
THEOREM HoldersKeepTheLock ==
  ASSUME LockConstants
  PROVE  LockSpec => [](OneSupervisor /\ HolderKeepsLock)
<1>1. LockInv => OneSupervisor /\ HolderKeepsLock
  BY DEF LockInv, OneHas, Has, Having, LegacyKeepsLock, OneSupervisor, HolderKeepsLock,
         OwnerRead, LockConstants
<1> QED BY <1>1, LockInvariant, PTL

-----------------------------------------------------------------------------
(* The campaigns.                                                            *)

\* There are workers, as the command asks for, and attempts; None is nothing else.
CampaignConstants ==
    /\ IsFiniteSet(Task) /\ IsFiniteSet(Worker) /\ Worker # {}
    /\ None \notin Task \cup Config \cup Status \cup {"torn"} /\ "torn" \notin Config
    /\ MaxAttempts \in Nat \ {0} /\ MaxAttempt \in Nat \ {0} /\ MaxInterrupts \in Nat

Running == phase = "running"
AtWork(w) == worker[w].step \in {"scan", "record"}
Waits(i) == i \in DOMAIN pending /\ i >= next

\* The list of a campaign has every task once.
PendingIsSound ==
    /\ pending \in Seq(Task) /\ next \in Nat \ {0}
    /\ \A i, j \in DOMAIN pending : pending[i] = pending[j] => i = j
    /\ next <= Len(pending) + 1 + Cardinality({w \in Worker : worker[w].step = "done"})

\* A worker has a task that was taken from the list, that is not finished, and that nobody
\* else has; its attempt is a new one.
WorkerIsSound(w) ==
    /\ ~Running => worker[w] = Absent
    /\ ~AtWork(w) => worker[w].task = None
    /\ AtWork(w) =>
         /\ \E i \in DOMAIN pending : i < next /\ pending[i] = worker[w].task
         /\ \A v \in Worker \ {w} : worker[v].task # worker[w].task
         /\ worker[w].retry < MaxAttempts
         /\ worker[w].attempt = receipts[worker[w].task] + worker[w].retry + 1
         /\ worker[w].attempt > LastAttempt(worker[w].task)
         /\ ~Finished(worker[w].task)
    /\ worker[w].step = "record" =>
         /\ worker[w].status \in {"completed", "completed_with_incomplete_coverage",
                                  "failed", "exhausted"}
         /\ worker[w].status \notin {"failed", "exhausted"} =>
              artifacts[worker[w].task][worker[w].attempt] = "all"

WorkersAreSound == \A w \in Worker : WorkerIsSound(w)

\* What waits in the list is as the campaign found it.
RestIsUntouched ==
    Running =>
        /\ \A t \in Task : receipts[t] + MaxAttempts <= MaxAttempt
        /\ \A i \in DOMAIN pending : i >= next =>
             ~Finished(pending[i]) /\ receipts[pending[i]] = LastAttempt(pending[i])

\* Receipts are of the configuration of the manifest.
LedgerIsOfManifest ==
    /\ \A t \in Task : \A i \in DOMAIN ledger[t] : ledger[t][i].config \in {None, manifest}
    /\ Running => manifest = config /\ config \in Config

\* The tasks that wait or are at work, and the others.
Open == {pending[i] : i \in {j \in DOMAIN pending : j >= next}}
            \cup {worker[w].task : w \in {v \in Worker : AtWork(v)}}
Closed == Task \ Open
Undisturbed == \A w \in Worker : worker[w].step # "rejected"

\* As long as every receipt could be written, the counters are what the ledger says of
\* the tasks that are no longer open.
CountsAgree ==
    /\ count.completed + count.incomplete + count.failed <= Cardinality(Closed)
    /\ Running /\ Undisturbed =>
         /\ ~torn
         /\ count.completed = Cardinality(Closed \cap CompletedTasks)
         /\ count.incomplete = Cardinality(Closed \cap IncompleteTasks)
         /\ count.failed = Cardinality(Closed \ FinishedTasks)
         /\ \A t \in Closed : LastStatus(t) # None
         /\ next <= Len(pending) =>
              \E w \in Worker : worker[w].step \in {"take", "scan", "record"}

CampaignInv ==
    /\ CampaignTypeOK /\ PendingIsSound /\ WorkersAreSound /\ RestIsUntouched
    /\ AttemptsIncrease /\ LedgerIsOfManifest /\ CountsAgree /\ ResultIsTheLedger

-----------------------------------------------------------------------------
(* What the ledger and the workers say of one task. *)

\* The last receipt of a task has an attempt and a status.
LEMMA LastReceipt ==
  ASSUME CampaignConstants, CampaignTypeOK, NEW t \in Task
  PROVE  /\ LastAttempt(t) \in 0 .. MaxAttempt
         /\ LastStatus(t) \in Status \cup {None}
         /\ ledger[t] # <<>> => /\ Len(ledger[t]) \in DOMAIN ledger[t]
                                /\ ledger[t][Len(ledger[t])] = Last(ledger[t])
                                /\ LastAttempt(t) \in Attempt
<1>1. ledger[t] \in Seq(Receipt)
  BY DEF CampaignTypeOK
<1>2. ledger[t] # <<>> => Len(ledger[t]) \in DOMAIN ledger[t] /\ Last(ledger[t]) \in Receipt
  BY <1>1 DEF Last
<1> QED BY <1>1, <1>2 DEF LastAttempt, LastStatus, Receipt, Attempt, Last, CampaignConstants

\* A worker at work has a task and a new attempt of it.
LEMMA WorkerAtWork ==
  ASSUME CampaignConstants, CampaignInv, NEW w \in Worker, AtWork(w)
  PROVE  /\ Running
         /\ worker[w].task \in Task
         /\ worker[w].attempt \in Attempt
         /\ worker[w].attempt > LastAttempt(worker[w].task)
         /\ ~Finished(worker[w].task)
         /\ \A i \in DOMAIN pending : i >= next => pending[i] # worker[w].task
<1>1. WorkerIsSound(w) /\ worker[w] \in WorkerState
  BY DEF CampaignInv, WorkersAreSound, CampaignTypeOK
<1>2. Running /\ worker[w].attempt > LastAttempt(worker[w].task) /\ ~Finished(worker[w].task)
  BY <1>1 DEF WorkerIsSound, AtWork, Absent
<1>3. PICK i \in DOMAIN pending : i < next /\ pending[i] = worker[w].task
  BY <1>1 DEF WorkerIsSound
<1>4. worker[w].task \in Task
  BY <1>3 DEF CampaignInv, PendingIsSound
<1>5. worker[w].attempt \in Attempt
  BY <1>1, <1>2, <1>4, LastReceipt DEF WorkerState, Attempt, CampaignInv, CampaignConstants
<1>6. \A j \in DOMAIN pending : j >= next => pending[j] # worker[w].task
  BY <1>3 DEF CampaignInv, PendingIsSound
<1> QED BY <1>2, <1>4, <1>5, <1>6

\* What one worker does with its task leaves the others, and the rest of the list, alone.
Alone(w) ==
    /\ Running /\ phase' = phase /\ pending' = pending /\ receipts' = receipts
    /\ next' \in {next, next + 1}
    /\ \A v \in Worker \ {w} : worker'[v] = worker[v]
    /\ \A t \in Task : t # worker[w].task =>
         ledger'[t] = ledger[t] /\ artifacts'[t] = artifacts[t]

LEMMA OthersStay ==
  ASSUME CampaignConstants, CampaignInv, NEW w \in Worker, Alone(w),
         NEW v \in Worker \ {w}, AtWork(v) => worker'[w].task # worker[v].task
  PROVE  WorkerIsSound(v)'
<1>1. WorkerIsSound(v) /\ worker'[v] = worker[v]
  BY DEF CampaignInv, WorkersAreSound, Alone
<1>2. CASE ~AtWork(v)
  BY <1>1, <1>2 DEF WorkerIsSound, AtWork, Alone, Running
<1>3. CASE AtWork(v)
  <2> DEFINE t == worker[v].task
  <2>1. t \in Task /\ t # worker[w].task
    <3>1. t \in Task
      BY <1>3, WorkerAtWork
    <3> QED BY <1>1, <1>3, <3>1 DEF WorkerIsSound
  <2>2. ledger'[t] = ledger[t] /\ artifacts'[t] = artifacts[t]
    BY <2>1 DEF Alone
  <2>3. LastAttempt(t)' = LastAttempt(t) /\ Finished(t)' = Finished(t)
    BY <1>1, <2>2 DEF LastAttempt, LastStatus, HasArtifacts, Completed, Incomplete, Finished
  <2>4. \E i \in DOMAIN pending' : i < next' /\ pending'[i] = t
    BY <1>1, <1>3 DEF WorkerIsSound, Alone, CampaignInv, PendingIsSound
  <2>5. \A u \in Worker \ {v} : worker'[u].task # t
    BY <1>1, <1>3 DEF WorkerIsSound, Alone
  <2> QED BY <1>1, <1>3, <2>2, <2>3, <2>4, <2>5 DEF WorkerIsSound, AtWork, Alone, Running
<1> QED BY <1>2, <1>3

LEMMA RestStays ==
  ASSUME CampaignConstants, CampaignInv, NEW w \in Worker, Alone(w),
         AtWork(w) \/ worker[w].task = None
  PROVE  RestIsUntouched'
<1>1. ASSUME NEW i \in DOMAIN pending, i >= next'
      PROVE  ~Finished(pending[i])' /\ receipts'[pending[i]] = LastAttempt(pending[i])'
  <2>1. i >= next /\ pending[i] \in Task
    BY <1>1 DEF Alone, CampaignInv, PendingIsSound
  <2>2. pending[i] # worker[w].task
    BY <2>1, WorkerAtWork DEF CampaignConstants
  <2>3. ledger'[pending[i]] = ledger[pending[i]] /\ artifacts'[pending[i]] = artifacts[pending[i]]
    BY <2>1, <2>2 DEF Alone
  <2>4. ~Finished(pending[i]) /\ receipts[pending[i]] = LastAttempt(pending[i])
    BY <2>1 DEF Alone, CampaignInv, RestIsUntouched
  <2>5. pending' = pending /\ receipts' = receipts
    BY DEF Alone
  <2> QED BY <2>3, <2>4, <2>5 DEF LastAttempt, LastStatus, HasArtifacts, Completed, Incomplete,
             Finished
<1> QED BY <1>1 DEF Alone, CampaignInv, RestIsUntouched, Running

\* The state of a worker is replaced.
LEMMA WorkerSet ==
  ASSUME CampaignTypeOK, NEW w \in Worker, NEW r \in WorkerState, Set(w, r)
  PROVE  /\ worker' \in [Worker -> WorkerState]
         /\ worker'[w] = r
         /\ \A v \in Worker \ {w} : worker'[v] = worker[v]
BY DEF Set, CampaignTypeOK

LEMMA IdleStates ==
  ASSUME CampaignConstants, NEW step \in {"take", "done", "rejected"}
  PROVE  /\ [Absent EXCEPT !.step = step] \in WorkerState
         /\ [Absent EXCEPT !.step = step].step = step
         /\ [Absent EXCEPT !.step = step].task = None
BY DEF Absent, WorkerState, CampaignConstants, Status

-----------------------------------------------------------------------------
(* The steps of a worker. *)

\* The parts of the invariant that do not count.
CampaignCore ==
    /\ manifest \in Config \cup {None, "torn"} /\ ledger \in [Task -> Seq(Receipt)]
    /\ garbled \in BOOLEAN /\ torn \in BOOLEAN /\ aborted \in BOOLEAN
    /\ artifacts \in [Task -> [Attempt -> {"absent", "some", "all"}]]
    /\ phase \in {"down", "running", "returned"} /\ config \in Config \cup {None}
    /\ receipts \in [Task -> 0 .. MaxAttempt] /\ worker \in [Worker -> WorkerState]
    /\ pending \in Seq(Task) /\ next \in Nat \ {0}
    /\ \A i, j \in DOMAIN pending : pending[i] = pending[j] => i = j
    /\ WorkersAreSound /\ RestIsUntouched /\ AttemptsIncrease /\ LedgerIsOfManifest

\* A task is taken from the list.
LEMMA TakeKeepsCore ==
  ASSUME CampaignConstants, CampaignInv, NEW w \in Worker, Take(w)
  PROVE  CampaignCore'
<1>1. worker[w].task = None /\ ~AtWork(w)
  BY DEF Take, AtWork, CampaignInv, WorkersAreSound, WorkerIsSound
<1>2. CASE ~aborted /\ next <= Len(pending)
  <2>1. PICK t \in Task : next \in DOMAIN pending /\ t = pending[next]
    BY <1>2 DEF CampaignInv, PendingIsSound
  <2> DEFINE r == [step |-> "scan", task |-> t, retry |-> 0, attempt |-> receipts[t] + 1,
                   status |-> None]
  <2>2. ~Finished(t) /\ receipts[t] = LastAttempt(t) /\ receipts[t] + MaxAttempts <= MaxAttempt
    BY <2>1 DEF Take, CampaignInv, PendingIsSound, RestIsUntouched, Running
  <2>3. receipts[t] \in Nat /\ r \in WorkerState
    BY <2>1, <2>2 DEF CampaignInv, CampaignTypeOK, CampaignConstants, WorkerState, Attempt
  <2>4. Set(w, r) /\ next' = next + 1
    BY <1>2, <2>1 DEF Take
  <2> HIDE DEF r
  <2>5. /\ worker' \in [Worker -> WorkerState] /\ worker'[w] = r
        /\ \A v \in Worker \ {w} : worker'[v] = worker[v]
    BY <2>3, <2>4, WorkerSet DEF CampaignInv
  <2>6. Alone(w)
    BY <2>4, <2>5 DEF Take, Alone, Running, disk
  <2>7. \A v \in Worker \ {w} : AtWork(v) => worker[v].task # t
    BY <2>1, WorkerAtWork DEF CampaignInv, PendingIsSound
  <2>8. \A v \in Worker \ {w} : WorkerIsSound(v)'
    BY <2>5, <2>6, <2>7, OthersStay DEF r
  <2>9. WorkerIsSound(w)'
    <3> USE DEF r
    <3>1. \A v \in Worker \ {w} : worker'[v].task # t
      BY <2>1, <2>5, <2>7 DEF CampaignInv, WorkersAreSound, WorkerIsSound, CampaignConstants
    <3>2. \E i \in DOMAIN pending' : i < next' /\ pending'[i] = t
      BY <2>1, <2>4 DEF Take, CampaignInv, PendingIsSound
    <3>3. ~Finished(t)' /\ LastAttempt(t)' = LastAttempt(t)
      BY <2>2, <2>6 DEF Take, disk, Alone, LastAttempt, LastStatus, HasArtifacts, Completed,
         Incomplete, Finished
    <3> QED BY <2>2, <2>3, <2>5, <3>1, <3>2, <3>3
            DEF WorkerIsSound, AtWork, Running, Take, CampaignConstants
  <2>10. RestIsUntouched'
    BY <1>1, <2>6, RestStays
  <2>11. WorkersAreSound'
    BY <2>8, <2>9 DEF WorkersAreSound
  <2>12. AttemptsIncrease' /\ LedgerIsOfManifest'
    BY DEF CampaignInv, Take, disk, AttemptsIncrease, LedgerIsOfManifest, Running
  <2>13. next' \in Nat \ {0}
    BY <2>4 DEF CampaignInv, CampaignTypeOK
  <2> QED BY <2>4, <2>5, <2>10, <2>11, <2>12, <2>13
          DEF CampaignCore, CampaignInv, CampaignTypeOK, PendingIsSound, Take, disk
<1>3. CASE aborted \/ next > Len(pending)
  <2>1. PICK step \in {"done", "rejected"} : Set(w, [Absent EXCEPT !.step = step])
    BY <1>3 DEF Take, Reject, Absent, CampaignInv, PendingIsSound
  <2> DEFINE r == [Absent EXCEPT !.step = step]
  <2>2. r \in WorkerState /\ r.step = step /\ r.task = None
    BY IdleStates
  <2> HIDE DEF r
  <2>3. /\ worker' \in [Worker -> WorkerState] /\ worker'[w] = r
        /\ \A v \in Worker \ {w} : worker'[v] = worker[v]
    BY <2>1, <2>2, WorkerSet DEF CampaignInv, r
  <2>4. Alone(w) /\ next' \in Nat \ {0}
    BY <2>3 DEF Take, Alone, Running, disk, CampaignInv, PendingIsSound
  <2>5. \A v \in Worker \ {w} : WorkerIsSound(v)'
    BY <2>2, <2>3, <2>4, WorkerAtWork, OthersStay DEF CampaignConstants
  <2>6. WorkerIsSound(w)'
    BY <2>2, <2>3, <2>4 DEF WorkerIsSound, AtWork, Alone, Running
  <2>7. RestIsUntouched'
    BY <1>1, <2>4, RestStays
  <2> QED BY <2>3, <2>4, <2>5, <2>6, <2>7
          DEF CampaignCore, CampaignInv, CampaignTypeOK, PendingIsSound, WorkersAreSound, Take,
              disk, AttemptsIncrease, LedgerIsOfManifest, Running
<1> QED BY <1>2, <1>3 DEF CampaignInv, PendingIsSound

\* A worker at work comes to the state r and has changed nothing but what belongs to its task.
LEMMA BusyStep ==
  ASSUME CampaignConstants, CampaignInv, NEW w \in Worker, AtWork(w),
         NEW t \in Task, t = worker[w].task, NEW r \in WorkerState, Set(w, r),
         phase' = phase, pending' = pending, receipts' = receipts, next' = next,
         \A u \in Task \ {t} : ledger'[u] = ledger[u] /\ artifacts'[u] = artifacts[u],
         r.step \in {"scan", "record"} \/ r.task = None,
         r.step \in {"scan", "record"} =>
            /\ r.task = t /\ r.retry < MaxAttempts /\ r.attempt = receipts[t] + r.retry + 1
            /\ r.attempt > LastAttempt(t)' /\ ~Finished(t)',
         r.step = "record" =>
            /\ r.status \in {"completed", "completed_with_incomplete_coverage",
                             "failed", "exhausted"}
            /\ r.status \notin {"failed", "exhausted"} => artifacts'[t][r.attempt] = "all"
  PROVE  /\ worker' \in [Worker -> WorkerState] /\ worker'[w] = r
         /\ \A v \in Worker \ {w} : worker'[v] = worker[v]
         /\ WorkersAreSound' /\ RestIsUntouched'
<1>1. Running /\ \A i \in DOMAIN pending : i >= next => pending[i] # t
  BY WorkerAtWork
<1>2. /\ worker' \in [Worker -> WorkerState] /\ worker'[w] = r
      /\ \A v \in Worker \ {w} : worker'[v] = worker[v]
  BY WorkerSet DEF CampaignInv
<1>3. Alone(w)
  BY <1>1, <1>2 DEF Alone
<1>4. \A v \in Worker \ {w} : worker[v].task # t
  BY DEF CampaignInv, WorkersAreSound, WorkerIsSound
<1>5. \A v \in Worker \ {w} : AtWork(v) => worker[v].task # r.task
  <2> SUFFICES ASSUME NEW v \in Worker \ {w}, AtWork(v) PROVE worker[v].task # r.task
    OBVIOUS
  <2>1. worker[v].task \in Task
    BY WorkerAtWork
  <2> QED BY <1>4, <2>1 DEF CampaignConstants
<1>6. \A v \in Worker \ {w} : WorkerIsSound(v)'
  BY <1>2, <1>3, <1>5, OthersStay
<1>7. WorkerIsSound(w)'
  <2>1. PICK i \in DOMAIN pending : i < next /\ pending[i] = t
    BY DEF CampaignInv, WorkersAreSound, WorkerIsSound
  <2>2. \E j \in DOMAIN pending' : j < next' /\ pending'[j] = t
    BY <2>1
  <2> QED BY <1>1, <1>2, <1>4, <2>2 DEF WorkerIsSound, AtWork, Running
<1>8. RestIsUntouched'
  BY <1>3, RestStays
<1> QED BY <1>2, <1>6, <1>7, <1>8 DEF WorkersAreSound

\* A scan leaves its artifacts in a directory that no receipt points to.
LEMMA ScanKeepsCore ==
  ASSUME CampaignConstants, CampaignInv, NEW w \in Worker, Scan(w)
  PROVE  /\ CampaignCore'
         /\ \A t \in Task : LastStatus(t)' = LastStatus(t)
         /\ CompletedTasks' = CompletedTasks /\ IncompleteTasks' = IncompleteTasks
         /\ FinishedTasks' = FinishedTasks
<1>1. AtWork(w) /\ WorkerIsSound(w) /\ worker[w] \in WorkerState /\ CampaignTypeOK
  BY DEF Scan, AtWork, CampaignInv, WorkersAreSound, CampaignTypeOK
<1>2. PICK t \in Task, n \in Attempt : t = worker[w].task /\ n = worker[w].attempt
  BY <1>1, WorkerAtWork
<1>3. n > LastAttempt(t) /\ ~Finished(t)
  BY <1>1, <1>2, WorkerAtWork
<1>4. PICK status \in {"completed", "completed_with_incomplete_coverage", "failed", "exhausted"},
           left \in {"absent", "some", "all"} :
        /\ artifacts[t][n] # "absent" => status = "failed" /\ left = artifacts[t][n]
        /\ status \in {"completed", "completed_with_incomplete_coverage"} => left = "all"
        /\ artifacts' = [artifacts EXCEPT ![t][n] = left]
        /\ IF aborted /\ status \in {"failed", "exhausted"}
           THEN Reject(w)
           ELSE Set(w, [worker[w] EXCEPT !.step = "record", !.status = status])
  BY <1>2 DEF Scan
<1>5. /\ artifacts' \in [Task -> [Attempt -> {"absent", "some", "all"}]]
      /\ artifacts'[t][n] = left
      /\ \A m \in Attempt \ {n} : artifacts'[t][m] = artifacts[t][m]
      /\ \A u \in Task \ {t} : artifacts'[u] = artifacts[u]
  <2>1. artifacts \in [Task -> [Attempt -> {"absent", "some", "all"}]]
    BY <1>1 DEF CampaignTypeOK
  <2> QED BY ONLY <1>4, <2>1
<1>6. /\ ledger' = ledger /\ phase' = phase /\ pending' = pending /\ next' = next
      /\ receipts' = receipts
  BY DEF Scan
<1>7. \A u \in Task : /\ LastAttempt(u)' = LastAttempt(u) /\ LastStatus(u)' = LastStatus(u)
                      /\ Completed(u)' = Completed(u) /\ Incomplete(u)' = Incomplete(u)
                      /\ Finished(u)' = Finished(u)
  <2> SUFFICES ASSUME NEW u \in Task
               PROVE  /\ LastAttempt(u)' = LastAttempt(u) /\ LastStatus(u)' = LastStatus(u)
                      /\ Completed(u)' = Completed(u) /\ Incomplete(u)' = Incomplete(u)
                      /\ Finished(u)' = Finished(u)
    OBVIOUS
  <2>1. LastAttempt(u)' = LastAttempt(u) /\ LastStatus(u)' = LastStatus(u)
    BY <1>6 DEF LastAttempt, LastStatus
  <2>2. LastAttempt(u) > 0 => artifacts'[u][LastAttempt(u)] = artifacts[u][LastAttempt(u)]
    <3>1. LastAttempt(u) \in 0 .. MaxAttempt
      BY <1>1, LastReceipt
    <3> QED BY <1>3, <1>5, <3>1 DEF Attempt, CampaignConstants
  <2> HIDE DEF LastAttempt, LastStatus
  <2> QED BY <2>1, <2>2 DEF HasArtifacts, Completed, Incomplete, Finished
<1>8. /\ worker' \in [Worker -> WorkerState]
      /\ WorkersAreSound' /\ RestIsUntouched'
  <2>1. CASE Reject(w)
    BY <1>1, <1>2, <1>5, <1>6, <2>1, IdleStates, BusyStep DEF Reject
  <2>2. CASE Set(w, [worker[w] EXCEPT !.step = "record", !.status = status])
    <3> DEFINE r == [worker[w] EXCEPT !.step = "record", !.status = status]
    <3>1. /\ r \in WorkerState /\ r.step = "record" /\ r.task = t /\ r.attempt = n
          /\ r.retry = worker[w].retry /\ r.status = status
      BY <1>1, <1>2 DEF WorkerState, Status
    <3>2. r.retry < MaxAttempts /\ r.attempt = receipts[t] + r.retry + 1
      BY <1>1, <1>2, <3>1 DEF WorkerIsSound
    <3>3. r.status \notin {"failed", "exhausted"} => artifacts'[t][r.attempt] = "all"
      BY <1>4, <1>5, <3>1
    <3> HIDE DEF r
    <3>4. Set(w, r)
      BY <2>2 DEF r
    <3> QED BY <1>1, <1>2, <1>3, <1>5, <1>6, <1>7, <3>1, <3>2, <3>3, <3>4, BusyStep
  <2> QED BY <1>4, <2>1, <2>2
<1>9. CampaignCore'
  BY <1>5, <1>6, <1>8 DEF Scan, CampaignCore, CampaignInv, CampaignTypeOK, PendingIsSound,
     AttemptsIncrease, LedgerIsOfManifest, Running
<1> QED BY <1>7, <1>9 DEF CompletedTasks, IncompleteTasks, FinishedTasks

\* A receipt of a new attempt is the last one, and the attempts still increase.
LEMMA Appended ==
  ASSUME CampaignConstants, CampaignInv, NEW t \in Task, NEW e \in Receipt,
         e.attempt > LastAttempt(t), ledger' = [ledger EXCEPT ![t] = Append(@, e)]
  PROVE  /\ ledger' \in [Task -> Seq(Receipt)]
         /\ \A u \in Task \ {t} : ledger'[u] = ledger[u]
         /\ LastAttempt(t)' = e.attempt /\ LastStatus(t)' = e.status
         /\ \A i \in DOMAIN ledger'[t] :
               \/ i \in DOMAIN ledger[t] /\ ledger'[t][i] = ledger[t][i]
               \/ ledger'[t][i] = e
         /\ AttemptsIncrease'
<1>1. ledger \in [Task -> Seq(Receipt)] /\ ledger[t] \in Seq(Receipt) /\ CampaignTypeOK
  BY DEF CampaignInv, CampaignTypeOK
<1>2. /\ ledger'[t] = Append(ledger[t], e)
      /\ \A u \in Task \ {t} : ledger'[u] = ledger[u]
      /\ ledger' \in [Task -> Seq(Receipt)]
  BY <1>1
<1>3. /\ Len(ledger'[t]) = Len(ledger[t]) + 1
      /\ \A i \in 1 .. Len(ledger[t]) : ledger'[t][i] = ledger[t][i]
      /\ ledger'[t][Len(ledger[t]) + 1] = e
      /\ DOMAIN ledger[t] = 1 .. Len(ledger[t])
      /\ DOMAIN ledger'[t] = 1 .. Len(ledger[t]) + 1
      /\ Len(ledger[t]) \in Nat /\ ledger'[t] # <<>>
  BY <1>1, <1>2
<1>4. LastAttempt(t)' = e.attempt /\ LastStatus(t)' = e.status
  BY <1>3 DEF LastAttempt, LastStatus, Last
<1>5. \A i \in DOMAIN ledger[t] : ledger[t][i].attempt < e.attempt
  <2> SUFFICES ASSUME NEW i \in DOMAIN ledger[t] PROVE ledger[t][i].attempt < e.attempt
    OBVIOUS
  <2>1. ledger[t] # <<>> /\ i <= Len(ledger[t]) /\ i \in Nat
    BY <1>3
  <2>2. LastAttempt(t) = ledger[t][Len(ledger[t])].attempt /\ Len(ledger[t]) \in DOMAIN ledger[t]
    BY <1>1, <2>1, LastReceipt DEF LastAttempt
  <2>3. i # Len(ledger[t]) => ledger[t][i].attempt < ledger[t][Len(ledger[t])].attempt
    BY <1>3, <2>1, <2>2 DEF CampaignInv, AttemptsIncrease
  <2>4. ledger[t][i].attempt \in Nat /\ LastAttempt(t) \in Nat /\ e.attempt \in Nat
    <3>1. ledger[t][i] \in Receipt
      BY <1>1
    <3>2. LastAttempt(t) \in Nat
      BY <1>1, LastReceipt
    <3> QED BY <3>1, <3>2 DEF Receipt, Attempt
  <2> QED BY <2>2, <2>3, <2>4
<1>6. AttemptsIncrease'
  <2> SUFFICES ASSUME NEW u \in Task, NEW i \in DOMAIN ledger'[u], NEW j \in DOMAIN ledger'[u],
                      i < j
               PROVE  ledger'[u][i].attempt < ledger'[u][j].attempt
    BY DEF AttemptsIncrease
  <2>1. CASE u # t
    BY <1>2, <2>1 DEF CampaignInv, AttemptsIncrease
  <2>2. CASE u = t /\ j <= Len(ledger[t])
    BY <1>3, <2>2 DEF CampaignInv, AttemptsIncrease
  <2>3. CASE u = t /\ j = Len(ledger[t]) + 1
    BY <1>3, <1>5, <2>3
  <2> QED BY <1>3, <2>1, <2>2, <2>3
<1> QED BY <1>2, <1>3, <1>4, <1>6

\* A receipt is written, unless a piece of another one is in the way.  If the task is not
\* tried again, the worker gives it up and counts it as what the receipt says.
LEMMA RecordKeepsCore ==
  ASSUME CampaignConstants, CampaignInv, NEW w \in Worker, Record(w),
         NEW t \in Task, t = worker[w].task
  PROVE  /\ CampaignCore' /\ artifacts' = artifacts
         /\ \A u \in Task \ {t} : ledger'[u] = ledger[u]
         /\ worker[w].status \in {"completed", "completed_with_incomplete_coverage",
                                  "failed", "exhausted"}
         /\ ~torn => /\ LastStatus(t)' # None
                     /\ Completed(t)' <=> worker[w].status = "completed"
                     /\ Incomplete(t)' <=>
                          worker[w].status = "completed_with_incomplete_coverage"
         /\ \A v \in Worker \ {w} : worker'[v] = worker[v]
         /\ \/ /\ worker[w].status = "failed" /\ count' = count
               /\ \/ worker'[w].step = "scan" /\ worker'[w].task = t
                  \/ worker'[w].step = "rejected"
            \/ worker'[w].step = "take" /\ worker'[w].task = None
<1>1. AtWork(w) /\ WorkerIsSound(w) /\ worker[w] \in WorkerState /\ CampaignTypeOK
  BY DEF Record, AtWork, CampaignInv, WorkersAreSound, CampaignTypeOK
<1>2. PICK n \in Attempt : n = worker[w].attempt
  BY <1>1, WorkerAtWork
<1>3. n > LastAttempt(t) /\ ~Finished(t) /\ Running
  BY <1>1, <1>2, WorkerAtWork
<1>4. PICK status \in {"completed", "completed_with_incomplete_coverage", "failed", "exhausted"} :
        /\ status = worker[w].status
        /\ status \notin {"failed", "exhausted"} => artifacts[t][n] = "all"
  BY <1>1, <1>2 DEF Record, WorkerIsSound
<1> DEFINE e == [attempt |-> n, config |-> config,
                 status |-> IF status = "exhausted" THEN "failed" ELSE status]
<1>5. e \in Receipt /\ config \in Config /\ e.config = manifest /\ manifest \in Config
  BY <1>1, <1>3 DEF Receipt, Status, CampaignInv, LedgerIsOfManifest
<1>6. /\ artifacts' = artifacts /\ phase' = phase /\ pending' = pending /\ receipts' = receipts
      /\ next' = next /\ manifest' = manifest /\ config' = config /\ aborted' = aborted
  BY DEF Record
<1>7. /\ ledger' \in [Task -> Seq(Receipt)]
      /\ \A u \in Task \ {t} : ledger'[u] = ledger[u]
      /\ LastAttempt(t)' <= n
      /\ status = "failed" => ~Finished(t)'
      /\ ~torn => /\ LastStatus(t)' # None
                  /\ Completed(t)' <=> status = "completed"
                  /\ Incomplete(t)' <=> status = "completed_with_incomplete_coverage"
      /\ AttemptsIncrease' /\ LedgerIsOfManifest'
  <2>1. CASE torn
    <3>1. ledger' = ledger
      BY <2>1 DEF Record, AppendReceipt
    <3>2. LastAttempt(t) \in Nat
      BY <1>1, LastReceipt
    <3>3. AttemptsIncrease' /\ LedgerIsOfManifest'
      BY <1>6, <3>1 DEF CampaignInv, AttemptsIncrease, LedgerIsOfManifest, Running
    <3>4. LastAttempt(t)' <= n /\ ~Finished(t)'
      BY <1>3, <1>6, <3>1, <3>2 DEF LastAttempt, LastStatus, HasArtifacts, Completed, Incomplete,
         Finished, Attempt
    <3> QED BY <1>1, <2>1, <3>1, <3>3, <3>4 DEF CampaignTypeOK
  <2>2. CASE ~torn
    <3>1. ledger' = [ledger EXCEPT ![t] = Append(@, e)]
      BY <1>2, <1>4, <2>2 DEF Record, AppendReceipt
    <3>2. e.attempt = n /\ e.status = (IF status = "exhausted" THEN "failed" ELSE status)
      OBVIOUS
    <3> HIDE DEF e
    <3>3. /\ ledger' \in [Task -> Seq(Receipt)]
          /\ \A u \in Task \ {t} : ledger'[u] = ledger[u]
          /\ LastAttempt(t)' = n /\ LastStatus(t)' = e.status
          /\ \A i \in DOMAIN ledger'[t] :
                \/ i \in DOMAIN ledger[t] /\ ledger'[t][i] = ledger[t][i]
                \/ ledger'[t][i] = e
          /\ AttemptsIncrease'
      <4>1. e.attempt > LastAttempt(t)
        BY <1>3, <3>2
      <4>2. e \in Receipt
        BY <1>5
      <4>3. /\ ledger' \in [Task -> Seq(Receipt)]
            /\ \A u \in Task \ {t} : ledger'[u] = ledger[u]
            /\ LastAttempt(t)' = e.attempt /\ LastStatus(t)' = e.status
        BY ONLY <3>1, <4>1, <4>2, CampaignConstants, CampaignInv, Appended
      <4>4. \A i \in DOMAIN ledger'[t] :
               \/ i \in DOMAIN ledger[t] /\ ledger'[t][i] = ledger[t][i]
               \/ ledger'[t][i] = e
        BY ONLY <3>1, <4>1, <4>2, CampaignConstants, CampaignInv, Appended
      <4>5. AttemptsIncrease'
        BY ONLY <3>1, <4>1, <4>2, CampaignConstants, CampaignInv, Appended
      <4> QED BY <3>2, <4>3, <4>4, <4>5
    <3>4. /\ LastStatus(t)' # None
          /\ Completed(t)' <=> status = "completed"
          /\ Incomplete(t)' <=> status = "completed_with_incomplete_coverage"
      <4>1. n > 0
        BY DEF Attempt
      <4> HIDE DEF LastAttempt, LastStatus
      <4> QED BY <1>4, <1>6, <3>2, <3>3, <4>1
              DEF HasArtifacts, Completed, Incomplete, CampaignConstants, Status
    <3>5. LedgerIsOfManifest'
      <4>1. ASSUME NEW u \in Task, NEW i \in DOMAIN ledger'[u]
            PROVE  ledger'[u][i].config \in {None, manifest}
        BY <1>5, <3>3 DEF CampaignInv, LedgerIsOfManifest
      <4> QED BY <1>6, <4>1 DEF CampaignInv, LedgerIsOfManifest, Running
    <3>6. n <= n
      BY DEF Attempt
    <3> QED BY <3>3, <3>4, <3>5, <3>6 DEF Finished
  <2> QED BY <1>1, <2>1, <2>2 DEF CampaignTypeOK
<1>8. /\ worker' \in [Worker -> WorkerState]
      /\ \A v \in Worker \ {w} : worker'[v] = worker[v]
      /\ WorkersAreSound' /\ RestIsUntouched'
      /\ \/ /\ status = "failed" /\ count' = count
            /\ \/ worker'[w].step = "scan" /\ worker'[w].task = t
               \/ worker'[w].step = "rejected"
         \/ worker'[w].step = "take" /\ worker'[w].task = None
  <2>1. ASSUME NEW step \in {"take", "rejected"}, Set(w, [Absent EXCEPT !.step = step])
        PROVE  /\ worker' \in [Worker -> WorkerState]
               /\ \A v \in Worker \ {w} : worker'[v] = worker[v]
               /\ WorkersAreSound' /\ RestIsUntouched'
               /\ worker'[w].step = step /\ worker'[w].task = None
    <3> DEFINE r == [Absent EXCEPT !.step = step]
    <3>1. r \in WorkerState /\ r.step = step /\ r.task = None
      BY IdleStates
    <3> HIDE DEF r
    <3>2. Set(w, r)
      BY <2>1 DEF r
    <3> QED BY <1>1, <1>6, <1>7, <3>1, <3>2, BusyStep
  <2>2. CASE status = "failed" /\ worker[w].retry + 1 < MaxAttempts /\ ~aborted
    <3> DEFINE r == [worker[w] EXCEPT !.step = "scan", !.status = None,
                                      !.attempt = @ + 1, !.retry = @ + 1]
    <3>1. worker[w].retry \in Nat /\ worker[w].attempt = receipts[t] + worker[w].retry + 1
      BY <1>1 DEF WorkerIsSound, WorkerState
    <3>2. receipts[t] + MaxAttempts <= MaxAttempt /\ receipts[t] \in Nat
      BY <1>1, <1>3 DEF CampaignInv, RestIsUntouched, CampaignTypeOK
    <3>3. /\ r.step = "scan" /\ r.task = t /\ r.attempt = n + 1 /\ r.status = None
          /\ r.retry = worker[w].retry + 1
      BY <1>1, <1>2 DEF WorkerState
    <3>4. r \in WorkerState
      <4>1. worker[w].retry + 1 \in 0 .. MaxAttempts /\ worker[w].attempt + 1 \in 0 .. MaxAttempt
        BY <1>2, <2>2, <3>1, <3>2 DEF Attempt, CampaignConstants
      <4> QED BY <1>1, <4>1 DEF WorkerState
    <3>5. r.attempt = receipts[t] + r.retry + 1 /\ r.attempt > LastAttempt(t)'
      <4>1. LastAttempt(t)' <= n /\ n \in Nat
        BY <1>7 DEF Attempt
      <4>2. LastAttempt(t)' \in Nat
        <5>1. ledger'[t] # <<>> => Last(ledger'[t]) \in Receipt
          BY <1>7 DEF Last
        <5> QED BY <5>1 DEF LastAttempt, Receipt, Attempt
      <4> QED BY <1>2, <3>1, <3>2, <3>3, <4>1, <4>2
    <3>6. Set(w, r) /\ count' = count
      BY <1>4, <2>2 DEF Record, Retry
    <3> HIDE DEF r
    <3>7. /\ worker' \in [Worker -> WorkerState] /\ worker'[w] = r
          /\ \A v \in Worker \ {w} : worker'[v] = worker[v]
          /\ WorkersAreSound' /\ RestIsUntouched'
      BY <1>1, <1>6, <1>7, <2>2, <3>3, <3>4, <3>5, <3>6, BusyStep
    <3> QED BY <2>2, <3>3, <3>6, <3>7
  <2>3. CASE status = "failed" /\ worker[w].retry + 1 < MaxAttempts /\ aborted
    <3>1. Set(w, [Absent EXCEPT !.step = "rejected"]) /\ count' = count
      BY <1>4, <2>3 DEF Record, Retry, Reject
    <3> QED BY <2>1, <2>3, <3>1
  <2>4. CASE ~(status = "failed" /\ worker[w].retry + 1 < MaxAttempts)
    <3>1. Set(w, [Absent EXCEPT !.step = "take"])
      BY <1>4, <2>4 DEF Record
    <3> QED BY <2>1, <3>1
  <2> QED BY <1>1, <2>2, <2>3, <2>4 DEF CampaignTypeOK
<1>9. torn' \in BOOLEAN /\ garbled' \in BOOLEAN /\ aborted' \in BOOLEAN
  BY <1>1 DEF Record, AppendReceipt, CampaignTypeOK
<1>10. CampaignCore'
  BY <1>1, <1>6, <1>7, <1>8, <1>9 DEF CampaignCore, CampaignInv, CampaignTypeOK, PendingIsSound
<1> QED BY <1>4, <1>6, <1>7, <1>8, <1>10

\* A receipt that cannot be written ends its worker.
LEMMA AppendFailsKeepsCore ==
  ASSUME CampaignConstants, CampaignInv, NEW w \in Worker, AppendFails(w)
  PROVE  /\ CampaignCore'
         /\ worker'[w].step = "rejected"
         /\ \A v \in Worker \ {w} : worker'[v] = worker[v]
<1>1. AtWork(w) /\ CampaignTypeOK
  BY DEF AppendFails, AtWork, CampaignInv
<1>2. PICK t \in Task : t = worker[w].task
  BY <1>1, WorkerAtWork
<1>3. /\ worker' \in [Worker -> WorkerState] /\ worker'[w].step = "rejected"
      /\ \A v \in Worker \ {w} : worker'[v] = worker[v]
      /\ WorkersAreSound' /\ RestIsUntouched'
  BY <1>1, <1>2, IdleStates, BusyStep DEF AppendFails, Reject
<1>4. torn' \in BOOLEAN
  BY <1>1 DEF AppendFails, CampaignTypeOK
<1>5. CampaignCore'
  BY <1>1, <1>3, <1>4 DEF AppendFails, CampaignCore, CampaignInv, CampaignTypeOK, PendingIsSound,
     AttemptsIncrease, LedgerIsOfManifest, Running
<1> QED BY <1>3, <1>5

-----------------------------------------------------------------------------
(* A campaign begins and ends, and what happens to it. *)

\* SetToSeq lists a finite set once.
LEMMA Listed ==
  ASSUME NEW S, IsFiniteSet(S)
  PROVE  /\ SetToSeq(S) \in Seq(S) /\ Len(SetToSeq(S)) = Cardinality(S)
         /\ \A i, j \in DOMAIN SetToSeq(S) : SetToSeq(S)[i] = SetToSeq(S)[j] => i = j
         /\ S = {SetToSeq(S)[i] : i \in DOMAIN SetToSeq(S)}
<1> DEFINE n == Cardinality(S)
<1>1. n \in Nat /\ ExistsBijection(1 .. n, S)
  BY FS_CardinalityType
<1>2. PICK g \in [1 .. n -> S] : IsInjective(g)
  BY <1>1 DEF ExistsBijection, Bijection, Injection
<1>3. SetToSeq(S) \in [1 .. n -> S] /\ IsInjective(SetToSeq(S))
  BY <1>2 DEF SetToSeq
<1> DEFINE f == SetToSeq(S)
<1>4. f \in Injection(1 .. n, S)
  BY <1>3 DEF Injection, IsInjective
<1>5. f \in Surjection(1 .. n, S)
  <2>1. IsFiniteSet(1 .. n) /\ Cardinality(1 .. n) = n
    BY <1>1, FS_Interval
  <2> QED BY <1>4, <2>1, FS_Injection
<1>6. S = {f[i] : i \in 1 .. n}
  BY <1>3, <1>5 DEF Surjection
<1> HIDE DEF n
<1>7. f \in Seq(S) /\ DOMAIN f = 1 .. n /\ Len(f) = n
  BY <1>1, <1>3
<1> QED BY <1>3, <1>6, <1>7 DEF IsInjective, n

\* A campaign lists what is not finished, and its workers stand by.
LEMMA RunKeepsCore ==
  ASSUME CampaignConstants, CampaignInv, NEW c \in Config, Run(c)
  PROVE  /\ CampaignCore'
         /\ Len(pending') = Cardinality(Task \ FinishedTasks)
         /\ Task \ FinishedTasks = {pending'[i] : i \in DOMAIN pending'}
         /\ \A w \in Worker : worker'[w].task = None /\ worker'[w].step \in {"take", "done"}
         /\ Len(pending') > 0 => \E w \in Worker : worker'[w].step = "take"
<1> DEFINE S == Task \ FinishedTasks
<1>1. IsFiniteSet(S) /\ CampaignTypeOK
  BY FS_Subset DEF CampaignConstants, CampaignInv
<1>2. /\ pending' \in Seq(S) /\ Len(pending') = Cardinality(S)
      /\ \A i, j \in DOMAIN pending' : pending'[i] = pending'[j] => i = j
      /\ S = {pending'[i] : i \in DOMAIN pending'}
  <2>1. pending' = SetToSeq(S)
    BY DEF Run
  <2> HIDE DEF S
  <2> QED BY <1>1, <2>1, Listed
<1>3. pending' \in Seq(Task) /\ \A i \in DOMAIN pending' : pending'[i] \in S
  BY <1>2
<1>4. PICK W \in SUBSET Worker :
        /\ Cardinality(W) = Min({Cardinality(Worker), Len(pending')})
        /\ worker' = [w \in Worker |-> [Absent EXCEPT !.step =
                          IF w \in W THEN "take" ELSE "done"]]
  BY DEF Run
<1>5. \A w \in Worker : /\ worker'[w] \in WorkerState /\ worker'[w].task = None
                        /\ worker'[w].step = IF w \in W THEN "take" ELSE "done"
  BY <1>4, IdleStates
<1>6. worker' \in [Worker -> WorkerState]
  BY <1>4, <1>5
<1>7. Len(pending') > 0 => W # {}
  <2>1. Cardinality(Worker) \in Nat /\ Cardinality(Worker) # 0
    BY FS_CardinalityType, FS_EmptySet DEF CampaignConstants
  <2>2. Len(pending') \in Nat
    BY <1>3
  <2>3. \E m \in {Cardinality(Worker), Len(pending')} :
           \A k \in {Cardinality(Worker), Len(pending')} : m <= k
    BY <2>1, <2>2
  <2>4. Min({Cardinality(Worker), Len(pending')}) \in {Cardinality(Worker), Len(pending')}
    BY <2>3 DEF Min
  <2>5. Len(pending') > 0 => Cardinality(W) # 0
    BY <1>4, <2>1, <2>4
  <2> QED BY <2>5, FS_EmptySet
<1>8. /\ next' = 1 /\ aborted' = FALSE /\ phase' = "running" /\ config' = c /\ manifest' = c
      /\ manifest \in {None, c} /\ torn' = FALSE
      /\ ledger' = ledger /\ garbled' = garbled /\ artifacts' = artifacts
      /\ receipts' = [t \in Task |-> LastAttempt(t)]
      /\ \A t \in Task : LastAttempt(t) + MaxAttempts <= MaxAttempt
  BY DEF Run, EnsureManifest
<1>9. receipts' \in [Task -> 0 .. MaxAttempt]
  BY <1>1, <1>8, LastReceipt
<1>10. WorkersAreSound'
  BY <1>5, <1>8 DEF WorkersAreSound, WorkerIsSound, AtWork, Running
<1>11. RestIsUntouched'
  <2>1. \A t \in Task : Finished(t)' = Finished(t) /\ LastAttempt(t)' = LastAttempt(t)
    BY <1>8 DEF LastAttempt, LastStatus, HasArtifacts, Completed, Incomplete, Finished
  <2>2. \A i \in DOMAIN pending' : pending'[i] \in Task /\ ~Finished(pending'[i])
    BY <1>3 DEF FinishedTasks
  <2>3. \A i \in DOMAIN pending' : ~Finished(pending[i])'
    BY <1>8, <2>2 DEF LastAttempt, LastStatus, HasArtifacts, Completed, Incomplete, Finished
  <2>4. \A i \in DOMAIN pending' : receipts'[pending'[i]] = LastAttempt(pending[i])'
    BY <1>8, <2>2 DEF LastAttempt
  <2> QED BY <1>8, <2>3, <2>4 DEF RestIsUntouched, Running
<1>12. LedgerIsOfManifest'
  BY <1>8 DEF CampaignInv, LedgerIsOfManifest, Running
<1>13. CampaignCore'
  <2>1. /\ manifest' \in Config \cup {None, "torn"} /\ ledger' \in [Task -> Seq(Receipt)]
        /\ artifacts' \in [Task -> [Attempt -> {"absent", "some", "all"}]]
        /\ phase' \in {"down", "running", "returned"} /\ config' \in Config \cup {None}
        /\ next' \in Nat \ {0}
    BY <1>1, <1>8 DEF CampaignTypeOK
  <2>3. garbled' \in BOOLEAN /\ torn' \in BOOLEAN /\ aborted' \in BOOLEAN
    BY <1>1, <1>8 DEF CampaignTypeOK
  <2>2. AttemptsIncrease'
    BY <1>8 DEF CampaignInv, AttemptsIncrease
  <2> QED BY <1>2, <1>3, <1>6, <1>9, <1>10, <1>11, <1>12, <2>1, <2>2, <2>3 DEF CampaignCore
<1> QED BY <1>2, <1>5, <1>7, <1>13

\* What is not a step of a worker.
LEMMA OthersKeepCore ==
  ASSUME CampaignConstants, CampaignInv,
         Settle \/ Signal \/ Crash \/ RemoveArtifact \/ TearManifest \/ UNCHANGED campaignVars
  PROVE  CampaignCore'
<1> USE DEF CampaignConstants, CampaignInv, CampaignTypeOK, PendingIsSound, WorkersAreSound,
            WorkerIsSound, RestIsUntouched, AttemptsIncrease, LedgerIsOfManifest, CampaignCore,
            Running, AtWork, disk, LastAttempt, LastStatus, HasArtifacts, Completed, Incomplete,
            Finished, Absent
<1>1. CASE Settle
  BY <1>1 DEF Settle, WorkerState, Status
<1>2. CASE Signal
  BY <1>2 DEF Signal
<1>3. CASE Crash
  <2>1. torn' \in BOOLEAN
    BY <1>3 DEF Crash
  <2>2. artifacts' \in [Task -> [Attempt -> {"absent", "some", "all"}]]
    BY <1>3 DEF Crash
  <2>3. worker' \in [Worker -> WorkerState] /\ WorkersAreSound' /\ RestIsUntouched'
    <3>1. worker' = [w \in Worker |-> Absent] /\ ~Running'
      BY <1>3 DEF Crash
    <3>2. Absent \in WorkerState
      BY DEF WorkerState, Status
    <3>3. \A w \in Worker : worker'[w] = Absent
      BY <3>1
    <3>4. RestIsUntouched'
      BY <3>1
    <3>5. \A w \in Worker : WorkerIsSound(w)'
      BY <3>1, <3>3
    <3> QED BY <3>1, <3>2, <3>4, <3>5
  <2>4. AttemptsIncrease' /\ LedgerIsOfManifest'
    BY <1>3 DEF Crash
  <2> HIDE DEF WorkersAreSound, RestIsUntouched, AttemptsIncrease, LedgerIsOfManifest
  <2> QED BY <1>3, <2>1, <2>2, <2>3, <2>4 DEF Crash
<1>4. CASE RemoveArtifact
  <2>1. artifacts' \in [Task -> [Attempt -> {"absent", "some", "all"}]]
    BY <1>4 DEF RemoveArtifact
  <2>2. ~Running' /\ \A w \in Worker : WorkerIsSound(w)'
    <3>1. ~Running /\ ~Running' /\ worker' = worker
      BY <1>4 DEF RemoveArtifact
    <3>2. \A w \in Worker : worker'[w] = Absent
      BY <3>1
    <3> QED BY <3>1, <3>2
  <2>3. WorkersAreSound' /\ RestIsUntouched'
    BY <2>2
  <2>4. AttemptsIncrease' /\ LedgerIsOfManifest'
    BY <1>4 DEF RemoveArtifact
  <2> HIDE DEF WorkersAreSound, RestIsUntouched, AttemptsIncrease, LedgerIsOfManifest
  <2> QED BY <1>4, <2>1, <2>3, <2>4 DEF RemoveArtifact
<1>5. CASE TearManifest
  BY <1>5 DEF TearManifest
<1>6. CASE UNCHANGED campaignVars
  BY <1>6 DEF campaignVars
<1> QED BY <1>1, <1>2, <1>3, <1>4, <1>5, <1>6

-----------------------------------------------------------------------------
(* The counters. *)

Counters == {"completed", "incomplete", "failed"}

\* The counters are numbers, the workers that are through bound the index, and the
\* counters agree with the ledger.
CampaignCounts ==
    /\ count \in [Counters -> Nat]
    /\ next <= Len(pending) + 1 + Cardinality({w \in Worker : worker[w].step = "done"})
    /\ CountsAgree /\ ResultIsTheLedger

\* Open tasks are tasks, and tasks that are open are not finished while a campaign runs.
LEMMA OpenTasks ==
  ASSUME CampaignConstants, CampaignInv
  PROVE  /\ Open \subseteq Task /\ IsFiniteSet(Closed) /\ Cardinality(Closed) \in Nat
         /\ Running => Open \cap FinishedTasks = {}
<1>1. ASSUME NEW w \in Worker, AtWork(w)
      PROVE  worker[w].task \in Task /\ ~Finished(worker[w].task)
  BY <1>1, WorkerAtWork
<1>2. ASSUME NEW i \in DOMAIN pending, i >= next
      PROVE  pending[i] \in Task /\ (Running => ~Finished(pending[i]))
  BY <1>2 DEF CampaignInv, PendingIsSound, RestIsUntouched
<1>3. Open \subseteq Task /\ (Running => Open \cap FinishedTasks = {})
  BY <1>1, <1>2 DEF Open, FinishedTasks
<1>4. IsFiniteSet(Closed)
  BY FS_Subset DEF Closed, CampaignConstants
<1> QED BY <1>3, <1>4, FS_CardinalityType

\* Counters that are not changed stay below the number of the closed tasks.
LEMMA SumStays ==
  ASSUME CampaignConstants, CampaignInv, count' = count, Closed \subseteq Closed'
  PROVE  /\ count' \in [Counters -> Nat]
         /\ count'.completed + count'.incomplete + count'.failed <= Cardinality(Closed')
<1>1. count \in [Counters -> Nat] /\ Cardinality(Closed) \in Nat
      /\ count.completed + count.incomplete + count.failed <= Cardinality(Closed)
  <2>1. Cardinality(Task) \in Nat
    BY FS_CardinalityType DEF CampaignConstants
  <2>2. count \in [Counters -> 0 .. Cardinality(Task)]
    BY DEF CampaignInv, CampaignTypeOK, Counters
  <2> QED BY <2>1, <2>2, OpenTasks DEF CampaignInv, CountsAgree
<1>2. IsFiniteSet(Closed') /\ Cardinality(Closed') \in Nat
  <2>1. Closed' \in SUBSET Task
    BY DEF Closed
  <2>2. IsFiniteSet(Closed')
    BY <2>1, FS_Subset DEF CampaignConstants
  <2> QED BY <2>2, FS_CardinalityType
<1>3. Cardinality(Closed) <= Cardinality(Closed')
  BY <1>2, FS_Subset
<1> QED BY <1>1, <1>2, <1>3 DEF Counters

\* A campaign that was disturbed, or is over, says no more about its counters.
LEMMA DisturbedCounts ==
  ASSUME CampaignConstants, CampaignInv, count' = count, Open' \subseteq Open,
         ~(Running /\ Undisturbed)'
  PROVE  count' \in [Counters -> Nat] /\ CountsAgree'
<1>1. Closed \subseteq Closed'
  BY DEF Closed
<1> QED BY <1>1, SumStays DEF CountsAgree

\* A step that neither opens nor closes nor finishes a task.
LEMMA UnmovedCounts ==
  ASSUME CampaignConstants, CampaignInv, count' = count, Open' = Open,
         (Running /\ Undisturbed)' =>
           /\ Running /\ Undisturbed /\ torn' = torn
           /\ CompletedTasks' = CompletedTasks /\ IncompleteTasks' = IncompleteTasks
           /\ FinishedTasks' = FinishedTasks
           /\ \A t \in Closed : LastStatus(t)' = LastStatus(t)
           /\ (next <= Len(pending))' =>
                \E w \in Worker : worker'[w].step \in {"take", "scan", "record"}
  PROVE  count' \in [Counters -> Nat] /\ CountsAgree'
<1>1. Closed' = Closed
  BY DEF Closed
<1>2. count' \in [Counters -> Nat]
      /\ count'.completed + count'.incomplete + count'.failed <= Cardinality(Closed')
  BY <1>1, SumStays
<1>3. (Running /\ Undisturbed)' =>
         /\ ~torn'
         /\ count'.completed = Cardinality(Closed' \cap CompletedTasks')
         /\ count'.incomplete = Cardinality(Closed' \cap IncompleteTasks')
         /\ count'.failed = Cardinality(Closed' \ FinishedTasks')
         /\ \A t \in Closed' : LastStatus(t)' # None
  BY <1>1 DEF CampaignInv, CountsAgree
<1> QED BY <1>2, <1>3 DEF CountsAgree

\* What a worker does to the open tasks: its own may be closed, and no other.
LEMMA OpenStays ==
  ASSUME CampaignConstants, CampaignInv, NEW w \in Worker, pending' = pending, next' = next,
         AtWork(w), \A v \in Worker \ {w} : worker'[v] = worker[v]
  PROVE  /\ AtWork(w)' /\ worker'[w].task = worker[w].task => Open' = Open
         /\ ~AtWork(w)' => Open' = Open \ {worker[w].task}
         /\ worker[w].task \in Open
<1>1. \A v \in Worker \ {w} : (AtWork(v)' <=> AtWork(v)) /\ worker'[v].task = worker[v].task
  BY DEF AtWork
<1>2. \A v \in Worker \ {w} : worker[v].task # worker[w].task
  BY DEF CampaignInv, WorkersAreSound, WorkerIsSound
<1>3. \A i \in DOMAIN pending : i >= next => pending[i] # worker[w].task
  BY WorkerAtWork
<1> HIDE DEF AtWork
<1>4. AtWork(w)' /\ worker'[w].task = worker[w].task => Open' = Open
  BY <1>1 DEF Open
<1>5. ~AtWork(w)' => Open' = Open \ {worker[w].task}
  BY <1>1, <1>2, <1>3 DEF Open
<1>6. worker[w].task \in Open
  BY DEF Open
<1> QED BY <1>4, <1>5, <1>6

\* The workers that are through.
Through == {w \in Worker : worker[w].step = "done"}

LEMMA IndexStays ==
  ASSUME CampaignConstants, CampaignInv, pending' = pending,
         \/ next' = next /\ Through \subseteq Through'
         \/ next' = next + 1 /\ next <= Len(pending) /\ Through \subseteq Through'
         \/ next' = next + 1 /\ \E w \in Worker \ Through : Through' = Through \cup {w}
  PROVE  next' <= Len(pending') + 1 + Cardinality(Through')
<1>1. IsFiniteSet(Through) /\ IsFiniteSet(Through')
  BY FS_Subset DEF Through, CampaignConstants
<1>2. Cardinality(Through) \in Nat /\ Cardinality(Through') \in Nat
  BY <1>1, FS_CardinalityType
<1>3. next \in Nat /\ Len(pending) \in Nat /\ next <= Len(pending) + 1 + Cardinality(Through)
  BY DEF CampaignInv, PendingIsSound, Through
<1>4. Through \subseteq Through' => Cardinality(Through) <= Cardinality(Through')
  BY <1>1, FS_Subset
<1>5. \A w \in Worker \ Through : Cardinality(Through \cup {w}) = Cardinality(Through) + 1
  BY <1>1, FS_AddElement
<1> HIDE DEF Through
<1> QED BY <1>2, <1>3, <1>4, <1>5

LEMMA TakeKeepsCounts ==
  ASSUME CampaignConstants, CampaignInv, NEW w \in Worker, Take(w)
  PROVE  CampaignCounts'
<1>1. /\ count' = count /\ pending' = pending /\ ledger' = ledger /\ artifacts' = artifacts
      /\ torn' = torn /\ Running /\ Running' /\ ~AtWork(w) /\ worker[w].step = "take"
      /\ worker \in [Worker -> WorkerState] /\ next \in Nat
  BY DEF Take, disk, Running, AtWork, CampaignInv, CampaignTypeOK, PendingIsSound
<1>2. \A v \in Worker \ {w} : worker'[v] = worker[v]
  BY <1>1 DEF Take, Set, Reject
<1>3. ResultIsTheLedger'
  BY <1>1 DEF ResultIsTheLedger, Running
<1>4. /\ \A t \in Task : LastStatus(t)' = LastStatus(t)
      /\ CompletedTasks' = CompletedTasks /\ IncompleteTasks' = IncompleteTasks
      /\ FinishedTasks' = FinishedTasks
  BY <1>1 DEF CompletedTasks, IncompleteTasks, FinishedTasks, LastAttempt, LastStatus,
     HasArtifacts, Completed, Incomplete, Finished
<1>5. CASE aborted
  <2>1. next' = next /\ worker'[w].step = "rejected" /\ worker'[w].task = None
    BY <1>1, <1>5, IdleStates DEF Take, Reject, Set
  <2>2. Open' \subseteq Open
    BY <1>1, <1>2, <2>1 DEF Open, AtWork
  <2>3. ~Undisturbed'
    BY <2>1 DEF Undisturbed
  <2>4. Through \subseteq Through'
    BY <1>1, <1>2 DEF Through
  <2> QED BY <1>1, <1>3, <2>1, <2>2, <2>3, <2>4, IndexStays, DisturbedCounts
          DEF CampaignCounts, Through
<1>6. CASE ~aborted /\ next <= Len(pending)
  <2>1. /\ next' = next + 1 /\ worker'[w].step = "scan" /\ worker'[w].task = pending[next]
        /\ next \in DOMAIN pending /\ \A j \in DOMAIN pending : j \in Nat
    BY <1>1, <1>6 DEF Take, Set, CampaignInv, PendingIsSound
  <2>2. Open' = Open
    BY <1>1, <1>2, <2>1 DEF Open, AtWork
  <2>3. Undisturbed' => Undisturbed
    BY <1>1, <1>2 DEF Undisturbed
  <2>4. Through \subseteq Through'
    BY <1>1, <1>2 DEF Through
  <2>5. count' \in [Counters -> Nat] /\ CountsAgree'
    BY <1>1, <1>4, <2>1, <2>2, <2>3, UnmovedCounts DEF Closed
  <2> QED BY <1>1, <1>3, <1>6, <2>1, <2>4, <2>5, IndexStays DEF CampaignCounts, Through
<1>7. CASE ~aborted /\ next > Len(pending)
  <2>1. next' = next + 1 /\ worker'[w].step = "done" /\ worker'[w].task = None
    BY <1>1, <1>7 DEF Take, Set, Absent
  <2>2. Open' = Open
    <3>1. \A j \in DOMAIN pending : ~(j >= next) /\ ~(j >= next + 1)
      BY <1>1, <1>7 DEF CampaignInv, PendingIsSound
    <3> QED BY <1>1, <1>2, <2>1, <3>1 DEF Open, AtWork
  <2>3. Undisturbed' => Undisturbed
    BY <1>1, <1>2 DEF Undisturbed
  <2>4. w \notin Through /\ Through' = Through \cup {w}
    BY <1>1, <1>2, <2>1 DEF Through
  <2>5. ~(next <= Len(pending))'
    BY <1>1, <1>7, <2>1 DEF CampaignInv, PendingIsSound
  <2>6. count' \in [Counters -> Nat] /\ CountsAgree'
    BY <1>1, <1>4, <2>2, <2>3, <2>5, UnmovedCounts DEF Closed
  <2> QED BY <1>1, <1>3, <2>1, <2>4, <2>6, IndexStays DEF CampaignCounts, Through
<1> QED BY <1>1, <1>5, <1>6, <1>7 DEF CampaignInv, PendingIsSound

LEMMA ScanKeepsCounts ==
  ASSUME CampaignConstants, CampaignInv, NEW w \in Worker, Scan(w)
  PROVE  CampaignCounts'
<1>1. /\ count' = count /\ pending' = pending /\ next' = next /\ torn' = torn
      /\ Running /\ Running' /\ AtWork(w) /\ worker[w].step = "scan"
      /\ worker[w] \in WorkerState /\ worker \in [Worker -> WorkerState]
  BY DEF Scan, Running, AtWork, CampaignInv, CampaignTypeOK
<1>2. /\ \A v \in Worker \ {w} : worker'[v] = worker[v]
      /\ \/ worker'[w].step = "rejected"
         \/ worker'[w].step = "record" /\ worker'[w].task = worker[w].task
  <2>1. PICK status : \/ Reject(w)
                      \/ Set(w, [worker[w] EXCEPT !.step = "record", !.status = status])
    BY DEF Scan
  <2>2. /\ [worker[w] EXCEPT !.step = "record", !.status = status].step = "record"
        /\ [worker[w] EXCEPT !.step = "record", !.status = status].task = worker[w].task
    BY <1>1 DEF WorkerState
  <2>3. [Absent EXCEPT !.step = "rejected"].step = "rejected"
    BY DEF Absent
  <2> DEFINE r == [worker[w] EXCEPT !.step = "record", !.status = status]
  <2> HIDE DEF r
  <2>4. CASE Set(w, r)
    BY <1>1, <2>2, <2>4 DEF Set, r
  <2>5. CASE Reject(w)
    BY <1>1, <2>3, <2>5 DEF Set, Reject
  <2> QED BY <2>1, <2>4, <2>5 DEF r
<1>3. ResultIsTheLedger'
  BY <1>1 DEF ResultIsTheLedger, Running
<1>4. Through \subseteq Through'
  BY <1>1, <1>2 DEF Through
<1>5. CASE worker'[w].step = "rejected"
  <2>1. Open' \subseteq Open
    BY <1>1, <1>2, <1>5, OpenStays DEF AtWork
  <2>2. ~Undisturbed'
    BY <1>5 DEF Undisturbed
  <2> QED BY <1>1, <1>3, <1>4, <2>1, <2>2, IndexStays, DisturbedCounts DEF CampaignCounts, Through
<1>6. CASE worker'[w].step = "record" /\ worker'[w].task = worker[w].task
  <2>1. Open' = Open
    BY <1>1, <1>2, <1>6, OpenStays DEF AtWork
  <2>2. Undisturbed' => Undisturbed
    BY <1>1, <1>2 DEF Undisturbed
  <2>3. count' \in [Counters -> Nat] /\ CountsAgree'
    BY <1>1, <1>6, <2>1, <2>2, ScanKeepsCore, UnmovedCounts DEF Closed
  <2> QED BY <1>1, <1>3, <1>4, <2>3, IndexStays DEF CampaignCounts, Through
<1> QED BY <1>2, <1>5, <1>6

LEMMA AppendFailsKeepsCounts ==
  ASSUME CampaignConstants, CampaignInv, NEW w \in Worker, AppendFails(w)
  PROVE  CampaignCounts'
<1>1. /\ count' = count /\ pending' = pending /\ next' = next /\ Running' /\ AtWork(w)
      /\ worker[w].step = "record"
  BY DEF AppendFails, Running, AtWork
<1>2. /\ worker'[w].step = "rejected" /\ \A v \in Worker \ {w} : worker'[v] = worker[v]
  BY AppendFailsKeepsCore
<1>3. ResultIsTheLedger'
  BY <1>1 DEF ResultIsTheLedger, Running
<1>4. Through \subseteq Through' /\ ~Undisturbed'
  BY <1>1, <1>2 DEF Through, Undisturbed
<1>5. Open' \subseteq Open
  BY <1>1, <1>2, OpenStays DEF AtWork
<1> QED BY <1>1, <1>3, <1>4, <1>5, IndexStays, DisturbedCounts DEF CampaignCounts, Through

\* A receipt closes a task and is counted, once, as what it says.
LEMMA RecordKeepsCounts ==
  ASSUME CampaignConstants, CampaignInv, NEW w \in Worker, Record(w)
  PROVE  CampaignCounts'
<1>1. /\ pending' = pending /\ next' = next /\ Running /\ Running' /\ AtWork(w) /\ torn' = FALSE
      /\ worker[w].step = "record"
  BY DEF Record, Running, AtWork, AppendReceipt
<1>2. PICK t \in Task : t = worker[w].task
  BY <1>1, WorkerAtWork
<1>3. /\ artifacts' = artifacts
      /\ \A u \in Task \ {t} : ledger'[u] = ledger[u]
      /\ worker[w].status \in {"completed", "completed_with_incomplete_coverage",
                               "failed", "exhausted"}
      /\ ~torn => /\ LastStatus(t)' # None
                  /\ Completed(t)' <=> worker[w].status = "completed"
                  /\ Incomplete(t)' <=>
                       worker[w].status = "completed_with_incomplete_coverage"
      /\ \A v \in Worker \ {w} : worker'[v] = worker[v]
      /\ \/ /\ worker[w].status = "failed"
            /\ count' = count
            /\ \/ worker'[w].step = "scan" /\ worker'[w].task = t
               \/ worker'[w].step = "rejected"
         \/ worker'[w].step = "take" /\ worker'[w].task = None
  BY <1>2, RecordKeepsCore
<1>4. ResultIsTheLedger'
  BY <1>1 DEF ResultIsTheLedger, Running
<1>5. Through \subseteq Through'
  BY <1>1, <1>3 DEF Through
<1>6. next' <= Len(pending') + 1 + Cardinality(Through')
  BY <1>1, <1>5, IndexStays
<1>7. t \notin FinishedTasks
  BY <1>1, <1>2, WorkerAtWork DEF FinishedTasks
<1>8. \A u \in Task \ {t} : /\ LastStatus(u)' = LastStatus(u)
                            /\ Completed(u)' = Completed(u) /\ Incomplete(u)' = Incomplete(u)
  BY <1>3 DEF LastStatus, LastAttempt, HasArtifacts, Completed, Incomplete
<1>9. Undisturbed' => Undisturbed
  BY <1>1, <1>3 DEF Undisturbed
<1>10. t \in Open /\ (~AtWork(w)' => Open' = Open \ {t})
       /\ (AtWork(w)' /\ worker'[w].task = t => Open' = Open)
  BY <1>1, <1>2, <1>3, OpenStays
<1>11. Undisturbed => ~torn
  BY <1>1 DEF CampaignInv, CountsAgree
<1>12. CASE worker'[w].step = "rejected"
  <2>1. Open' \subseteq Open
    BY <1>10, <1>12 DEF AtWork
  <2>2. ~Undisturbed'
    BY <1>12 DEF Undisturbed
  <2>3. count' = count
    BY <1>3, <1>12
  <2> QED BY <1>4, <1>6, <2>1, <2>2, <2>3, DisturbedCounts DEF CampaignCounts, Through
<1>13. CASE worker'[w].step = "scan"
  <2>1. Open' = Open /\ count' = count /\ worker[w].status = "failed"
    BY <1>3, <1>10, <1>13 DEF AtWork
  <2>2. ~torn => ~Completed(t)' /\ ~Incomplete(t)'
    BY <1>3, <2>1
  <2>3. ~torn => /\ CompletedTasks' = CompletedTasks /\ IncompleteTasks' = IncompleteTasks
                 /\ FinishedTasks' = FinishedTasks
    <3> HIDE DEF Completed, Incomplete
    <3> QED BY <1>7, <1>8, <2>2 DEF CompletedTasks, IncompleteTasks, FinishedTasks, Finished
  <2>4. \A u \in Closed : LastStatus(u)' = LastStatus(u)
    BY <1>8, <1>10 DEF Closed
  <2>5. torn \in BOOLEAN
    BY DEF CampaignInv, CampaignTypeOK
  <2>6. count' \in [Counters -> Nat] /\ CountsAgree'
    BY <1>1, <1>9, <1>11, <1>13, <2>1, <2>3, <2>4, <2>5, UnmovedCounts
  <2> QED BY <1>4, <1>6, <2>6 DEF CampaignCounts, Through
<1>14. CASE worker'[w].step = "take"
  <2>1. Open' = Open \ {t} /\ Closed' = Closed \cup {t} /\ t \notin Closed
    BY <1>2, <1>10, <1>14 DEF AtWork, Closed
  <2> DEFINE status == worker[w].status
  <2> DEFINE k == CASE status = "completed" -> "completed"
                    [] status \in {"failed", "exhausted"} -> "failed"
                    [] OTHER -> "incomplete"
  <2>2. /\ k \in Counters /\ count' = [count EXCEPT ![k] = @ + 1]
        /\ (k = "completed" <=> status = "completed")
        /\ (k = "incomplete" <=> status = "completed_with_incomplete_coverage")
        /\ (k = "failed" <=> status \in {"failed", "exhausted"})
    <3>1. ~(status = "failed" /\ worker[w].retry + 1 < MaxAttempts)
      <4> DEFINE r == [worker[w] EXCEPT !.step = "scan", !.status = None,
                                        !.attempt = @ + 1, !.retry = @ + 1]
      <4>1. worker[w] \in WorkerState /\ worker \in [Worker -> WorkerState]
        BY DEF CampaignInv, CampaignTypeOK
      <4>2. r.step = "scan" /\ [Absent EXCEPT !.step = "rejected"].step = "rejected"
        BY <4>1 DEF WorkerState, Absent
      <4> HIDE DEF r
      <4>3. Set(w, r) => worker'[w].step = "scan"
        BY <4>1, <4>2 DEF Set
      <4>4. Reject(w) => worker'[w].step = "rejected"
        BY <4>1, <4>2 DEF Set, Reject
      <4>5. Retry(w) => Set(w, r) \/ Reject(w)
        BY DEF Retry, r
      <4> QED BY <1>14, <4>3, <4>4, <4>5 DEF Record, status
    <3>2. count' = [count EXCEPT ![k] = @ + 1]
      BY <3>1 DEF Record
    <3> QED BY <1>3, <3>2 DEF Counters
  <2> HIDE DEF k, status
  <2>3. /\ Cardinality(Closed) \in Nat /\ IsFiniteSet(Closed)
        /\ Cardinality(Closed') = Cardinality(Closed) + 1
    BY <2>1, OpenTasks, FS_AddElement
  <2>4. count \in [Counters -> Nat]
        /\ count.completed + count.incomplete + count.failed <= Cardinality(Closed)
    <3>1. Cardinality(Task) \in Nat
      BY FS_CardinalityType DEF CampaignConstants
    <3> QED BY <3>1 DEF CampaignInv, CampaignTypeOK, CountsAgree, Counters
  <2>5. /\ count' \in [Counters -> Nat]
        /\ \A c \in Counters : count'[c] = IF c = k THEN count[c] + 1 ELSE count[c]
        /\ count'.completed + count'.incomplete + count'.failed <= Cardinality(Closed')
    BY <2>2, <2>3, <2>4 DEF Counters
  <2>6. ASSUME Undisturbed'
        PROVE  /\ ~torn'
               /\ count'.completed = Cardinality(Closed' \cap CompletedTasks')
               /\ count'.incomplete = Cardinality(Closed' \cap IncompleteTasks')
               /\ count'.failed = Cardinality(Closed' \ FinishedTasks')
               /\ \A u \in Closed' : LastStatus(u)' # None
    <3> HIDE DEF Completed, Incomplete, LastStatus
    <3>1. /\ Undisturbed /\ ~torn /\ t \in Task
          /\ LastStatus(t)' # None
          /\ Completed(t)' <=> status = "completed"
          /\ Incomplete(t)' <=> status = "completed_with_incomplete_coverage"
      BY <1>3, <1>9, <1>11, <2>6 DEF status
    <3>2. /\ count.completed = Cardinality(Closed \cap CompletedTasks)
          /\ count.incomplete = Cardinality(Closed \cap IncompleteTasks)
          /\ count.failed = Cardinality(Closed \ FinishedTasks)
          /\ \A u \in Closed : LastStatus(u) # None
      BY <1>1, <3>1 DEF CampaignInv, CountsAgree
    <3>3. \A S : t \notin S /\ IsFiniteSet(S) => Cardinality(S \cup {t}) = Cardinality(S) + 1
      BY FS_AddElement
    <3>4. /\ IsFiniteSet(Closed \cap CompletedTasks) /\ IsFiniteSet(Closed \cap IncompleteTasks)
          /\ IsFiniteSet(Closed \ FinishedTasks)
      <4>1. \A S \in SUBSET Closed : IsFiniteSet(S)
        BY <2>3, FS_Subset
      <4> QED BY <4>1
    <3>5. count'.completed = Cardinality(Closed' \cap CompletedTasks')
      <4>1. Closed' \cap CompletedTasks' =
              IF k = "completed" THEN (Closed \cap CompletedTasks) \cup {t}
              ELSE Closed \cap CompletedTasks
        BY <1>7, <1>8, <2>1, <2>2, <3>1 DEF CompletedTasks, FinishedTasks, Finished, Closed
      <4> QED BY <2>1, <2>5, <3>2, <3>3, <3>4, <4>1 DEF Counters
    <3>6. count'.incomplete = Cardinality(Closed' \cap IncompleteTasks')
      <4>1. Closed' \cap IncompleteTasks' =
              IF k = "incomplete" THEN (Closed \cap IncompleteTasks) \cup {t}
              ELSE Closed \cap IncompleteTasks
        BY <1>7, <1>8, <2>1, <2>2, <3>1 DEF IncompleteTasks, FinishedTasks, Finished, Closed
      <4> QED BY <2>1, <2>5, <3>2, <3>3, <3>4, <4>1 DEF Counters
    <3>7. count'.failed = Cardinality(Closed' \ FinishedTasks')
      <4>1. Closed' \ FinishedTasks' =
              IF k = "failed" THEN (Closed \ FinishedTasks) \cup {t} ELSE Closed \ FinishedTasks
        BY <1>3, <1>7, <1>8, <2>1, <2>2, <3>1 DEF FinishedTasks, Finished, Closed, status
      <4> QED BY <2>1, <2>5, <3>2, <3>3, <3>4, <4>1 DEF Counters
    <3>8. \A u \in Closed' : LastStatus(u)' # None
      BY <1>8, <2>1, <3>1, <3>2 DEF Closed
    <3> QED BY <1>1, <3>5, <3>6, <3>7, <3>8
  <2>7. \E v \in Worker : worker'[v].step \in {"take", "scan", "record"}
    BY <1>14
  <2> QED BY <1>4, <1>6, <2>5, <2>6, <2>7 DEF CampaignCounts, CountsAgree, Through
<1> QED BY <1>3, <1>12, <1>13, <1>14

\* A campaign begins: what is finished is counted, and nothing else is closed.
LEMMA RunKeepsCounts ==
  ASSUME CampaignConstants, CampaignInv, NEW c \in Config, Run(c)
  PROVE  CampaignCounts'
<1>1. /\ Task \ FinishedTasks = {pending'[i] : i \in DOMAIN pending'}
      /\ \A w \in Worker : worker'[w].task = None /\ worker'[w].step \in {"take", "done"}
      /\ Len(pending') > 0 => \E w \in Worker : worker'[w].step = "take"
      /\ pending' \in Seq(Task)
  BY RunKeepsCore DEF CampaignCore
<1>2. /\ next' = 1 /\ torn' = FALSE /\ ledger' = ledger /\ artifacts' = artifacts /\ Running'
      /\ count' = [completed |-> Cardinality(CompletedTasks),
                   incomplete |-> Cardinality(IncompleteTasks), failed |-> 0]
  BY DEF Run, Running
<1>3. /\ \A t \in Task : LastStatus(t)' = LastStatus(t)
      /\ CompletedTasks' = CompletedTasks /\ IncompleteTasks' = IncompleteTasks
      /\ FinishedTasks' = FinishedTasks
  BY <1>2 DEF CompletedTasks, IncompleteTasks, FinishedTasks, LastAttempt, LastStatus,
     HasArtifacts, Completed, Incomplete, Finished
<1>4. Closed' = FinishedTasks /\ FinishedTasks \subseteq Task
  <2>1. \A i \in DOMAIN pending' : i >= 1
    BY <1>1
  <2>2. Open' = Task \ FinishedTasks
    BY <1>1, <1>2, <2>1 DEF Open, AtWork
  <2> QED BY <2>2 DEF Closed, FinishedTasks
<1>5. /\ FinishedTasks = CompletedTasks \cup IncompleteTasks
      /\ CompletedTasks \cap IncompleteTasks = {}
  BY DEF CompletedTasks, IncompleteTasks, FinishedTasks, Finished, Completed, Incomplete
<1>6. IsFiniteSet(CompletedTasks) /\ IsFiniteSet(IncompleteTasks) /\ IsFiniteSet(FinishedTasks)
  BY <1>4, <1>5, FS_Subset DEF CampaignConstants
<1>7. /\ Cardinality(FinishedTasks) = Cardinality(CompletedTasks) + Cardinality(IncompleteTasks)
      /\ Cardinality(CompletedTasks) \in Nat /\ Cardinality(IncompleteTasks) \in Nat
  <2>1. Cardinality(CompletedTasks \cap IncompleteTasks) = 0
    BY <1>5, FS_EmptySet
  <2>2. Cardinality(CompletedTasks) \in Nat /\ Cardinality(IncompleteTasks) \in Nat
    BY <1>6, FS_CardinalityType
  <2> QED BY <1>5, <1>6, <2>1, <2>2, FS_Union
<1>8. /\ count' \in [Counters -> Nat]
      /\ count'.completed + count'.incomplete + count'.failed <= Cardinality(Closed')
  BY <1>2, <1>4, <1>7 DEF Counters
<1>9. /\ count'.completed = Cardinality(Closed' \cap CompletedTasks')
      /\ count'.incomplete = Cardinality(Closed' \cap IncompleteTasks')
      /\ count'.failed = Cardinality(Closed' \ FinishedTasks')
  <2>1. /\ Closed' \cap CompletedTasks' = CompletedTasks
        /\ Closed' \cap IncompleteTasks' = IncompleteTasks
        /\ Closed' \ FinishedTasks' = {}
    BY <1>3, <1>4, <1>5
  <2> QED BY <1>2, <2>1, FS_EmptySet
<1>10. \A t \in Closed' : LastStatus(t)' # None
  <2>1. \A t \in FinishedTasks : t \in Task /\ LastStatus(t) # None
    BY DEF FinishedTasks, Finished, Completed, Incomplete, CampaignConstants, Status
  <2> QED BY <1>3, <1>4, <2>1
<1>11. (next <= Len(pending))' => \E w \in Worker : worker'[w].step \in {"take", "scan", "record"}
  BY <1>1, <1>2
<1>12. next' <= Len(pending') + 1 + Cardinality(Through')
  <2>1. IsFiniteSet(Through')
    BY FS_Subset DEF Through, CampaignConstants
  <2>2. Cardinality(Through') \in Nat /\ Len(pending') \in Nat
    BY <1>1, <2>1, FS_CardinalityType
  <2> QED BY <1>2, <2>2
<1>13. ResultIsTheLedger'
  BY <1>2 DEF ResultIsTheLedger, Running
<1>14. ~torn'
  BY <1>2
<1> QED BY <1>8, <1>9, <1>10, <1>11, <1>12, <1>13, <1>14 DEF CampaignCounts, CountsAgree, Through

\* A campaign that returns has closed every task.
LEMMA SettleKeepsCounts ==
  ASSUME CampaignConstants, CampaignInv, Settle
  PROVE  CampaignCounts'
<1>1. /\ Running /\ ~Running' /\ ledger' = ledger /\ artifacts' = artifacts /\ count' = count
      /\ pending' = pending /\ next' = next
      /\ worker' = [w \in Worker |-> Absent]
      /\ \A w \in Worker : worker[w].step \in {"done", "rejected"} /\ ~AtWork(w)
      /\ phase' = "returned" => Undisturbed
  BY DEF Settle, disk, Running, AtWork, Undisturbed
<1>2. Open' \subseteq Open
  BY <1>1 DEF Open, AtWork, Absent
<1>3. count' \in [Counters -> Nat] /\ CountsAgree'
  BY <1>1, <1>2, DisturbedCounts
<1>4. Through \subseteq Through'
  BY <1>1 DEF Through, Absent
<1>5. next' <= Len(pending') + 1 + Cardinality(Through')
  BY <1>1, <1>4, IndexStays
<1>6. ResultIsTheLedger'
  <2> SUFFICES ASSUME phase' = "returned"
               PROVE  /\ count'.completed = Cardinality(CompletedTasks')
                      /\ count'.incomplete = Cardinality(IncompleteTasks')
                      /\ count'.failed = Cardinality(Task) - Cardinality(FinishedTasks')
                      /\ \A t \in Task : LastStatus(t)' # None
    BY DEF ResultIsTheLedger
  <2>1. Undisturbed /\ CountsAgree
    BY <1>1 DEF CampaignInv
  <2>2. next > Len(pending)
    BY <1>1, <2>1 DEF CountsAgree, CampaignInv, PendingIsSound
  <2>3. Open = {} /\ Closed = Task
    BY <1>1, <2>2 DEF Open, Closed, CampaignInv, PendingIsSound
  <2>4. /\ count.completed = Cardinality(Task \cap CompletedTasks)
        /\ count.incomplete = Cardinality(Task \cap IncompleteTasks)
        /\ count.failed = Cardinality(Task \ FinishedTasks)
        /\ \A t \in Task : LastStatus(t) # None
    BY <1>1, <2>1, <2>3 DEF CountsAgree
  <2>5. /\ Task \cap CompletedTasks = CompletedTasks
        /\ Task \cap IncompleteTasks = IncompleteTasks /\ FinishedTasks \subseteq Task
    BY DEF CompletedTasks, IncompleteTasks, FinishedTasks
  <2>6. Cardinality(Task \ FinishedTasks) = Cardinality(Task) - Cardinality(FinishedTasks)
    <3>1. Task \cap FinishedTasks = FinishedTasks
      BY <2>5
    <3> QED BY <3>1, FS_Difference DEF CampaignConstants
  <2>7. /\ \A t \in Task : LastStatus(t)' = LastStatus(t)
        /\ CompletedTasks' = CompletedTasks /\ IncompleteTasks' = IncompleteTasks
        /\ FinishedTasks' = FinishedTasks
    BY <1>1 DEF CompletedTasks, IncompleteTasks, FinishedTasks, LastAttempt, LastStatus,
       HasArtifacts, Completed, Incomplete, Finished
  <2> QED BY <1>1, <2>4, <2>5, <2>6, <2>7
<1> QED BY <1>3, <1>5, <1>6 DEF CampaignCounts, Through

\* What else happens leaves the counters, or ends the campaign.
LEMMA OthersKeepCounts ==
  ASSUME CampaignConstants, CampaignInv,
         Signal \/ Crash \/ RemoveArtifact \/ TearManifest \/ UNCHANGED campaignVars
  PROVE  CampaignCounts'
<1>1. count' = count /\ pending' = pending /\ next' = next /\ ledger' = ledger
  BY DEF Signal, Crash, RemoveArtifact, TearManifest, campaignVars, disk
<1>2. CASE Crash
  <2>1. ~Running' /\ phase' = "down" /\ worker' = [w \in Worker |-> Absent]
    BY <1>2 DEF Crash, Running
  <2>2. Open' \subseteq Open
    BY <1>1, <2>1 DEF Open, AtWork, Absent
  <2>3. Through \subseteq Through'
    BY <2>1 DEF Through, Absent
  <2>4. ResultIsTheLedger'
    BY <2>1 DEF ResultIsTheLedger
  <2> QED BY <1>1, <2>1, <2>2, <2>3, <2>4, IndexStays, DisturbedCounts DEF CampaignCounts, Through
<1>3. CASE RemoveArtifact
  <2>1. ~Running' /\ phase' = "down" /\ worker' = worker
    BY <1>3 DEF RemoveArtifact, Running
  <2>2. Open' \subseteq Open /\ Through \subseteq Through'
    BY <1>1, <2>1 DEF Open, AtWork, Through
  <2>3. ResultIsTheLedger'
    BY <2>1 DEF ResultIsTheLedger
  <2> QED BY <1>1, <2>1, <2>2, <2>3, IndexStays, DisturbedCounts DEF CampaignCounts, Through
<1>4. CASE Signal \/ TearManifest \/ UNCHANGED campaignVars
  <2>1. worker' = worker /\ phase' = phase /\ artifacts' = artifacts /\ torn' = torn
    BY <1>4 DEF Signal, TearManifest, campaignVars, disk
  <2>2. Open' = Open /\ Through \subseteq Through'
    BY <1>1, <2>1 DEF Open, AtWork, Through
  <2>3. /\ \A t \in Task : LastStatus(t)' = LastStatus(t)
        /\ CompletedTasks' = CompletedTasks /\ IncompleteTasks' = IncompleteTasks
        /\ FinishedTasks' = FinishedTasks
    BY <1>1, <2>1 DEF CompletedTasks, IncompleteTasks, FinishedTasks, LastAttempt, LastStatus,
       HasArtifacts, Completed, Incomplete, Finished
  <2>4. ResultIsTheLedger'
    BY <1>1, <2>1, <2>3 DEF CampaignInv, ResultIsTheLedger
  <2>5. (Running /\ Undisturbed)' => Running /\ Undisturbed
    BY <2>1 DEF Running, Undisturbed
  <2>6. Running /\ Undisturbed /\ (next <= Len(pending))' =>
           \E w \in Worker : worker'[w].step \in {"take", "scan", "record"}
    BY <1>1, <2>1 DEF CampaignInv, CountsAgree
  <2>7. count' \in [Counters -> Nat] /\ CountsAgree'
    BY <1>1, <2>1, <2>2, <2>3, <2>5, <2>6, UnmovedCounts DEF Closed
  <2> QED BY <1>1, <2>2, <2>4, <2>7, IndexStays DEF CampaignCounts, Through
<1> QED BY <1>2, <1>3, <1>4

-----------------------------------------------------------------------------
(* The theorems. *)

\* The counters, and the index, keep to what they declare.
LEMMA Assembled ==
  ASSUME CampaignConstants, CampaignCore, CampaignCounts
  PROVE  CampaignInv
<1>1. PendingIsSound
  BY DEF CampaignCore, CampaignCounts, PendingIsSound
<1>2. Len(pending) \in Nat /\ next \in Nat \ {0} /\ IsInjective(pending)
      /\ \A i \in DOMAIN pending : pending[i] \in Task
  BY DEF CampaignCore, IsInjective
<1>3. next \in 1 .. Len(pending) + Cardinality(Worker) + 1
  <2>1. Cardinality(Through) \in Nat /\ Cardinality(Worker) \in Nat
        /\ Cardinality(Through) <= Cardinality(Worker)
    BY FS_Subset, FS_CardinalityType DEF Through, CampaignConstants
  <2>2. next <= Len(pending) + 1 + Cardinality(Through)
    BY DEF CampaignCounts, Through
  <2> QED BY <1>2, <2>1, <2>2
<1>4. count \in [Counters -> 0 .. Cardinality(Task)]
  <2>1. Closed \in SUBSET Task
    BY DEF Closed
  <2>2. Cardinality(Closed) <= Cardinality(Task) /\ Cardinality(Task) \in Nat
        /\ Cardinality(Closed) \in Nat
    BY <2>1, FS_Subset, FS_CardinalityType DEF CampaignConstants
  <2>3. count.completed + count.incomplete + count.failed <= Cardinality(Closed)
        /\ count \in [Counters -> Nat]
    BY DEF CampaignCounts, CountsAgree
  <2>4. \A c \in Counters : count[c] \in 0 .. Cardinality(Task)
    BY <2>2, <2>3 DEF Counters
  <2> QED BY <2>3, <2>4
<1>5. CampaignTypeOK
  <2>1. Range(pending) \subseteq Task
    BY <1>2 DEF Range
  <2> QED BY <1>2, <1>3, <1>4, <2>1 DEF CampaignTypeOK, CampaignCore, Counters
<1> QED BY <1>1, <1>5 DEF CampaignInv, CampaignCore, CampaignCounts

\* A new directory, or one of an older release.
LEMMA CampaignStarts ==
  ASSUME CampaignConstants, CampaignInit
  PROVE  CampaignCore /\ CampaignCounts
<1>1. /\ manifest = None /\ garbled = FALSE /\ torn = FALSE /\ phase = "down" /\ config = None
      /\ pending = <<>> /\ next = 1 /\ receipts = [t \in Task |-> 0]
      /\ worker = [w \in Worker |-> Absent] /\ aborted = FALSE
      /\ count = [c \in Counters |-> 0]
  BY DEF CampaignInit, Counters
<1>2. PICK old \in SUBSET Task :
        /\ ledger = [t \in Task |-> IF t \in old
              THEN <<[attempt |-> 1, status |-> "legacy", config |-> None]>> ELSE <<>>]
        /\ artifacts = [t \in Task |-> [n \in Attempt |->
              IF t \in old /\ n = 1 THEN "all" ELSE "absent"]]
  <2> DEFINE Old == IF "legacy" \in Fault THEN {{}} \cup {{t} : t \in Task} ELSE {{}}
  <2>1. Old \subseteq SUBSET Task
    OBVIOUS
  <2> DEFINE P(old) ==
          /\ ledger = [t \in Task |-> IF t \in old
                THEN <<[attempt |-> 1, status |-> "legacy", config |-> None]>> ELSE <<>>]
          /\ artifacts = [t \in Task |-> [n \in Attempt |->
                IF t \in old /\ n = 1 THEN "all" ELSE "absent"]]
  <2>2. \E old \in Old : P(old)
    BY Zenon DEF CampaignInit
  <2> HIDE DEF Old, P
  <2>3. PICK old \in Old : P(old)
    BY <2>2
  <2>4. old \in SUBSET Task
    BY <2>1, <2>3
  <2> QED BY <2>3, <2>4 DEF P
<1>3. ledger \in [Task -> Seq(Receipt)]
  <2>1. [attempt |-> 1, status |-> "legacy", config |-> None] \in Receipt
    BY DEF Receipt, Attempt, Status, CampaignConstants
  <2> QED BY <1>2, <2>1
<1>4. \A t \in Task : \A i \in DOMAIN ledger[t] : i = 1 /\ ledger[t][i].config = None
  BY <1>2
<1>5. artifacts \in [Task -> [Attempt -> {"absent", "some", "all"}]]
  BY <1>2
<1>6. Absent \in WorkerState /\ Absent.step = "done" /\ Absent.task = None
  BY DEF Absent, WorkerState, Status, CampaignConstants
<1>7. WorkersAreSound /\ RestIsUntouched
  BY <1>1, <1>6 DEF WorkersAreSound, WorkerIsSound, RestIsUntouched, Running, AtWork
<1>8. AttemptsIncrease /\ LedgerIsOfManifest
  BY <1>1, <1>4 DEF AttemptsIncrease, LedgerIsOfManifest, Running
<1>9. CampaignCore
  <2>1. pending \in Seq(Task) /\ DOMAIN pending = {} /\ Len(pending) = 0
    BY <1>1
  <2>2. worker \in [Worker -> WorkerState] /\ receipts \in [Task -> 0 .. MaxAttempt]
    BY <1>1, <1>6 DEF CampaignConstants
  <2>3. garbled \in BOOLEAN /\ torn \in BOOLEAN /\ aborted \in BOOLEAN
    BY <1>1
  <2>4. /\ manifest \in Config \cup {None, "torn"} /\ phase \in {"down", "running", "returned"}
        /\ config \in Config \cup {None} /\ next \in Nat \ {0}
    BY <1>1
  <2>5. \A i, j \in DOMAIN pending : pending[i] = pending[j] => i = j
    BY <2>1
  <2> QED BY <1>3, <1>5, <1>7, <1>8, <2>1, <2>2, <2>3, <2>4, <2>5 DEF CampaignCore
<1>10. CampaignCounts
  <2>1. IsFiniteSet(Closed) /\ IsFiniteSet(Through)
    BY FS_Subset DEF Closed, Through, CampaignConstants
  <2>2. Cardinality(Closed) \in Nat /\ Cardinality(Through) \in Nat
    BY <2>1, FS_CardinalityType
  <2>3. CountsAgree /\ ResultIsTheLedger /\ count \in [Counters -> Nat]
    BY <1>1, <2>2 DEF CountsAgree, ResultIsTheLedger, Running, Counters
  <2>4. next <= Len(pending) + 1 + Cardinality(Through)
    BY <1>1, <2>2
  <2> QED BY <2>3, <2>4 DEF CampaignCounts, Through
<1> QED BY <1>9, <1>10

\* However many campaigns share a directory, and however they end: the list and the workers
\* fit the ledger, receipts increase, and the counters say what the ledger says.
THEOREM CampaignInvariant ==
  ASSUME CampaignConstants
  PROVE  CampaignSpec => []CampaignInv
<1>1. CampaignInit => CampaignCore /\ CampaignCounts
  BY CampaignStarts
<1>2. CampaignInv /\ [CampaignNext]_campaignVars => (CampaignCore /\ CampaignCounts)'
  <2> SUFFICES ASSUME CampaignInv, [CampaignNext]_campaignVars
               PROVE  CampaignCore' /\ CampaignCounts'
    OBVIOUS
  <2>1. ASSUME NEW c \in Config, Run(c)
        PROVE  CampaignCore' /\ CampaignCounts'
    BY <2>1, RunKeepsCore, RunKeepsCounts
  <2>2. ASSUME NEW w \in Worker, Take(w) \/ Scan(w) \/ Record(w) \/ AppendFails(w)
        PROVE  CampaignCore' /\ CampaignCounts'
    <3>1. CASE Take(w)
      BY <3>1, TakeKeepsCore, TakeKeepsCounts
    <3>2. CASE Scan(w)
      BY <3>2, ScanKeepsCore, ScanKeepsCounts
    <3>3. CASE Record(w)
      <4>1. worker[w].task \in Task
        BY <3>3, WorkerAtWork DEF Record, AtWork
      <4> QED BY <3>3, <4>1, RecordKeepsCore, RecordKeepsCounts
    <3>4. CASE AppendFails(w)
      BY <3>4, AppendFailsKeepsCore, AppendFailsKeepsCounts
    <3> QED BY <2>2, <3>1, <3>2, <3>3, <3>4
  <2>3. CASE Settle
    BY <2>3, OthersKeepCore, SettleKeepsCounts
  <2>4. CASE Signal \/ Crash \/ RemoveArtifact \/ TearManifest \/ UNCHANGED campaignVars
    BY <2>4, OthersKeepCore, OthersKeepCounts
  <2> QED BY <2>1, <2>2, <2>3, <2>4 DEF CampaignNext, WorkerStep
<1>3. CampaignCore /\ CampaignCounts => CampaignInv
  BY Assembled
<1> QED BY <1>1, <1>2, <1>3, PTL DEF CampaignSpec

\* The files, the list, the workers and the counters keep to the values they declare; in
\* particular no campaign passes the bound on attempts.
THEOREM CampaignTypeCorrect ==
  ASSUME CampaignConstants
  PROVE  CampaignSpec => []CampaignTypeOK
<1>1. CampaignInv => CampaignTypeOK
  BY DEF CampaignInv
<1> QED BY <1>1, CampaignInvariant, PTL

\* The ledger is the memory of the campaigns: attempts increase, what is finished is left
\* alone, a campaign returns what the ledger says of every task, and all receipts are of one
\* configuration: for any number of tasks, workers, attempts, crashes and reruns.
THEOREM LedgersAreSound ==
  ASSUME CampaignConstants
  PROVE  CampaignSpec => []LedgerIsSound
<1>1. CampaignInv => AttemptsIncrease /\ ResultIsTheLedger
  BY DEF CampaignInv
<1>2. CampaignInv => FinishedTasksRest
  BY DEF CampaignInv, WorkersAreSound, WorkerIsSound, AtWork, FinishedTasksRest
<1>3. CampaignInv => OneConfiguration
  BY DEF CampaignInv, LedgerIsOfManifest, OneConfiguration
<1>4. CampaignInv => LedgerIsSound
  BY <1>1, <1>2, <1>3 DEF LedgerIsSound
<1> QED BY <1>4, CampaignInvariant, PTL
=============================================================================
