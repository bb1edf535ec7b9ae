----------------------------- MODULE MCMultiscan -----------------------------
(* Instances of MultiscanLock and MultiscanCampaign for TLC, checked in one    *)
(* run with the parts of the scans (MCScans).  The campaigns of one directory  *)
(* follow each other under its lock, and their scans know nothing of it, so    *)
(* that all are looked at one at a time.                                      *)
EXTENDS MCScans

CONSTANTS Supervisor, Legacy, None, Task, Worker, Config

VARIABLES
    pc, expected, lock, dirAge, owner, written, ownerAge, claim, claimAge, legacyAlive,
    manifest, ledger, garbled, torn, artifacts, phase, config, pending, next,
    receipts, worker, count, aborted, interrupts

Lock == INSTANCE MultiscanLock WITH
    NoFile <- None,
    CrashIn <- {"mkdir", "inspect", "open", "dropClaim", "reinspect", "abandon",
                "rename", "created", "writing", "cleanup", "held", "remove", "rmdir"}

Faults == INSTANCE MultiscanCampaign WITH
    MaxAttempts <- 1, MaxAttempt <- 3, MaxInterrupts <- 2,
    Fault <- {"crash", "remove", "legacy", "append", "manifest"}

Retries == INSTANCE MultiscanCampaign WITH
    MaxAttempts <- 2, MaxAttempt <- 4, MaxInterrupts <- 1, Fault <- {"crash", "signal"}

Reruns == INSTANCE MultiscanCampaign WITH
    MaxAttempts <- 1, MaxAttempt <- 2, MaxInterrupts <- 1, Fault <- {"crash", "signal"}

lockVars == <<pc, expected, lock, dirAge, owner, written, ownerAge, claim, claimAge,
              legacyAlive>>
campaignVars == <<manifest, ledger, garbled, torn, artifacts, phase, config, pending,
                  next, receipts, worker, count, aborted, interrupts>>
mcVars == <<instance, lockVars, campaignVars, scanVars>>

\* "lock": supervisors die while they wait for the lock, sign it or hold it, and not
\* between the other steps of taking or recovering it; "wreck": they die anywhere;
\* "faults", "retries", "reruns": campaigns.
Instance == {"lock", "wreck", "faults", "retries", "reruns"} \cup ScanInstance
Locking == instance \in {"lock", "wreck"}

\* The part that an instance is not about does not move from one initial state.
NoLock == Lock!LockInit /\ lock = None
NoCampaign == Reruns!CampaignInit

MCInit ==
    /\ instance \in Instance
    /\ CASE Locking -> Lock!LockInit /\ NoCampaign /\ NoScan
         [] instance = "faults" -> Faults!CampaignInit /\ NoLock /\ NoScan
         [] instance = "retries" -> Retries!CampaignInit /\ NoLock /\ NoScan
         [] instance = "reruns" -> Reruns!CampaignInit /\ NoLock /\ NoScan
         [] instance \in ScanInstance -> ScanInit /\ NoLock /\ NoCampaign

DiesInBetween ==
    \E p \in Supervisor :
        pc'[p] = "dead" /\ pc[p] \notin {"mkdir", "open", "writing", "held", "dead"}

OnLock(A) == A /\ UNCHANGED <<instance, campaignVars, scanVars>>
OnCampaign(A) == A /\ UNCHANGED <<instance, lockVars, scanVars>>
OnScan(A) == A /\ UNCHANGED <<lockVars, campaignVars>>

MCNext ==
    \/ Locking /\ OnLock(Lock!LockNext) /\ (instance = "lock" => ~DiesInBetween)
    \/ instance = "faults" /\ OnCampaign(Faults!CampaignNext)
    \/ instance = "retries" /\ OnCampaign(Retries!CampaignNext)
    \/ instance = "reruns" /\ OnCampaign(Reruns!CampaignNext)
    \/ OnScan(ScanNext)

\* LockLiveSpec and CampaignLiveSpec, each for its own instances.
MCFairness ==
    /\ WF_mcVars(instance = "wreck" /\ OnLock(Lock!TimePasses))
    /\ WF_mcVars(instance = "wreck" /\ OnLock(Lock!LegacyEnds))
    /\ \A p \in Supervisor :
         /\ WF_mcVars(instance = "wreck" /\ OnLock(Lock!Start(p)))
         /\ WF_mcVars(instance = "wreck" /\ OnLock(Lock!Acquire(p)))
         /\ WF_mcVars(instance = "wreck" /\ OnLock(Lock!Finish(p)))
    /\ WF_mcVars(instance = "reruns" /\ OnCampaign(Reruns!WorkerStep))
    /\ WF_mcVars(instance = "reruns" /\ OnCampaign(Reruns!Settle))
    /\ WF_mcVars(instance = "reruns" /\ OnCampaign(\E c \in Config : Reruns!Run(c)))

MCSpec == MCInit /\ [][MCNext]_mcVars /\ MCFairness

\* All parts keep to the values they declare, and nobody takes the lock from a
\* supervisor that lives, as long as none dies in the middle of taking it over.
LockIsKept ==
    CASE Locking -> Lock!LockTypeOK /\ (instance = "lock" => Lock!HolderKeepsLock)
      [] instance = "faults" -> Faults!CampaignTypeOK
      [] instance = "retries" -> Retries!CampaignTypeOK
      [] instance \in ScanInstance -> ScanTypeOK
      [] OTHER -> Reruns!CampaignTypeOK

\* The ledger of a directory is sound, over campaigns, crashes and reruns.
LedgersAreSound == Faults!LedgerIsSound

\* A lock that was left behind goes away.
LocksAreFreed == instance = "wreck" => Lock!LocksAreFreed

\* After the last interruption every task gets its receipt.
TasksAreAnswered == instance = "reruns" => Reruns!TasksAreAnswered
=============================================================================
