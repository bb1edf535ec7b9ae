---------------------------- MODULE MultiscanLock ----------------------------
(***************************************************************************)
(* The lock of one multiscan output directory                                *)
(* (sdk/typescript/src/multiscan.ts, acquireLock, inspectLock, recoverLock). *)
(*                                                                           *)
(* The lock is a directory ".lock" with a file "owner.json" whose age the    *)
(* holder keeps fresh, and, during a recovery, a file ".recovering".  Every  *)
(* operation names these paths, so it acts on whatever directory is there    *)
(* when it runs.  A supervisor creates at most one directory and one owner   *)
(* file while a file of its own is at the path, so both are named after the  *)
(* supervisor that created them.                                             *)
(*                                                                           *)
(* The thirty seconds of LOCK_LEASE_MS are an age, "fresh" or "stale".  They *)
(* are assumed to be longer than the few file operations between two waits   *)
(* of a supervisor (Busy); a supervisor that found a lock stale may still be *)
(* as slow as it likes before it opens the recovery claim.  A supervisor     *)
(* that is suspended in the middle of these operations is not modelled.      *)
(***************************************************************************)
CONSTANTS
    Supervisor,         \* processes that run the same multiscan
    NoFile,             \* no such file or directory
    Legacy,             \* an owner file with a pid only, of an older release
    CrashIn             \* the steps at which a run lets supervisors die

Step == {"idle", "mkdir", "inspect", "open", "dropClaim", "reinspect",
         "abandon", "rename", "created", "writing", "cleanup", "held",
         "remove", "rmdir", "dead"}

VARIABLES
    pc,                 \* pc[p]: what supervisor p does next
    expected,           \* expected[p]: the owner p saw when it found the lock stale
    lock,               \* who created the directory at .lock
    dirAge,             \* its modification time
    owner,              \* who created .lock/owner.json
    written,            \* that file has its contents
    ownerAge,           \* its modification time
    claim,              \* who created .lock/.recovering
    claimAge,           \* its modification time
    legacyAlive         \* a process has the pid in the legacy owner file

lockVars == <<pc, expected, lock, dirAge, owner, written, ownerAge, claim,
              claimAge, legacyAlive>>

Age == {"fresh", "stale"}

\* The contents of owner.json as readFile returns them.
OwnerRead == IF owner = NoFile \/ written THEN owner ELSE "empty"

LockTypeOK ==
    /\ pc \in [Supervisor -> Step]
    /\ expected \in [Supervisor -> Supervisor \cup {NoFile, Legacy, "empty"}]
    /\ lock \in Supervisor \cup {NoFile, Legacy}
    /\ owner \in Supervisor \cup {NoFile, Legacy}
    /\ claim \in Supervisor \cup {NoFile}
    /\ dirAge \in Age /\ ownerAge \in Age /\ claimAge \in Age
    /\ written \in BOOLEAN /\ legacyAlive \in BOOLEAN
    /\ lock = NoFile => owner = NoFile /\ claim = NoFile

\* The directory is absent, or an older release left one.
LockInit ==
    /\ pc = [p \in Supervisor |-> "idle"]
    /\ expected = [p \in Supervisor |-> NoFile]
    /\ lock \in {NoFile, Legacy} /\ owner = lock /\ written = TRUE
    /\ claim = NoFile
    /\ dirAge = "fresh" /\ ownerAge = "fresh" /\ claimAge = "fresh"
    /\ legacyAlive \in {lock = Legacy, FALSE}

-----------------------------------------------------------------------------
(* The file system. *)

EmptyDirectory(d) ==
    /\ lock' = d /\ owner' = NoFile /\ claim' = NoFile
    /\ dirAge' = "fresh"
    /\ UNCHANGED <<written, ownerAge, claimAge>>

Files == <<lock, dirAge, owner, written, ownerAge, claim, claimAge>>

Goto(p, step) == pc' = [pc EXCEPT ![p] = step]

\* The promise rejects; the caller may run the command again.
Refused(p) == Goto(p, "idle")

-----------------------------------------------------------------------------
(* inspectLock: whether the lock at the path may be taken from its owner. *)

\* A plausible mistake: a lock that has no owner file is never stale.
BugNeverStale ==
    CASE owner = NoFile -> FALSE
      [] owner = Legacy -> ~legacyAlive
      [] OTHER -> ownerAge = "stale"

Stale ==
    CASE owner = NoFile -> dirAge = "stale"
      [] owner = Legacy -> ~legacyAlive
      [] OTHER -> ownerAge = "stale"

-----------------------------------------------------------------------------
(* acquireLock *)

\* A process of its own: a directory left by an earlier run is no longer p's.
Start(p) ==
    /\ pc[p] = "idle"
    /\ Goto(p, "mkdir")
    /\ lock' = IF lock = p THEN Legacy ELSE lock
    /\ UNCHANGED <<expected, legacyAlive, dirAge, owner, written, ownerAge,
                   claim, claimAge>>

Mkdir(p) ==
    /\ pc[p] = "mkdir"
    /\ \/ lock = NoFile /\ EmptyDirectory(p) /\ Goto(p, "created")
       \/ lock # NoFile /\ Goto(p, "inspect") /\ UNCHANGED Files
    /\ UNCHANGED <<expected, legacyAlive>>

\* The two reads of inspectLock happen at once; lstat rejects without a directory.
Inspect(p) ==
    /\ pc[p] = "inspect"
    /\ IF lock # NoFile /\ Stale
       THEN Goto(p, "open") /\ expected' = [expected EXCEPT ![p] = OwnerRead]
       ELSE Refused(p) /\ UNCHANGED expected
    /\ UNCHANGED <<legacyAlive, Files>>

\* writeFile creates owner.json unless it exists, then writes to the file it created.
CreateOwner(p) ==
    /\ pc[p] = "created"
    /\ IF lock # NoFile /\ owner = NoFile
       THEN /\ owner' = p /\ written' = FALSE
            /\ ownerAge' = "fresh" /\ dirAge' = "fresh"
            /\ Goto(p, "writing")
            /\ UNCHANGED <<lock, claim, claimAge>>
       ELSE Goto(p, "cleanup") /\ UNCHANGED Files
    /\ UNCHANGED <<expected, legacyAlive>>

WriteOwner(p) ==
    /\ pc[p] = "writing"
    /\ IF owner = p
       THEN written' = TRUE /\ ownerAge' = "fresh"
       ELSE UNCHANGED <<written, ownerAge>>
    /\ Goto(p, "held")
    /\ UNCHANGED <<expected, legacyAlive, lock, dirAge, owner, claim, claimAge>>

\* The directory is removed if it is the one p created and is empty.
Cleanup(p) ==
    /\ pc[p] = "cleanup"
    /\ IF lock = p /\ owner = NoFile /\ claim = NoFile
       THEN EmptyDirectory(NoFile)
       ELSE UNCHANGED Files
    /\ Refused(p)
    /\ UNCHANGED <<expected, legacyAlive>>

\* The function acquireLock returns: only an own lock is removed.
Release(p) ==
    /\ pc[p] = "held"
    /\ Goto(p, IF OwnerRead = p THEN "remove" ELSE "idle")
    /\ UNCHANGED <<expected, legacyAlive, Files>>

\* rm(recursive): the files first, then the directory, again if it was not empty.
RemoveFiles(p) ==
    /\ pc[p] = "remove"
    /\ IF lock = NoFile
       THEN Refused(p) /\ UNCHANGED Files
       ELSE EmptyDirectory(lock) /\ Goto(p, "rmdir")
    /\ UNCHANGED <<expected, legacyAlive>>

RemoveDirectory(p) ==
    /\ pc[p] = "rmdir"
    /\ IF owner = NoFile /\ claim = NoFile
       THEN EmptyDirectory(NoFile) /\ Goto(p, "idle")
       ELSE Goto(p, "remove") /\ UNCHANGED Files
    /\ UNCHANGED <<expected, legacyAlive>>

-----------------------------------------------------------------------------
(* recoverLock *)

\* .recovering is created exclusively: one claim per directory.
OpenClaim(p) ==
    /\ pc[p] = "open"
    /\ CASE lock = NoFile -> Refused(p) /\ UNCHANGED Files
         [] lock # NoFile /\ claim = NoFile ->
              /\ claim' = p /\ claimAge' = "fresh" /\ dirAge' = "fresh"
              /\ Goto(p, "reinspect")
              /\ UNCHANGED <<lock, owner, written, ownerAge>>
         [] OTHER ->
              /\ IF claimAge = "stale" THEN Goto(p, "dropClaim") ELSE Refused(p)
              /\ UNCHANGED Files
    /\ UNCHANGED <<expected, legacyAlive>>

RemoveClaim ==
    /\ claim' = NoFile
    /\ dirAge' = IF claim = NoFile THEN dirAge ELSE "fresh"
    /\ UNCHANGED <<lock, owner, written, ownerAge, claimAge>>

DropClaim(p) ==
    /\ pc[p] = "dropClaim"
    /\ RemoveClaim /\ Goto(p, "open")
    /\ UNCHANGED <<expected, legacyAlive>>

\* The claim itself has touched the directory, so that the age of a directory
\* without an owner says nothing any more and is not looked at.
Reinspect(p) ==
    /\ pc[p] = "reinspect"
    /\ Goto(p, IF /\ lock # NoFile
                  /\ OwnerRead = expected[p]
                  /\ expected[p] # NoFile => Stale
               THEN "rename" ELSE "abandon")
    /\ UNCHANGED <<expected, legacyAlive, Files>>

\* The finally block, when the directory was not moved.
Abandon(p) ==
    /\ pc[p] = "abandon"
    /\ RemoveClaim /\ Refused(p)
    /\ UNCHANGED <<expected, legacyAlive>>

Rename(p) ==
    /\ pc[p] = "rename"
    /\ IF lock = NoFile
       THEN Goto(p, "abandon") /\ UNCHANGED Files
       ELSE EmptyDirectory(NoFile) /\ Goto(p, "mkdir")
    /\ UNCHANGED <<expected, legacyAlive>>

-----------------------------------------------------------------------------
(* The environment. *)

Die(p) ==
    /\ pc[p] \in CrashIn
    /\ Goto(p, "dead")
    /\ UNCHANGED <<expected, legacyAlive, Files>>

LegacyEnds ==
    /\ legacyAlive /\ legacyAlive' = FALSE
    /\ UNCHANGED <<pc, expected, Files>>

\* Steps that follow each other at once, far within a lease.
Busy ==
    \E p \in Supervisor :
        pc[p] \in {"created", "writing", "cleanup", "remove", "rmdir",
                   "dropClaim", "reinspect", "rename", "abandon"}

\* A plausible mistake: no heartbeat.
BugTimePasses ==
    /\ lock # NoFile /\ ~Busy
    /\ \/ owner # NoFile /\ ownerAge' = "stale" /\ UNCHANGED <<dirAge, claimAge>>
       \/ dirAge' = "stale" /\ UNCHANGED <<ownerAge, claimAge>>
       \/ claim # NoFile /\ claimAge' = "stale" /\ UNCHANGED <<ownerAge, dirAge>>
    /\ UNCHANGED <<pc, expected, lock, owner, written, claim, legacyAlive>>

\* The heartbeat keeps the owner file of a holder from going stale.
TimePasses ==
    /\ lock # NoFile /\ ~Busy
    /\ \/ /\ owner # NoFile
          /\ \A p \in Supervisor : pc[p] = "held" => OwnerRead # p
          /\ ownerAge' = "stale" /\ UNCHANGED <<dirAge, claimAge>>
       \/ dirAge' = "stale" /\ UNCHANGED <<ownerAge, claimAge>>
       \/ claim # NoFile /\ claimAge' = "stale" /\ UNCHANGED <<ownerAge, dirAge>>
    /\ UNCHANGED <<pc, expected, lock, owner, written, claim, legacyAlive>>

Acquire(p) ==
    \/ Mkdir(p) \/ Inspect(p) \/ CreateOwner(p) \/ WriteOwner(p) \/ Cleanup(p)
    \/ OpenClaim(p) \/ DropClaim(p) \/ Reinspect(p) \/ Abandon(p) \/ Rename(p)

Finish(p) == Release(p) \/ RemoveFiles(p) \/ RemoveDirectory(p)

LockNext ==
    \/ \E p \in Supervisor : Start(p) \/ Acquire(p) \/ Finish(p) \/ Die(p)
    \/ LegacyEnds \/ TimePasses

LockSpec == LockInit /\ [][LockNext]_lockVars

\* Promises settle, campaigns end, commands are tried again and time goes by.
LockLiveSpec ==
    /\ LockSpec
    /\ WF_lockVars(TimePasses) /\ WF_lockVars(LegacyEnds)
    /\ \A p \in Supervisor :
         /\ WF_lockVars(Start(p))
         /\ WF_lockVars(Acquire(p))
         /\ WF_lockVars(Finish(p))

-----------------------------------------------------------------------------
(* Properties. *)

\* At most one supervisor runs the campaign, and no older release still does: test
\* multiscan.test.ts:1277 "allows only one supervisor to recover an abandoned lock".
OneSupervisor ==
    /\ \A p, q \in Supervisor : pc[p] = "held" /\ pc[q] = "held" => p = q
    /\ legacyAlive => \A p \in Supervisor : pc[p] # "held"

\* While a supervisor runs the campaign the lock at the path is its own: nobody
\* recovers it, and what a refused supervisor cleans up is not the holder's.
\* The same for a live process of an older release.
HolderKeepsLock ==
    /\ \A p \in Supervisor : pc[p] = "held" => lock # NoFile /\ OwnerRead = p
    /\ legacyAlive => lock # NoFile /\ OwnerRead = Legacy

\* A lock left behind by a supervisor that ended or died at any step goes away,
\* unless nobody is left to try.
LocksAreFreed ==
    lock # NoFile ~> \/ lock = NoFile
                   \/ \A p \in Supervisor : pc[p] = "dead"
=============================================================================
