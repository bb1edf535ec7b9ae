--------------------------- MODULE MCScanLifecycle ---------------------------
(* Instances of ScanLifecycle for TLC, checked in one run, each with bounds   *)
(* of its own.                                                                *)
EXTENDS ScanLifecycle

CONSTANTS
    Second,     \* a thread
    Extra       \* and a finding that only some instances use
VARIABLE instance

Unwritten == checkpoints = {} /\ findingsFile = None
NoWorkers == \A w \in Worker : workerResult[w] = {}
NoTrouble == op.pc \notin {"restore", "warn"}
NoRecovery == token \notin RecoveryToken
Saved(contents) == IF contents = None THEN {} ELSE contents
Queued ==
    IF op.queue # <<>> /\ Head(op.queue)[1] = "findings" THEN Head(op.queue)[2] ELSE {}
Found == UNION {indexed, FindingsOf(OnDisk), Saved(findingsFile), Saved(Queued)}

\* "handoff": every claimant; "faults": every incident, one finding; "results": two
\* findings; "authority": claimants that change while the scan ends.
Instance == {"handoff", "faults", "results", "authority"}
Bounds ==
    CASE instance = "handoff" -> Unwritten /\ Idle /\ scanStatus = "running" /\ runStatus = "none"
      [] instance = "faults" -> /\ origin = "cli" /\ continuation = None /\ workspaceThread # Second
                                /\ NoRecovery /\ Extra \notin Found
      [] instance = "results" -> /\ origin = "prompt" /\ workspaceThread # Second
                                 /\ NoRecovery /\ NoTrouble /\ Cardinality(checkpoints) <= 1
      [] instance = "authority" -> /\ origin = "app" /\ NoWorkers /\ crashes = 0 /\ Cardinality(checkpoints) <= 1
                                   /\ NoRecovery /\ NoTrouble /\ Extra \notin Found

InstanceInit == LifecycleInit /\ instance \in Instance /\ Bounds
InstanceNext == LifecycleNext /\ UNCHANGED instance /\ Bounds'
InstanceSpec == InstanceInit /\ [][InstanceNext]_<<vars, instance>>
=============================================================================
