----------------------------- MODULE DeepScanRun -----------------------------
(***************************************************************************)
(* What a Deep Scan promises to its parent scan, with no worker, no attempt, *)
(* no reducer and no coordinator in sight: discoveries are accepted one      *)
(* after the other within the configured number of runs, reductions merge    *)
(* batches of what was accepted, and the run ends once.  The workbench store *)
(* (DeepScanStore) implements it, whatever coordinators do to each other.    *)
(***************************************************************************)
EXTENDS Integers

CONSTANTS Discovery, MaxDiscoveryRuns

VARIABLES
    place,      \* the place of each accepted discovery, 0 when not accepted
    merged,     \* the discoveries whose results are in the aggregate
    outcome     \* "open", or how the run ended

vars == <<place, merged, outcome>>

AcceptedHere == {d \in Discovery : place[d] # 0}

Init ==
    /\ place = [d \in Discovery |-> 0]
    /\ merged = {}
    /\ outcome \in {"open", "succeeded"}

\* The next place is always the one after the last.
Accept(d) ==
    /\ outcome = "open"
    /\ place[d] = 0
    /\ \E n \in 1 .. MaxDiscoveryRuns :
          /\ {place[e] : e \in AcceptedHere} = 1 .. n - 1
          /\ place' = [place EXCEPT ![d] = n]
    /\ UNCHANGED <<merged, outcome>>

Merge ==
    /\ outcome = "open"
    /\ \E batch \in (SUBSET (AcceptedHere \ merged)) \ {{}} : merged' = merged \cup batch
    /\ UNCHANGED <<place, outcome>>

Close ==
    /\ outcome = "open"
    /\ \/ outcome' \in {"failed", "interrupted", "canceled"}
       \/ /\ outcome' = "succeeded"
          /\ AcceptedHere # {} => merged # {}
    /\ UNCHANGED <<place, merged>>

\* A success may still be withdrawn with the parent scan.
Withdraw ==
    /\ outcome = "succeeded"
    /\ outcome' \in {"failed", "interrupted", "canceled"}
    /\ UNCHANGED <<place, merged>>

Next == (\E d \in Discovery : Accept(d)) \/ Merge \/ Close \/ Withdraw

Spec == Init /\ [][Next]_vars
=============================================================================
