-------------------------- MODULE FindingRemediation --------------------------
(***************************************************************************)
(* Repairing one finding: its triage and its remediation attempts            *)
(* (workbench_db.py and workbench_remediation.py).                           *)
(*                                                                           *)
(* A panel requests an attempt, which begins with the generation of a patch; *)
(* later it requests that the patch be applied and verified.  Each operation *)
(* is pending under an action token until a worker records its outcome; a    *)
(* token that is not used for long enough can be replaced.  Recording an     *)
(* outcome and requesting an action read the row and the checkout first, and *)
(* write in a transaction later: what lies between is in flight.             *)
(*                                                                           *)
(* The contents of the checkout are the user's edits and the patches that    *)
(* are applied.  Panels, workers and late duplicates are not told apart: any *)
(* request may come at any time, with any token.                             *)
(***************************************************************************)
EXTENDS Naturals, Sequences, FiniteSets, SequencesExt

CONSTANTS
    Request,            \* ids of attempts, drawn by panels
    ActionToken,        \* tokens, drawn by panels and workers
    None,
    MaxEdits,           \* bound of the model: edits of the user
    MaxVersion,         \* bound of the model: version of an attempt
    MaxInFlight         \* bound of the model: commands between read and write

VARIABLES
    triage,             \* finding_triage.status
    attempts,           \* finding_remediation_attempts, in the order of creation
    canceledIds,        \* history: attempts that were canceled and deleted
    checkout,           \* the selected working tree
    inFlight            \* commands that have read and not yet written

vars == <<triage, attempts, canceledIds, checkout, inFlight>>

Content == [edit : 0 .. MaxEdits, patches : SUBSET Request]
State == {"requested", "generated", "applied", "verifying", "verified", "failed", "superseded"}
Action == {"generate", "apply", "verify"}

Attempt ==
    [request : Request, state : State, version : 1 .. MaxVersion,
     base : Content, applied : Content \cup {None},
     pending : Action \cup {None}, token : ActionToken \cup {None},
     age : {"none", "fresh", "stale"}, delivered : BOOLEAN,
     before : State]    \* history: the state in which it was superseded

Command ==
    [cmd : {"set", "action"}, read : Attempt, to : State \cup Action,
     token : ActionToken, applied : Content \cup {None}]

ASSUME RemediationAssumption ==
    /\ MaxEdits \in Nat /\ MaxVersion \in Nat \ {0} /\ MaxInFlight \in Nat
    /\ None \notin ActionToken /\ None \notin Action /\ None \notin Content

\* A claim has a time exactly as long as it has a token, and only a pending
\* operation is claimed.
RemediationTypeOK ==
    /\ triage \in {"open", "closed"}
    /\ attempts \in Seq(Attempt)
    /\ checkout \in Content
    /\ inFlight \subseteq Command /\ Cardinality(inFlight) <= MaxInFlight
    /\ \A i \in DOMAIN attempts :
          /\ (attempts[i].token = None) <=> (attempts[i].age = "none")
          /\ attempts[i].token # None => attempts[i].pending # None
          /\ attempts[i].delivered => attempts[i].token # None

RemediationInit ==
    /\ triage = "open"
    /\ attempts = <<>> /\ canceledIds = {}
    /\ checkout = [edit |-> 0, patches |-> {}]
    /\ inFlight = {}

-----------------------------------------------------------------------------
Ids == {attempts[i].request : i \in DOMAIN attempts}
Place(r) == CHOOSE i \in DOMAIN attempts : attempts[i].request = r
Latest == attempts[Len(attempts)]

\* remediation_claim_is_active
ClaimIsActive(a) == a.token # None /\ a.age = "fresh"

Unclaimed(a) == [a EXCEPT !.token = None, !.age = "none", !.delivered = FALSE]
Claimed(a, k) == [a EXCEPT !.token = k, !.age = "fresh", !.delivered = FALSE]
Unpended(a) == [Unclaimed(a) EXCEPT !.pending = None]
Newer(a) == [a EXCEPT !.version = @ + 1]

WithPatch(content, r) == [content EXCEPT !.patches = @ \cup {r}]

\* require_transition
MayMove(from, to) ==
    to \in CASE from = "requested" -> {"requested", "generated", "failed"}
             [] from = "generated" -> {"generated", "applied", "failed"}
             [] from = "applied" -> {"applied", "verifying", "failed"}
             [] from = "verifying" -> {"verifying", "verified", "failed"}
             [] from = "verified" -> {"verifying", "verified"}
             [] from = "failed" -> {"generated", "applied", "verifying", "verified", "failed"}
             [] from = "superseded" -> {}

\* require_pending_action; a claimed attempt has a pending action.
PendingAllows(pending, to) ==
    to \in CASE pending = "generate" -> {"generated", "failed"}
             [] pending = "apply" -> {"applied", "failed"}
             [] pending = "verify" -> {"verifying", "verified", "failed"}
             [] pending = None -> {}

Put(i, a) == attempts' = [attempts EXCEPT ![i] = a]
Bounded(a) == a.version < MaxVersion

-----------------------------------------------------------------------------
(* Triage. *)

MayClose ==
    attempts # <<>> /\ Latest.pending # None
        => Latest.state = "failed" /\ ~ClaimIsActive(Latest)

\* Closing a verified finding as already fixed looks at the checkout; other
\* reasons do not.
SetFindingTriage(status) ==
    /\ status = "closed" => MayClose
    /\ triage' = status
    /\ UNCHANGED <<attempts, canceledIds, checkout, inFlight>>

-----------------------------------------------------------------------------
(* Requesting. *)

New(r, k) ==
    [request |-> r, state |-> "requested", version |-> 1, base |-> checkout,
     applied |-> None, pending |-> "generate", token |-> k, age |-> "fresh",
     delivered |-> FALSE, before |-> "requested"]

\* The latest attempt makes way for a new one.
MakesWay(a) ==
    \/ a.pending = None /\ a.state \notin {"requested", "verifying"}
    \/ a.state = "failed" /\ ~ClaimIsActive(a)

\* A plausible mistake: an operation that failed stays pending.
BugSuperseded(a) ==
    IF a.state \in {"generated", "applied"}
    THEN [Newer(Unpended(a)) EXCEPT !.state = "superseded", !.before = a.state]
    ELSE a

Superseded(a) ==
    IF a.state \in {"generated", "applied"}
    THEN [Newer(Unpended(a)) EXCEPT !.state = "superseded", !.before = a.state]
    ELSE IF a.state = "failed" /\ a.pending # None THEN Unpended(a) ELSE a

\* request_finding_remediation.  The same request again changes nothing, and a panel
\* that was told that its request is canceled does not make it again.  HEAD is as it
\* was scanned; the contents read before the transaction are those of now or earlier.
RequestFindingRemediation(r, k) ==
    /\ triage = "open"
    /\ r \notin Ids \cup canceledIds
    /\ attempts # <<>> => MakesWay(Latest)
    /\ attempts # <<>> /\ Latest.state \in {"generated", "applied"} => Bounded(Latest)
    /\ attempts' = Append(IF attempts = <<>> THEN <<>>
                          ELSE [attempts EXCEPT ![Len(attempts)] = Superseded(@)], New(r, k))
    /\ UNCHANGED <<triage, canceledIds, checkout, inFlight>>

\* request_finding_remediation_action: what it reads.
ReadForAction(r, k, version, action) ==
    LET a == attempts[Place(r)] IN
    /\ triage = "open" /\ r \in Ids
    /\ a.pending = None /\ a.version = version /\ Bounded(a)
    /\ \/ action = "apply" /\ a.state = "generated" /\ checkout = a.base
       \/ action = "verify" /\ a.state = "applied" /\ checkout = a.applied
    /\ Cardinality(inFlight) < MaxInFlight
    /\ inFlight' = inFlight \cup {[cmd |-> "action", read |-> a, to |-> action, token |-> k,
                                   applied |-> None]}
    /\ UNCHANGED <<triage, attempts, canceledIds, checkout>>

\* A plausible mistake: the row is found by its id alone.
BugSameRow(a, c) == a.request = c.read.request

\* What the UPDATE of a command in flight says again of its row.
SameRow(a, c) ==
    /\ a.request = c.read.request /\ a.version = c.read.version
    /\ IF c.cmd = "action" THEN a.pending = None ELSE a.token = c.token

WriteAction(c) ==
    /\ c.cmd = "action" /\ triage = "open"
    /\ \E i \in DOMAIN attempts :
          /\ SameRow(attempts[i], c)
          /\ Put(i, [Newer(Claimed(attempts[i], c.token)) EXCEPT !.pending = c.to])
    /\ inFlight' = inFlight \ {c}
    /\ UNCHANGED <<triage, canceledIds, checkout>>

-----------------------------------------------------------------------------
(* Claims. *)

MayTakeOver(a) == a.token = None \/ a.age = "stale"

\* claim_finding_remediation_resend; a holder that asks again changes nothing.
ClaimResend(r, k) ==
    /\ triage = "open" /\ r \in Ids
    /\ LET a == attempts[Place(r)] IN
          /\ a.pending # None /\ a.token # k /\ MayTakeOver(a)
          /\ Put(Place(r), Claimed(a, k))
    /\ UNCHANGED <<triage, canceledIds, checkout, inFlight>>

\* Delivery renews the lease, as often as it is reported, open finding or not.
MarkDelivered(r, k) ==
    /\ r \in Ids
    /\ LET a == attempts[Place(r)] IN
          /\ a.pending # None /\ a.token = k
          /\ Put(Place(r), [a EXCEPT !.age = "fresh", !.delivered = TRUE])
    /\ UNCHANGED <<triage, canceledIds, checkout, inFlight>>

ReleaseClaim(r, k) ==
    /\ r \in Ids
    /\ LET a == attempts[Place(r)] IN
          /\ a.pending # None /\ a.token = k
          /\ Put(Place(r), Unclaimed(a))
    /\ UNCHANGED <<triage, canceledIds, checkout, inFlight>>

\* CLAIM_LEASE_SECONDS, or DELIVERED_ACTION_LEASE_SECONDS, pass.
LeaseEnds(r) ==
    /\ r \in Ids
    /\ LET a == attempts[Place(r)] IN
          /\ a.age = "fresh"
          /\ Put(Place(r), [a EXCEPT !.age = "stale"])
    /\ UNCHANGED <<triage, canceledIds, checkout, inFlight>>

-----------------------------------------------------------------------------
(* Outcomes. *)

\* set_finding_remediation: what it reads.  The reviewed patch is applied when the
\* checkout is the base with that patch and nothing else.
ReadForSet(r, k, version, to) ==
    LET a == attempts[Place(r)] IN
    /\ triage = "open" /\ r \in Ids
    /\ a.version = version /\ a.token = k /\ Bounded(a)
    /\ MayMove(a.state, to) /\ PendingAllows(a.pending, to)
    /\ to = "generated" => checkout = a.base
    /\ to = "applied" => checkout # a.base /\ checkout = WithPatch(a.base, r)
    /\ to \in {"verifying", "verified"} => a.applied \in {None, checkout}
    /\ Cardinality(inFlight) < MaxInFlight
    /\ inFlight' = inFlight \cup {[cmd |-> "set", read |-> a, to |-> to, token |-> k,
                                   applied |-> IF to = "applied" THEN checkout ELSE a.applied]}
    /\ UNCHANGED <<triage, attempts, canceledIds, checkout>>

Recorded(a, c) ==
    LET b == [Newer(a) EXCEPT !.state = c.to, !.applied = c.applied]
    IN CASE c.to = "verifying" -> b
         [] c.to = "failed" -> Unclaimed(b)
         [] OTHER -> Unpended(b)

WriteSet(c) ==
    /\ c.cmd = "set" /\ triage = "open"
    /\ \E i \in DOMAIN attempts :
          SameRow(attempts[i], c) /\ Put(i, Recorded(attempts[i], c))
    /\ inFlight' = inFlight \ {c}
    /\ UNCHANGED <<triage, canceledIds, checkout>>

\* The finding was closed, or the row changed.
Refused(c) ==
    /\ triage = "closed" \/ ~\E i \in DOMAIN attempts : SameRow(attempts[i], c)
    /\ inFlight' = inFlight \ {c}
    /\ UNCHANGED <<triage, attempts, canceledIds, checkout>>

-----------------------------------------------------------------------------
(* Canceling: cancel_finding_remediation_request and _cancel_generation. *)

Restored(a) ==
    IF a.state = "superseded"
    THEN [Newer(a) EXCEPT !.state = IF a.applied # None THEN "applied" ELSE "generated"]
    ELSE a

CancelGeneration(i) ==
    LET rest == RemoveAt(attempts, i) IN
    /\ attempts[i].state = "requested"
    /\ attempts' = IF rest = <<>> THEN <<>>
                   ELSE [rest EXCEPT ![Len(rest)] = Restored(@)]
    /\ canceledIds' = canceledIds \cup {attempts[i].request}

\* Only the operation is withdrawn: the state stays.
CancelRequest(r, k) ==
    /\ r \in Ids
    /\ LET i == Place(r)
           a == attempts[i]
       IN /\ a.pending # None /\ a.token = k
          /\ \/ /\ a.state = "failed"
                /\ Put(i, Unclaimed(a)) /\ UNCHANGED canceledIds
             \/ /\ a.state # "failed" /\ a.pending = "generate"
                /\ \A j \in DOMAIN attempts : Bounded(attempts[j])
                /\ CancelGeneration(i)
             \/ /\ a.state # "failed" /\ a.pending # "generate" /\ Bounded(a)
                /\ Put(i, Newer(Unpended(a))) /\ UNCHANGED canceledIds
    /\ UNCHANGED <<triage, checkout, inFlight>>

-----------------------------------------------------------------------------
(* The working tree: workers apply patches, the user edits. *)
WorkerApplies(r) ==
    /\ r \in Ids /\ attempts[Place(r)].pending = "apply" /\ checkout.patches # Request
    /\ checkout' = WithPatch(checkout, r)
    /\ UNCHANGED <<triage, attempts, canceledIds, inFlight>>

UserEdits ==
    /\ checkout.edit < MaxEdits
    /\ checkout' = [checkout EXCEPT !.edit = @ + 1]
    /\ UNCHANGED <<triage, attempts, canceledIds, inFlight>>

RemediationNext ==
    \/ \E status \in {"open", "closed"} : SetFindingTriage(status)
    \/ \E r \in Request, k \in ActionToken :
          \/ RequestFindingRemediation(r, k)
          \/ ClaimResend(r, k) \/ MarkDelivered(r, k) \/ ReleaseClaim(r, k) \/ CancelRequest(r, k)
          \/ \E version \in 1 .. MaxVersion :
                \/ \E action \in {"apply", "verify"} : ReadForAction(r, k, version, action)
                \/ \E to \in State : ReadForSet(r, k, version, to)
    \/ \E c \in inFlight : WriteAction(c) \/ WriteSet(c) \/ Refused(c)
    \/ \E r \in Request : LeaseEnds(r) \/ WorkerApplies(r)
    \/ UserEdits

RemediationSpec == RemediationInit /\ [][RemediationNext]_vars

-----------------------------------------------------------------------------
(* What must hold. *)

\* A finding has one attempt that lives: all earlier ones are settled, without an
\* operation or a claim that a late worker could use.
OneLiveAttempt ==
    \A i \in DOMAIN attempts : i < Len(attempts) =>
        /\ attempts[i].pending = None /\ attempts[i].token = None
        /\ attempts[i].state \in {"superseded", "verified", "failed"}

\* What is called applied, or verified, is the reviewed patch of this attempt on the
\* contents it was generated for, whatever was retried, failed or superseded between.
AppliedIsReviewed ==
    \A i \in DOMAIN attempts : LET a == attempts[i] IN
        /\ a.applied # None => a.applied = WithPatch(a.base, a.request)
        /\ a.state \in {"applied", "verifying", "verified"} => a.applied # None
        /\ a.state \in {"requested", "generated"} => a.applied = None

\* At any time one attempt lives, and what is called applied was reviewed.
AttemptsAreSound == OneLiveAttempt /\ AppliedIsReviewed

\* Declining a new generation brings the attempt it superseded back as it was.
CancelRestores ==
    [][\A i \in DOMAIN attempts \cap DOMAIN attempts' :
          attempts[i].state = "superseded" /\ attempts[i].request = attempts'[i].request
            => attempts'[i].state \in {"superseded", attempts[i].before}]_vars

\* While a finding is closed no outcome is recorded and no operation begins, also
\* none that was validated before it was closed.
ClosedIsFrozen ==
    [][triage = "closed" /\ triage' = "closed" =>
          /\ Ids' = Ids
          /\ \A i \in DOMAIN attempts :
                attempts'[i].state = attempts[i].state /\ attempts'[i].pending = attempts[i].pending]_vars

\* An outcome is recorded over the state in which it was validated: updates in
\* flight are never applied to a row that moved on.
NoLostUpdate ==
    [][\A c \in inFlight \ inFlight' : \A i \in DOMAIN attempts \cap DOMAIN attempts' :
          attempts[i].request = c.read.request /\ attempts'[i].request = c.read.request
          /\ attempts'[i].version # attempts[i].version
            => attempts[i].state = c.read.state /\ attempts[i].pending = c.read.pending]_vars

\* A worker within its lease keeps its operation until it records an outcome or
\* gives it up: nobody takes the token over from it.
LeasesHold ==
    [][\A i \in DOMAIN attempts \cap DOMAIN attempts' :
          ClaimIsActive(attempts[i]) /\ attempts'[i].request = attempts[i].request
            => attempts'[i].token \in {attempts[i].token, None}]_vars

\* Requests that read before their transaction, late workers and repeated panels
\* neither overwrite one another nor what the user decided.
RequestsDoNotCollide == CancelRestores /\ ClosedIsFrozen /\ NoLostUpdate /\ LeasesHold
=============================================================================
