----------------------------- MODULE ScanHandoff -----------------------------
(***************************************************************************)
(* Who may continue a scan: the handoff columns of one row of scans          *)
(* (plugins/codex-security/scripts/workbench/handoff.py).                    *)
(*                                                                           *)
(* The application starts a scan "pending" and hands it to a Codex thread:   *)
(* it claims the delivery with a token, attaches the thread it created, and  *)
(* the thread reports that the instructions arrived.  A claim that is not    *)
(* delivered goes stale and another panel may take it over.  Scans started   *)
(* from a prompt or from the command line are delivered from the beginning.  *)
(*                                                                           *)
(* Panels and threads are not modelled as processes: any of them presents    *)
(* any token it ever drew, in any order and as often as it likes, so that a  *)
(* panel that slept through a takeover is covered.  A refused request is a   *)
(* stuttering step.                                                          *)
(***************************************************************************)
EXTENDS Naturals

CONSTANTS
    Thread,             \* ids of Codex threads
    AppToken,           \* claim tokens drawn by panels
    RecoveryToken,      \* claim tokens with the prefix "recovery_"
    None,               \* SQL NULL
    Origin              \* the ways scans start that a run looks at

ASSUME HandoffAssumption ==
    /\ AppToken \cap RecoveryToken = {}
    /\ None \notin Thread \cup AppToken \cup RecoveryToken
    /\ Origin \subseteq {"app", "prompt", "headless", "cli"}

VARIABLES
    origin,             \* how the scan was started; never written again
    mode,               \* scans.mode
    workspaceThread,    \* workspaces.thread_id
    handoff,            \* handoff_status
    token,              \* handoff_claim_token
    claimAge,           \* handoff_claimed_at, against CLAIM_LEASE_SECONDS
    continuation,       \* continuation_thread_id
    deepOwner,          \* deep_scan_owner_thread_id
    attachedUnder       \* history: the token under which continuation was attached

handoffVars == <<origin, mode, workspaceThread, handoff, token, claimAge,
                 continuation, deepOwner, attachedUnder>>

Token == AppToken \cup RecoveryToken

HandoffTypeOK ==
    /\ origin \in Origin
    /\ mode \in {"standard", "deep"}
    /\ workspaceThread \in Thread \cup {None}
    /\ handoff \in {"pending", "delivered"}
    /\ token \in Token \cup {None}
    /\ claimAge \in {"none", "fresh", "stale"}
    /\ continuation \in Thread \cup {None}
    /\ deepOwner \in Thread \cup {None}
    /\ attachedUnder \in Token \cup {None}
    /\ claimAge # "none" <=> handoff = "pending" /\ token # None

-----------------------------------------------------------------------------
(* Who owns what. *)

\* require_current_continuation
CurrentContinuation(t) ==
    \/ handoff = "delivered" /\ token = None /\ t = None
    \/ t # None /\ token = t

\* The thread that may cancel the scan, write its context or report delivery.
OwningThread == IF continuation # None THEN continuation ELSE workspaceThread

\* require_owned_scan: the thread that may orchestrate a Deep Scan.
Orchestrator == IF deepOwner # None THEN deepOwner ELSE workspaceThread

-----------------------------------------------------------------------------
(* Starting a scan. *)

\* insert_running_scan: a Deep Scan belongs to the thread of its workspace.
InsertRunningScan(thread, status) ==
    /\ mode \in {"standard", "deep"}
    /\ workspaceThread = thread
    /\ handoff = status
    /\ deepOwner = IF mode = "deep" THEN thread ELSE None
    /\ claimAge = "none"

\* start_scan: the workspace may have been opened without a thread.
StartScan ==
    /\ origin = "app"
    /\ \E thread \in Thread \cup {None} : InsertRunningScan(thread, "pending")
    /\ token = None /\ continuation = None

\* _start_prompt_driven_scan; a headless standard scan draws a token of its own.
StartPromptDrivenScan ==
    \E thread \in Thread :
        /\ InsertRunningScan(thread, "delivered")
        /\ \/ origin = "prompt" /\ token = None /\ continuation = None
           \/ /\ origin = "headless" /\ mode = "standard"
              /\ token \in AppToken /\ continuation = thread

\* register_cli_scan: no thread yet.
RegisterCliScan ==
    /\ origin = "cli"
    /\ InsertRunningScan(None, "delivered")
    /\ token = None /\ continuation = None

HandoffInit ==
    /\ origin \in Origin
    /\ mode \in {"standard", "deep"}
    /\ StartScan \/ StartPromptDrivenScan \/ RegisterCliScan
    /\ attachedUnder = IF continuation = None THEN None ELSE token

-----------------------------------------------------------------------------
(* The commands. *)

\* A plausible mistake: a takeover keeps the thread of the panel it replaces.
BugClaimHandoffDelivery(t, takeOver) ==
    /\ handoff = "pending" /\ token # t
    /\ token = None \/ (takeOver /\ claimAge # "fresh")
    /\ token' = t /\ claimAge' = "fresh"
    /\ UNCHANGED <<continuation, attachedUnder, deepOwner,
                   origin, mode, workspaceThread, handoff>>

\* Presenting the token that holds the claim writes nothing: it does not renew
\* the lease.
ClaimHandoffDelivery(t, takeOver) ==
    /\ handoff = "pending" /\ token # t
    /\ token = None \/ (takeOver /\ claimAge # "fresh")
    /\ token' = t /\ claimAge' = "fresh"
    /\ IF token = None
       THEN UNCHANGED <<continuation, deepOwner, attachedUnder>>
       ELSE continuation' = None /\ deepOwner' = None /\ attachedUnder' = None
    /\ UNCHANGED <<origin, mode, workspaceThread, handoff>>

ReleaseHandoffDelivery(t) ==
    /\ handoff = "pending" /\ token = t
    /\ token' = None /\ claimAge' = "none"
    /\ continuation' = None /\ deepOwner' = None /\ attachedUnder' = None
    /\ UNCHANGED <<origin, mode, workspaceThread, handoff>>

\* The status is not looked at: a thread may be attached after delivery, too.
AttachScanContinuationThread(t, thread) ==
    /\ token = t /\ continuation = None
    /\ continuation' = thread /\ attachedUnder' = t
    /\ deepOwner' = IF mode = "deep" THEN thread ELSE deepOwner
    /\ UNCHANGED <<origin, mode, workspaceThread, handoff, token, claimAge>>

\* validate_handoff_delivery_thread; the panel gives no thread.
DeliveryThreadValid(t, thread) ==
    thread # None => thread = OwningThread \/ t \in RecoveryToken

MarkHandoffDelivered(t, thread) ==
    /\ DeliveryThreadValid(t, thread)
    /\ handoff = "pending" /\ token = t
    /\ handoff' = "delivered" /\ claimAge' = "none"
    /\ UNCHANGED <<origin, mode, workspaceThread, token, continuation, deepOwner,
                   attachedUnder>>

\* set-scan-thread: only the SDK calls it, for the scans it registered.
SetScanThread(thread) ==
    /\ origin = "cli"
    /\ continuation' = thread
    /\ UNCHANGED <<origin, mode, workspaceThread, handoff, token, claimAge,
                   deepOwner, attachedUnder>>

\* begin_deep_scan_for_scan: the first caller owns a scan nobody owns.  The row
\* was read before the transaction; both updates say again what they rely on.
ClaimUnownedDeepScan(thread, t) ==
    /\ origin = "cli" /\ mode = "deep"
    /\ handoff = "delivered" /\ deepOwner = None /\ workspaceThread = None
    /\ CurrentContinuation(t)
    /\ workspaceThread' = thread /\ deepOwner' = thread
    /\ UNCHANGED <<origin, mode, handoff, token, claimAge, continuation, attachedUnder>>

\* CLAIM_LEASE_SECONDS pass.
ClaimGoesStale ==
    /\ claimAge = "fresh"
    /\ claimAge' = "stale"
    /\ UNCHANGED <<origin, mode, workspaceThread, handoff, token, continuation,
                   deepOwner, attachedUnder>>

HandoffNext ==
    \/ \E t \in Token, takeOver \in BOOLEAN : ClaimHandoffDelivery(t, takeOver)
    \/ \E t \in Token : ReleaseHandoffDelivery(t)
    \/ \E t \in Token, thread \in Thread : AttachScanContinuationThread(t, thread)
    \/ \E t \in Token, thread \in Thread \cup {None} : MarkHandoffDelivered(t, thread)
    \/ \E thread \in Thread : SetScanThread(thread)
    \/ \E thread \in Thread, t \in Token \cup {None} : ClaimUnownedDeepScan(thread, t)
    \/ ClaimGoesStale

HandoffSpec == HandoffInit /\ [][HandoffNext]_handoffVars

-----------------------------------------------------------------------------
(* What the handoff promises. *)

\* The attached thread belongs to the claim that holds the scan.  After a
\* takeover or a release, whoever started a thread under the old token finds no
\* trace of it in the row, so the new claimant's thread is the one that works.
ThreadBelongsToClaim ==
    origin # "cli" /\ continuation # None => attachedUnder = token /\ token # None

\* The thread that continues a Deep Scan is the one that may orchestrate it:
\* require_owned_scan and require_current_continuation never name two threads.
OrchestratorContinues ==
    origin # "cli" /\ mode = "deep" /\ continuation # None => Orchestrator = continuation

\* Claim, thread and Deep Scan belong together.
HandoffIsSound == ThreadBelongsToClaim /\ OrchestratorContinues

\* Delivery settles the question for good: afterwards neither a late panel, nor
\* a takeover, nor a release moves the scan to another claim or another thread.
DeliverySettles ==
    [][handoff = "delivered" =>
         /\ handoff' = "delivered" /\ token' = token
         /\ origin # "cli" /\ continuation # None
              => continuation' = continuation /\ deepOwner' = deepOwner]_handoffVars

\* A delivered scan that has a continuation thread keeps it: the thread was attached under
\* the claim that was delivered, no other thread owns the scan afterwards, and of a Deep Scan
\* it is this thread that orchestrates.  (A scan that was delivered without a thread gets
\* the one that its claimant attaches later.)
ContinuationIsSettled ==
    [][handoff = "delivered" /\ origin # "cli" /\ continuation # None =>
         /\ token' = token /\ attachedUnder' = token
         /\ OwningThread' = continuation
         /\ mode = "deep" => Orchestrator' = continuation]_handoffVars

\* One claim passes to another only through a release by its holder or after
\* its lease ran out: a fresh claim cannot be stolen.
FreshClaimsAreSafe ==
    [][claimAge = "fresh" /\ handoff = "pending" => token' \in {token, None}]_handoffVars
=============================================================================
