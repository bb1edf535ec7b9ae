--------------------------- MODULE FindingsWorkflow ---------------------------
(***************************************************************************)
(* A findings workflow: the durable stages scan, publish and dedupe of one     *)
(* --workflow-id (sdk/typescript/src/finding-workflow.ts, api.ts,              *)
(* custom-publish.ts, deduplication/scan.ts, checkpointed-review.ts,           *)
(* scripts/workbench_finding_workflows.py).                                  *)
(*                                                                           *)
(* Its record, the scans and the saved reviews are in the workbench database;  *)
(* the findings and the duplicate groups go to a service.  One process runs    *)
(* one command at a time; it may die between any two writes, a request may be   *)
(* lost before or after it took effect, and the source may change, to contents  *)
(* it did not have before.                                                   *)
(***************************************************************************)
EXTENDS Naturals, FiniteSets

CONSTANTS
    Destination,        \* findings services, with the scope of the search
    FindingPair,        \* the pairs of findings that are looked at
    Unbound,
    Orderly,            \* a command is given when the one before it has completed
    MaxFaults, MaxSource    \* bounds: failures and deaths; changes of the source

Scan == 1 .. MaxFaults + 2   \* 1 may be an earlier one, of no workflow

VARIABLES
    wf,                 \* the row of finding_workflows
    scans, sealed,      \* the scans' rows, and those whose artifacts are sealed
    service,            \* what it was told: <<destination, scan>>
    written,            \* the sets of groups that were ever written to it
    saved,              \* finding_workflow_reviews: [pair, source, same, read]
    source, faults,
    pc, command, scan,  \* of the process: what it does, with which scan
    begun, decisions, review    \* the source it began with, and its reviews

store == <<scans, sealed, service, written, saved>>
process == <<pc, command, scan, begun, decisions, review>>
workflowVars == <<wf, store, source, faults, process>>

Stage == {"scan", "publish", "dedupe"}
Status == {"pending", "running", "failed", "completed"}
Review == [pair : FindingPair, source : 0 .. MaxSource, same : BOOLEAN, read : 0 .. MaxSource]

WorkflowTypeOK ==
    /\ wf \in [scan : Scan \cup {Unbound}, destination : Destination \cup {Unbound},
               stage : [Stage -> Status], result : SUBSET FindingPair, pending : BOOLEAN]
    /\ scans \in [Scan -> {"none", "running", "complete", "failed"}] /\ sealed \subseteq Scan
    /\ service \subseteq Destination \X Scan /\ written \subseteq SUBSET FindingPair
    /\ saved \subseteq Review /\ source \in 0 .. MaxSource /\ faults \in 0 .. MaxFaults
    /\ pc \in {"idle", "reuse", "begin", "register", "scanning", "completing", "receipt",
               "bound", "publish", "post", "posted", "dedupe", "review", "check", "write", "written"}
    /\ command \in {"none", "scan", "publish", "dedupe"} /\ scan \in Scan \cup {Unbound}
    /\ begun \in 0 .. MaxSource /\ decisions \subseteq Review /\ review \subseteq Review

WorkflowInit ==
    /\ wf = [scan |-> Unbound, destination |-> Unbound, stage |-> [s \in Stage |-> "pending"],
             result |-> {}, pending |-> FALSE]
    /\ \E earlier \in BOOLEAN :
         /\ scans = [s \in Scan |-> IF earlier /\ s = 1 THEN "complete" ELSE "none"]
         /\ sealed = (IF earlier THEN {1} ELSE {})
    /\ service = {} /\ written = {} /\ saved = {} /\ source = 0 /\ faults = 0
    /\ pc = "idle" /\ command = "none" /\ scan = Unbound
    /\ begun = 0 /\ decisions = {} /\ review = {}

Completed(stage) == wf.stage[stage] = "completed"

\* begin, complete and fail of finding_workflow leave a completed stage alone.
Mark(stage, status) ==
    wf' = IF Completed(stage) THEN wf ELSE [wf EXCEPT !.stage[stage] = status]

Goto(step) == pc' = step /\ UNCHANGED <<command, scan>>
Reviewing == <<begun, decisions, review>>

----------------------------------------------------------------------------
(* scan --workflow-id: #runWorkflow.                                         *)

ScanCommand ==
    /\ pc = "idle" /\ ~Completed("scan")
    /\ command' = "scan" /\ scan' = wf.scan
    /\ pc' = (IF wf.scan # Unbound /\ scans[wf.scan] = "complete" THEN "reuse" ELSE "begin")
    /\ UNCHANGED <<wf, store, source, faults, Reviewing>>

\* The scan completed, and its receipt was lost.
Reuse ==
    /\ pc = "reuse" /\ scan \in sealed /\ Mark("scan", "completed") /\ Goto("idle")
    /\ UNCHANGED <<store, source, faults, Reviewing>>

BeginScan ==
    /\ pc = "begin" /\ Mark("scan", "running") /\ Goto("register")
    /\ UNCHANGED <<store, source, faults, Reviewing>>

\* register_workflow_scan, in the transaction that registers the scan.
RegisterScan ==
    /\ pc = "register" /\ ~Completed("scan")
    /\ wf.scan # Unbound => scans[wf.scan] # "complete"
    /\ \E s \in Scan :
         /\ scans[s] = "none" /\ s > 1 /\ \A t \in Scan : scans[t] = "none" /\ t > 1 => s <= t
         /\ scans' = [scans EXCEPT ![s] = "running"]
         /\ wf' = [wf EXCEPT !.scan = s] /\ scan' = s
    /\ pc' = "scanning"
    /\ UNCHANGED <<sealed, service, written, saved, source, faults, command, Reviewing>>

\* prepare-scan-completion, and complete-scan.
Seal ==
    /\ pc = "scanning" /\ sealed' = sealed \cup {scan} /\ Goto("completing")
    /\ UNCHANGED <<wf, scans, service, written, saved, source, faults, Reviewing>>

CompleteScan ==
    /\ pc = "completing" /\ scans' = [scans EXCEPT ![scan] = "complete"] /\ Goto("receipt")
    /\ UNCHANGED <<wf, sealed, service, written, saved, source, faults, Reviewing>>

SaveScan ==
    /\ pc = "receipt" /\ wf.scan = scan /\ Mark("scan", "completed") /\ Goto("idle")
    /\ UNCHANGED <<store, source, faults, Reviewing>>

----------------------------------------------------------------------------
(* publish scan --to custom: publishScanToCustomInternal.                    *)

\* bind_workflow: what is bound stays.
MayBind(s, d) == wf.scan \in {Unbound, s} /\ wf.destination \in {Unbound, d}
Bind(s, d) == wf' = [wf EXCEPT !.scan = s, !.destination = d]

\* By --workflow-id or --scan.  A publication loads the artifacts, the search for
\* duplicates asks for a scan that is complete.
PublishCommand(s, d) ==
    /\ pc = "idle" /\ ~Completed("publish") /\ (Orderly => wf.scan = Unbound \/ Completed("scan"))
    /\ s \in sealed /\ (s # wf.scan => scans[s] = "complete") /\ MayBind(s, d) /\ Bind(s, d)
    /\ pc' = "bound" /\ command' = "publish" /\ scan' = s
    /\ UNCHANGED <<store, source, faults, Reviewing>>

CompleteScanStage ==
    /\ pc = "bound" /\ Mark("scan", "completed") /\ Goto("publish")
    /\ UNCHANGED <<store, source, faults, Reviewing>>

AfterPublish == IF command = "dedupe" THEN "dedupe" ELSE "idle"

\* FindingWorkflow.run("publish").
BeginPublish ==
    /\ pc = "publish" /\ Mark("publish", "running")
    /\ Goto(IF Completed("publish") THEN AfterPublish ELSE "post")
    /\ UNCHANGED <<store, source, faults, Reviewing>>

Post ==
    /\ pc = "post" /\ service' = service \cup {<<wf.destination, scan>>} /\ Goto("posted")
    /\ UNCHANGED <<wf, scans, sealed, written, saved, source, faults, Reviewing>>

CompletePublish ==
    /\ pc = "posted" /\ Mark("publish", "completed") /\ Goto(AfterPublish)
    /\ UNCHANGED <<store, source, faults, Reviewing>>

----------------------------------------------------------------------------
(* dedupe: deduplicateScanInternal.                                          *)

DedupeCommand(s, d) ==
    /\ pc = "idle" /\ ~Completed("dedupe") /\ (Orderly => wf.scan = Unbound \/ Completed("scan"))
    /\ scans[s] = "complete" /\ s \in sealed /\ MayBind(s, d) /\ Bind(s, d)
    /\ pc' = "bound" /\ command' = "dedupe" /\ scan' = s
    /\ UNCHANGED <<store, source, faults, Reviewing>>

\* A plausible mistake: an interrupted dedupe is done again from its start.
BugHasPending == FALSE

\* Groups that were prepared are written again, not looked for again.
HasPending == wf.pending

BeginDedupe ==
    /\ pc = "dedupe" /\ Mark("dedupe", "running")
    /\ Goto(IF HasPending THEN "write" ELSE "review")
    /\ begun' = source /\ decisions' = {} /\ review' = {}
    /\ UNCHANGED <<store, source, faults>>

Undecided == {p \in FindingPair : \A d \in decisions : d.pair # p}

\* CheckpointedReviewRunner.run: a saved review of this source, or one by the model.
ReviewNext ==
    /\ pc = "review"
    /\ \E p \in Undecided :
         LET known == {r \in saved : r.pair = p /\ r.source = begun}
         IN IF known # {}
              THEN decisions' = decisions \cup known /\ Goto("review") /\ UNCHANGED review
              ELSE /\ \E same \in BOOLEAN :
                        review' = {[pair |-> p, source |-> begun, same |-> same, read |-> source]}
                   /\ Goto("check") /\ UNCHANGED decisions
    /\ UNCHANGED <<wf, store, source, faults, begun>>

\* assertSourceUnchanged.
SourceUnchanged == source = begun

SaveReview ==
    /\ pc = "check" /\ SourceUnchanged
    /\ saved' = saved \cup review /\ decisions' = decisions \cup review /\ review' = {}
    /\ Goto("review")
    /\ UNCHANGED <<wf, scans, sealed, service, written, source, faults, begun>>

PrepareDedupe ==
    /\ pc = "review" /\ Undecided = {} /\ SourceUnchanged
    /\ wf' = [wf EXCEPT !.result = {d.pair : d \in {e \in decisions : e.same}}, !.pending = TRUE]
    /\ Goto("write")
    /\ UNCHANGED <<store, source, faults, Reviewing>>

\* storeDedupeGroups, which asks for nothing when there are none.
WriteGroups ==
    /\ pc = "write" /\ Goto("written")
    /\ written' = (IF wf.result = {} THEN written ELSE written \cup {wf.result})
    /\ UNCHANGED <<wf, scans, sealed, service, saved, source, faults, Reviewing>>

CompleteDedupe ==
    /\ pc = "written" /\ Goto("idle")
    /\ wf' = [wf EXCEPT !.stage["dedupe"] = "completed", !.pending = FALSE]
    /\ UNCHANGED <<store, source, faults, Reviewing>>

----------------------------------------------------------------------------
(* What goes wrong.                                                          *)

\* The steps at which FindingWorkflow.run has a stage marked when they throw.
StepsOf == [scan |-> {"register", "scanning", "completing", "receipt"},
            publish |-> {"post", "posted"},
            dedupe |-> {"review", "check", "write", "written"}]

\* Any of them may throw; the stage that runs is then marked, if the database can be written.
Fail ==
    /\ faults < MaxFaults /\ faults' = faults + 1
    /\ \E stage \in Stage : pc \in StepsOf[stage] /\ (Mark(stage, "failed") \/ UNCHANGED wf)
    /\ scans' = (IF pc \in {"scanning", "completing"} THEN [scans EXCEPT ![scan] = "failed"] ELSE scans)
    /\ Goto("idle") /\ UNCHANGED <<sealed, service, written, saved, source, Reviewing>>

SourceDiffers ==
    /\ pc = "check" \/ (pc = "review" /\ Undecided = {})
    /\ ~SourceUnchanged /\ Mark("dedupe", "failed") /\ Goto("idle")
    /\ UNCHANGED <<store, source, faults, Reviewing>>

Die ==
    /\ pc # "idle" /\ faults < MaxFaults /\ faults' = faults + 1 /\ Goto("idle")
    /\ UNCHANGED <<wf, store, source, Reviewing>>

ChangeSource ==
    /\ source < MaxSource /\ source' = source + 1
    /\ UNCHANGED <<wf, store, faults, process>>

WorkflowStep ==
    \/ Reuse \/ BeginScan \/ RegisterScan \/ Seal \/ CompleteScan \/ SaveScan
    \/ CompleteScanStage \/ BeginPublish \/ Post \/ CompletePublish
    \/ BeginDedupe \/ ReviewNext \/ SaveReview \/ PrepareDedupe \/ WriteGroups
    \/ CompleteDedupe \/ SourceDiffers

Publishing == \E s \in Scan, d \in Destination : PublishCommand(s, d)
Deduplicating == \E s \in Scan, d \in Destination : DedupeCommand(s, d)

WorkflowNext ==
    \/ ScanCommand \/ Publishing \/ Deduplicating \/ WorkflowStep
    \/ Fail \/ Die \/ ChangeSource

\* The process goes on, and the user repeats the commands that have not completed.
DueStep == WorkflowStep \/ ScanCommand \/ Publishing \/ Deduplicating
WorkflowSpec == WorkflowInit /\ [][WorkflowNext]_workflowVars
WorkflowLiveSpec == WorkflowSpec /\ WF_workflowVars(DueStep)

----------------------------------------------------------------------------
\* The service is given the groups of one search only, however often they are written;
\* a dedupe that completed gave it those that its answer names.
GroupsAreWrittenOnce ==
    /\ Cardinality(written) <= 1
    /\ Completed("dedupe") /\ wf.result # {} => written = {wf.result}

\* Duplicates are written of findings that the same destination was given before.
StagesFollowEachOther ==
    /\ Completed("publish") => <<wf.destination, wf.scan>> \in service
    /\ written # {} => Completed("publish")
    /\ \A told \in service : told = <<wf.destination, wf.scan>>

\* No scan runs once one of the workflow has completed.
OneScanCompletes ==
    Cardinality({s \in Scan \ {1} : scans[s] = "complete"}) <= 1

\* A saved review is of the source that it is kept for, and of a pair and a source
\* there is one.
ReviewsAreOfTheirSource ==
    /\ \A r \in saved \cup decisions : r.read = r.source
    /\ \A r \in saved, q \in saved : r.pair = q.pair /\ r.source = q.source => r = q

WorkflowIsSound ==
    GroupsAreWrittenOnce /\ StagesFollowEachOther /\ OneScanCompletes /\ ReviewsAreOfTheirSource

\* A user who repeats the commands gets to the end of the workflow.
WorkflowFinishes == <>Completed("dedupe")
=============================================================================
