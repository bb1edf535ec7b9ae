--------------------------- MODULE CustomValidation ---------------------------
(***************************************************************************)
(* The caller's own validation of a scan's findings (runCustomValidation of   *)
(* custom-validation.ts, and what run() of api.ts does around it): the draft   *)
(* is captured, a thread of its own decides on every candidate, and the        *)
(* captured draft is rewritten with its decisions.  The thread works beside    *)
(* the canonical documents and may have changed them, by right or not.         *)
(*                                                                           *)
(* Abstracted: schemas, texts and evidence (an answer is valid or it is not).  *)
(***************************************************************************)
EXTENDS Naturals, FiniteSets, Sequences

CONSTANTS
    Candidate, Surface,
    MaxFailures     \* bound of the model: writes that fail

Document == <<"scan-manifest", "findings", "coverage">>
Name == {Document[i] : i \in DOMAIN Document}
Disposition == {"reportable", "suppressed", "not_applicable", "deferred"}

VARIABLES
    surfacesOf,     \* customValidationSurfaceIds of the candidates
    drafted,        \* the surfaces that the draft calls reported
    disk,           \* what every canonical document says
    results,        \* artifacts/custom-validation/results.json
    decision,       \* of every candidate, "none" before
    step, index,    \* where the validation is
    cause,          \* why it failed
    budget,         \* the cost limit still counts
    failures,       \* writes that failed
    ending

validationVars == <<surfacesOf, drafted, disk, results, decision, step, index, cause, budget,
                    failures, ending>>

Mapped == UNION {surfacesOf[c] : c \in Candidate}

ValidationTypeOK ==
    /\ surfacesOf \in [Candidate -> SUBSET Surface] /\ drafted \subseteq Surface
    /\ disk \in [Name -> {"captured", "edited", "validated"}]
    /\ results \in {"none", "incomplete", "complete"}
    /\ decision \in [Candidate -> Disposition \cup {"none"}]
    /\ step \in {"capture", "candidates", "turn", "restore", "rewrite", "results", "complete",
                 "failed", "over"}
    /\ index \in 1 .. 4 /\ cause \in {"none", "signal", "budget", "error"}
    /\ budget \in BOOLEAN /\ failures \in 0 .. MaxFailures
    /\ ending \in {"none", "sealed", "recovered", "failed"}

ValidationInit ==
    /\ surfacesOf \in [Candidate -> SUBSET Surface] /\ drafted \in SUBSET Surface
    /\ disk = [d \in Name |-> "captured"] /\ results = "none"
    /\ decision = [c \in Candidate |-> "none"]
    /\ step = "capture" /\ index = 1 /\ cause = "none" /\ budget = TRUE /\ failures = 0
    /\ ending = "none"

draft == <<surfacesOf, drafted>>
Enter(s) == step' = s /\ index' = 1
Fails(why) == Enter("failed") /\ cause' = why

\* What ends the work at an await that looks at the signal.
Cause == {"signal", "error"} \cup IF budget THEN {"budget"} ELSE {}

\* Every candidate has its surfaces, and what is reported has a candidate.
DraftIsValid == (\A c \in Candidate : surfacesOf[c] # {}) /\ drafted \subseteq Mapped

Capture ==
    /\ step = "capture"
    /\ \/ DraftIsValid /\ Enter("candidates") /\ UNCHANGED cause
       \/ ~DraftIsValid /\ Fails("error")
       \/ \E why \in Cause : Fails(why)
    /\ UNCHANGED <<draft, disk, results, decision, budget, failures, ending>>

\* The fixed candidate set; without candidates there is nothing to decide.
WriteCandidates ==
    /\ step = "candidates"
    /\ \/ Enter(IF Candidate = {} THEN "rewrite" ELSE "turn") /\ UNCHANGED cause
       \/ \E why \in Cause : Fails(why)
    /\ UNCHANGED <<draft, disk, results, decision, budget, failures, ending>>

\* The thread changes a canonical document.
Edit(d) ==
    /\ step = "turn" /\ disk' = [disk EXCEPT ![d] = "edited"]
    /\ UNCHANGED <<draft, results, decision, step, index, cause, budget, failures, ending>>

\* Its answer is complete: from here on the limit does not count.
Decide ==
    /\ step = "turn" /\ Enter("rewrite")
    /\ decision' \in [Candidate -> Disposition]
    /\ budget' = FALSE
    /\ UNCHANGED <<draft, disk, results, cause, failures, ending>>

\* Its answer is not: it stopped short, says so, or misses or repeats a candidate.
AnswerFails ==
    /\ step = "turn" /\ Enter("restore") /\ cause' \in Cause
    /\ budget' \in {budget, FALSE}
    /\ UNCHANGED <<draft, disk, results, decision, failures, ending>>

\* A plausible mistake: only findings are worth restoring.
BugRestore ==
    /\ step = "restore"
    /\ IF index > Len(Document) THEN Enter("failed") /\ UNCHANGED <<disk, failures>>
       ELSE /\ disk' = IF Document[index] = "findings"
                       THEN [disk EXCEPT !["findings"] = "captured"] ELSE disk
            /\ index' = index + 1 /\ UNCHANGED <<step, failures>>
    /\ UNCHANGED <<draft, results, decision, cause, budget, ending>>

\* The captured draft is put back, whatever the signal says.
Restore ==
    /\ step = "restore"
    /\ \/ /\ index > Len(Document) /\ Enter("failed") /\ UNCHANGED <<disk, failures>>
       \/ /\ index <= Len(Document) /\ disk' = [disk EXCEPT ![Document[index]] = "captured"]
          /\ index' = index + 1 /\ UNCHANGED <<step, failures>>
       \/ /\ index <= Len(Document) /\ failures < MaxFailures
          /\ failures' = failures + 1 /\ Enter("failed") /\ UNCHANGED disk
    /\ UNCHANGED <<draft, results, decision, cause, budget, ending>>

\* Document after document gets the decisions.
Rewrite ==
    /\ step = "rewrite"
    /\ \/ /\ index > Len(Document) /\ Enter("results") /\ UNCHANGED <<disk, cause>>
       \/ /\ index <= Len(Document) /\ disk' = [disk EXCEPT ![Document[index]] = "validated"]
          /\ index' = index + 1 /\ UNCHANGED <<step, cause>>
       \/ /\ index <= Len(Document) /\ UNCHANGED disk /\ \E why \in Cause : Fails(why)
    /\ UNCHANGED <<draft, results, decision, budget, failures, ending>>

WriteResults ==
    /\ step = "results"
    /\ \/ results' = "complete" /\ Enter("complete") /\ UNCHANGED cause
       \/ UNCHANGED results /\ \E why \in Cause : Fails(why)
    /\ UNCHANGED <<draft, disk, decision, budget, failures, ending>>

\* The scan goes on to be sealed, unless it is aborted.
SealValidated ==
    /\ step = "complete"
    /\ \/ step' = "over" /\ ending' = "sealed" /\ UNCHANGED cause
       \/ step' = "over" /\ ending' = "failed" /\ cause' = "signal"
    /\ UNCHANGED <<draft, disk, results, decision, index, budget, failures>>

\* A scan that ran out of budget is completed with what its draft says; if that cannot be
\* done, and for any other cause, it fails, and its results say so if they can be written.
Conclude ==
    /\ step = "failed" /\ step' = "over"
    /\ \/ cause = "budget" /\ ending' = "recovered" /\ UNCHANGED results
       \/ ending' = "failed" /\ results' \in {"incomplete", results}
    /\ UNCHANGED <<draft, disk, decision, index, cause, budget, failures>>

ValidationNext ==
    \/ Capture \/ WriteCandidates \/ \E d \in Name : Edit(d)
    \/ Decide \/ AnswerFails \/ Restore \/ Rewrite \/ WriteResults \/ SealValidated \/ Conclude

ValidationSpec == ValidationInit /\ [][ValidationNext]_validationVars

-----------------------------------------------------------------------------
(* The validated draft. *)
Reported == {c \in Candidate : decision[c] = "reportable"}
DispositionOf(s) ==
    LET values == {decision[c] : c \in {d \in Candidate : s \in surfacesOf[d]}} IN
    IF values = {} THEN IF s \in drafted THEN "reported" ELSE "no_issue_found"
    ELSE IF "reportable" \in values THEN "reported"
    ELSE IF "deferred" \in values THEN "needs_follow_up"
    ELSE IF "suppressed" \in values THEN "rejected"
    ELSE "not_applicable"

\* What is sealed is the draft with the decisions of the caller's workflow, never what the
\* thread left in the documents: a surface is reported if and only if a finding of it is,
\* and what was put off needs a follow-up.
SealedIsValidated ==
    ending = "sealed" =>
        /\ \A d \in Name : disk[d] = "validated"
        /\ results = "complete"
        /\ \A s \in Surface :
              /\ DispositionOf(s) = "reported" <=> \E c \in Reported : s \in surfacesOf[c]
              /\ (\E c \in Candidate : s \in surfacesOf[c] /\ decision[c] = "deferred") =>
                    DispositionOf(s) \in {"needs_follow_up", "reported"}

\* A scan that ran out of budget is completed with its captured draft alone, unless the
\* disk failed as well.
RecoveredIsDraft ==
    ending = "recovered" /\ failures = 0 /\ Candidate # {} => \A d \in Name : disk[d] = "captured"

\* No scan ends with results that call an unfinished validation complete.
ResultsAreTrue ==
    results = "complete" => \A d \in Name : disk[d] = "validated"

ValidationIsSound == SealedIsValidated /\ RecoveredIsDraft /\ ResultsAreTrue
=============================================================================
