----------------------------- MODULE DeepReduction -----------------------------
(***************************************************************************)
(* Reducing the results of Deep Scan workers to one aggregate                *)
(* (artifact-deep-reducer.ts, artifact-validation.ts).                       *)
(*                                                                           *)
(* A reducer is assigned the results of some workers and the aggregate that   *)
(* was accepted before.  Its agent submits findings that name the findings    *)
(* of the workers they come from, or leave them to be matched by identity;    *)
(* the tool reconciles and records, and the coordinator reconciles the        *)
(* recorded file again before it accepts it.  What agents submit is not       *)
(* restrained: most of it is refused.                                        *)
(*                                                                           *)
(* Details of findings, threat models and scopes are left out.  Of the        *)
(* coverage there is its completeness, the surfaces and what was deferred; a   *)
(* result names a surface once.                                              *)
(***************************************************************************)
EXTENDS Naturals, Sequences, FiniteSets, SequencesExt

CONSTANTS
    Worker,
    Identity,       \* scanFindingIdentity
    Text,           \* what tells findings of one identity apart
    Surface,        \* coverageEntryIdentities: of surfaces
    Deferral,       \* and of deferred work
    None,
    Reported,       \* the results a worker may report
    MaxFindings     \* bound of the model: findings of one submission

VARIABLES
    results,        \* the accepted result of each worker
    claimed,        \* the workers assigned to the active reducer, in order
    recorded,       \* result.json of the active reducer, None
    previous,       \* the aggregate accepted last, None
    consumed,       \* the workers whose results it stands for
    newFindings,    \* the number the last acceptance reported
    settles,        \* history: the surfaces that the reducer settled in what is recorded
    settled,        \* history: those that accepted reducers settled
    stoodFor        \* history: the workers of an aggregate that had work outstanding

historyVars == <<settles, settled, stoodFor>>
vars == <<results, claimed, recorded, previous, consumed, newFindings, historyVars>>

WorkerFinding == [identity : Identity, text : Text]
Source == [worker : Worker, index : 1 .. 2]     \* `${workerId}:${index}`
Finding == [identity : Identity, refs : SUBSET Source]
Covered == [completeness : {"complete", "partial", "unknown"},
            surfaces : [Surface -> {"absent", "open", "settled"}],  \* open: needs_follow_up
            deferred : SUBSET Deferral]

\* coverageHasOutstandingWork
Outstanding(c) == c.deferred # {} \/ \E s \in Surface : c.surfaces[s] = "open"

\* validateCoverageSemantics
Coverage == {c \in Covered : c.completeness = "complete" => ~Outstanding(c)}

Result == [findings : Seq(WorkerFinding), coverage : Coverage]

ReductionTypeOK ==
    /\ \A w \in Worker : results[w] \in Reported \cap Result
    /\ claimed \in Seq(Worker) /\ consumed \subseteq Worker
    /\ \A r \in {recorded, previous} \ {None} : r.findings \in Seq(Finding) /\ r.coverage \in Coverage
    /\ newFindings \in 0 .. MaxFindings
    /\ settles \subseteq Surface /\ settled \subseteq Surface /\ stoodFor \subseteq consumed

ReductionInit ==
    /\ results \in [Worker -> {r \in Reported : r.coverage \in Coverage}]
    /\ claimed = <<>> /\ consumed = {}
    /\ recorded = None /\ previous = None /\ newFindings = 0
    /\ settles = {} /\ settled = {} /\ stoodFor = {}

-----------------------------------------------------------------------------
Aggregated == IF previous = None THEN <<>> ELSE previous.findings
Refs(fs) == UNION {fs[i].refs : i \in DOMAIN fs}
Identities(fs) == {fs[i].identity : i \in DOMAIN fs}

\* The sources a reduction has to account for: what the workers of the batch reported,
\* and the originals behind the previous aggregate.
SourcesOf(ws) == {[worker |-> w, index |-> i] : w \in ws, i \in 1 .. 2} \cap
                 UNION {{[worker |-> w, index |-> i] : i \in DOMAIN results[w].findings} : w \in ws}
Assigned == SourcesOf(ToSet(claimed)) \cup Refs(Aggregated)
\* Other references are unknown and refuse the submission.
Submitted == [identity : Identity, refs : SUBSET Assigned \cup {None}]
Original(s) == results[s.worker].findings[s.index]

\* A finding without references claims the sources of its identity, if they all say
\* the same.
Matches(f) == {s \in Assigned : Original(s).identity = f.identity}
Ambiguous(f) == f.refs = None /\ Cardinality({Original(s) : s \in Matches(f)}) > 1
Explicit(f) == IF f.refs = None THEN [f EXCEPT !.refs = Matches(f)] ELSE f

\* retainSourceFindings
ClaimedOnce(fs) ==
    /\ \A i \in DOMAIN fs : fs[i].refs # {} /\ fs[i].refs \subseteq Assigned
    /\ \A i, j \in DOMAIN fs : i # j => fs[i].refs \cap fs[j].refs = {}
    /\ Refs(fs) = Assigned

\* validateRetainedFindings
Retained(fs) ==
    /\ fs = <<>> => Aggregated = <<>> /\ \A i \in DOMAIN claimed : results[claimed[i]].findings = <<>>
    /\ Identities(Aggregated) \subseteq Identities(fs)

\* A previous finding goes on in the first finding that has a source of it, and that one
\* takes over all its sources (preserveFindingDetails).
Heir(fs, p) ==
    CHOOSE i \in DOMAIN fs : /\ fs[i].refs \cap p.refs # {}
                             /\ \A j \in 1 .. i - 1 : fs[j].refs \cap p.refs = {}

\* A plausible mistake: the sources of a previous finding may be parted.
BugInherit(fs, p) == fs

Inherit(fs, p) == [fs EXCEPT ![Heir(fs, p)].refs = @ \cup p.refs]

\* preserveScanCoverage.  What the reducer says of a surface stands; of what it leaves out,
\* the first source that names it is kept.
WithSource(c, source) ==
    [c EXCEPT !.deferred = @ \cup source.deferred,
              !.surfaces = [s \in Surface |-> IF @[s] = "absent" THEN source.surfaces[s] ELSE @[s]]]

\* A plausible mistake: what the reducer leaves out of its coverage is gone.
BugCombined(coverage) == coverage

Combined(coverage) ==
    LET sources == [i \in DOMAIN claimed |-> results[claimed[i]].coverage]
                   \o (IF previous = None THEN <<>> ELSE <<previous.coverage>>)
        merged == FoldLeft(WithSource, coverage, sources)
        unfinished == {i \in DOMAIN sources :
                         sources[i].completeness = "partial" /\ ~Outstanding(sources[i])}
    IN [merged EXCEPT !.completeness =
            IF Outstanding(merged) \/ unfinished # {} THEN "partial"
            ELSE IF \E i \in DOMAIN sources : sources[i].completeness = "unknown" THEN "unknown"
            ELSE @]

\* reconcileDeepReduction: the reconciled result, or None.
Reconciled(submitted, coverage) ==
    LET fs == [i \in DOMAIN submitted |-> Explicit(submitted[i])]
        heirs == FoldLeft(Inherit, fs, Aggregated)
    IN IF /\ Retained(submitted)
          /\ \A i \in DOMAIN submitted : ~Ambiguous(submitted[i])
          /\ ClaimedOnce(fs) /\ ClaimedOnce(heirs)
       THEN [findings |-> heirs, coverage |-> Combined(coverage)]
       ELSE None

-----------------------------------------------------------------------------
\* The coordinator assigns a batch of results, in the order in which they were accepted.
Batches == {ws \in SeqOf(Worker, Cardinality(Worker)) : ws # <<>> /\ IsInjective(ws)}

Claim(ws) ==
    /\ claimed = <<>> /\ ToSet(ws) \cap consumed = {}
    /\ claimed' = ws /\ recorded' = None
    /\ UNCHANGED <<results, previous, consumed, newFindings, historyVars>>

\* recordCodexSecurityDeepReduction.  To record again is to discard and record.
Record(submitted, coverage) ==
    /\ claimed # <<>> /\ recorded = None
    /\ recorded' = Reconciled(submitted, coverage) /\ recorded' # None
    /\ settles' = {s \in Surface : coverage.surfaces[s] = "settled"}
    /\ UNCHANGED <<results, claimed, previous, consumed, newFindings, settled, stoodFor>>

\* The attempt fails, and the next one begins with an empty directory; or the agent
\* records again.
Discard ==
    /\ claimed # <<>> /\ recorded # None /\ recorded' = None /\ settles' = {}
    /\ UNCHANGED <<results, claimed, previous, consumed, newFindings, settled, stoodFor>>

\* validateReducerArtifacts
Accept ==
    /\ claimed # <<>> /\ recorded # None
    /\ consumed' = consumed \cup ToSet(claimed)
    /\ LET result == Reconciled(recorded.findings, recorded.coverage) IN
          /\ result # None
          /\ previous' = result
          /\ newFindings' = Cardinality({i \in DOMAIN result.findings :
                               result.findings[i].identity \notin Identities(Aggregated)})
          /\ stoodFor' = IF Outstanding(result.coverage) THEN consumed' ELSE stoodFor
    /\ claimed' = <<>> /\ recorded' = None /\ UNCHANGED results
    /\ settled' = settled \cup settles /\ settles' = {}

ReductionNext ==
    \/ \E ws \in Batches : Claim(ws)
    \/ \E fs \in SeqOf(Submitted, MaxFindings), c \in Coverage : Record(fs, c)
    \/ Discard \/ Accept

ReductionSpec == ReductionInit /\ [][ReductionNext]_vars

-----------------------------------------------------------------------------
(* What must hold. *)

\* Batch after batch, each finding any consumed worker reported belongs to exactly one
\* finding of the aggregate.
SourcesArePartitioned ==
    previous # None =>
        /\ Refs(previous.findings) = SourcesOf(consumed)
        /\ \A i, j \in DOMAIN previous.findings :
              i # j => previous.findings[i].refs \cap previous.findings[j].refs = {}

\* Reducers cannot resolve review by leaving it out: the work that any worker deferred is
\* still deferred, and a surface that a worker left for follow-up is still open, unless
\* another worker or a reducer settled that surface.
ReviewIsNotDropped ==
    previous # None => \A w \in consumed :
        /\ results[w].coverage.deferred \subseteq previous.coverage.deferred
        /\ \A s \in Surface \ settled :
              results[w].coverage.surfaces[s] = "open" =>
                  \/ previous.coverage.surfaces[s] = "open"
                  \/ \E v \in consumed : results[v].coverage.surfaces[s] = "settled"

\* The aggregate calls the review complete only when every worker did, or said what was
\* left, or was once part of an aggregate with work outstanding: that work stands for all
\* that was incomplete, and when it is done the rest is forgotten.
CompletenessIsHonest ==
    previous # None /\ previous.coverage.completeness = "complete" =>
        \A w \in consumed \ stoodFor :
            \/ results[w].coverage.completeness = "complete"
            \/ results[w].coverage.completeness = "partial" /\ Outstanding(results[w].coverage)

CoverageIsHonest == ReviewIsNotDropped /\ CompletenessIsHonest

\* What the tool recorded, the coordinator accepts as it is.
RecordedIsAccepted ==
    recorded # None => Reconciled(recorded.findings, recorded.coverage) = recorded

\* What the aggregate says accounts for all workers.
ReductionsAreSound == SourcesArePartitioned /\ CoverageIsHonest /\ RecordedIsAccepted

\* An accepted finding keeps its identity and its sources are never parted; a
\* reduction that found nothing new left the identities as they were.
FindingsPersist ==
    [][previous # None =>
          /\ \A i \in DOMAIN previous.findings : \E j \in DOMAIN previous'.findings :
                previous.findings[i].refs \subseteq previous'.findings[j].refs
          /\ Identities(previous.findings) \subseteq Identities(previous'.findings)]_vars
=============================================================================
