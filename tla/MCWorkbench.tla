----------------------------- MODULE MCWorkbench -----------------------------
(* Instances for TLC of parts of the workbench and of its agents' tools that  *)
(* share no rows or files, checked in one run: one of them moves, the others  *)
(* stay where they began.                                                     *)
EXTENDS FindingRemediation, MCSchemaLines

CONSTANTS Author, Candidate, Worker, Identity, Text, Surface, Deferral

VARIABLES
    instance,
    documents, canon, files, head, archived, calls,        \* ScanDrafts
    stopped, drafts, crashes, torn, reported, lastFinal,
    results, claimed, recorded, previous, consumed, newFindings,    \* DeepReduction
    settles, settled, stoodFor,
    origin, database, transaction, upto, openings, answer           \* SchemaMigrations

remediationVars == <<triage, attempts, canceledIds, checkout, inFlight>>
draftVars == <<documents, canon, files, head, archived, calls,
               stopped, drafts, crashes, torn, reported, lastFinal>>
reductionVars == <<results, claimed, recorded, previous, consumed, newFindings,
                   settles, settled, stoodFor>>
schemaVars == <<origin, database, transaction, upto, openings, answer>>
mcVars == <<instance, remediationVars, draftVars, reductionVars, schemaVars>>

\* "attempts": one command at a time, up to verification, with the constants of the
\* configuration; "edits": the same with edits of the user, up to the patch that is
\* applied; "races": two commands at once.
Edits == INSTANCE FindingRemediation WITH MaxEdits <- 1, MaxVersion <- 4, MaxInFlight <- 1
Races == INSTANCE FindingRemediation WITH MaxEdits <- 0, MaxVersion <- 3, MaxInFlight <- 2

\* "drafts": two authors of one scan; "worker": one worker, tried again.
InputWith(follow) ==
    UNION {{[complete |-> c, found |-> f, deferred |-> d, rejected |-> r, kept |-> {}, follow |-> u] :
               c \in BOOLEAN, u \in follow} :
           <<f, d, r>> \in {q \in (SUBSET Candidate) \X (SUBSET Candidate) \X (SUBSET Candidate) :
                               q[1] \cap q[2] = {} /\ q[1] \cap q[3] = {} /\ q[2] \cap q[3] = {}}}
Drafts == INSTANCE ScanDrafts WITH
    Layout <- "scan", Input <- InputWith({"absent"}), MaxDrafts <- 3, MaxCrashes <- 1
WorkerDrafts == INSTANCE ScanDrafts WITH
    Author <- {CHOOSE a \in Author : TRUE}, Layout <- "worker", Input <- InputWith({"absent", "open", "settled"}), MaxDrafts <- 3, MaxCrashes <- 1

\* "reduction": two workers that report nothing, one finding or two, the second of the
\* first identity; coverage that is not complete comes with the first finding, and the
\* second identity with the first text.  Only one of the workers reports two.
\* "coverage": two workers without findings and with any coverage.
i1 == CHOOSE i \in Identity : TRUE
t1 == CHOOSE t \in Text : TRUE
Complete == [completeness |-> "complete", surfaces |-> <<>>, deferred |-> {}]
WorkerFinding(i, t) == [identity |-> i, text |-> t]
Reported ==
    {[findings |-> fs, coverage |-> Complete] :
        fs \in {<<>>} \cup {<<WorkerFinding(i1, t)>> : t \in Text}
               \cup {<<WorkerFinding(i, t1)>> : i \in Identity}
               \cup {<<WorkerFinding(i1, t1), WorkerFinding(i1, t)>> : t \in Text \ {t1}}}
Reduction == INSTANCE DeepReduction WITH
    Surface <- {}, Deferral <- {}, MaxFindings <- 2
Coverage == INSTANCE DeepReduction WITH
    Reported <- [findings : {<<>>},
                 coverage : [completeness : {"complete", "partial", "unknown"},
                             surfaces : [Surface -> {"absent", "open", "settled"}],
                             deferred : SUBSET Deferral]],
    MaxFindings <- 0
\* "schema": every line, opened twice; elsewhere there is nothing to open.
Schema == INSTANCE SchemaMigrations WITH Migrating <- Migrations, Line <- Lines, MaxOpenings <- 2
NoDatabase ==
    /\ origin = [never |-> {}, supported |-> TRUE] /\ database = Schema!Empty
    /\ transaction = Schema!Idle /\ upto = 0 /\ openings = 0 /\ answer = "none"

Symmetry == Permutations(Request) \cup Permutations(ActionToken)

MCInit ==
    /\ instance \in {"attempts", "edits", "races", "drafts", "worker", "reduction", "coverage",
                    "schema"}
    /\ RemediationInit /\ Drafts!DraftsInit
    /\ IF instance = "coverage" THEN Coverage!ReductionInit ELSE Reduction!ReductionInit
    /\ IF instance = "schema" THEN Schema!SchemaInit ELSE NoDatabase
    /\ \E w \in Worker : Len(results[w].findings) <= 1
    /\ instance \notin {"reduction", "coverage"} =>
          \A w \in Worker : results[w] = [findings |-> <<>>, coverage |-> Complete]

OnRemediation(A) == A /\ UNCHANGED <<instance, draftVars, reductionVars, schemaVars>>
OnDrafts(A) == A /\ UNCHANGED <<instance, remediationVars, reductionVars, schemaVars>>
OnReduction(A) == A /\ UNCHANGED <<instance, remediationVars, draftVars, schemaVars>>
OnSchema(A) == A /\ UNCHANGED <<instance, remediationVars, draftVars, reductionVars>>

MCNext ==
    \/ instance = "attempts" /\ OnRemediation(RemediationNext)
    \/ instance = "edits" /\ OnRemediation(Edits!RemediationNext)
    \/ instance = "races" /\ OnRemediation(Races!RemediationNext)
    \/ instance = "drafts" /\ OnDrafts(Drafts!DraftsNext)
    \/ instance = "worker" /\ OnDrafts(WorkerDrafts!DraftsNext)
    \/ instance = "reduction" /\ OnReduction(Reduction!ReductionNext)
    \/ instance = "coverage" /\ OnReduction(Coverage!ReductionNext)
    \/ instance = "schema" /\ OnSchema(Schema!SchemaNext)

MCSpec == MCInit /\ [][MCNext]_mcVars

\* Every part keeps to the values it declares.
WorkbenchTypeOK ==
    CASE instance = "attempts" -> RemediationTypeOK
      [] instance = "edits" -> Edits!RemediationTypeOK
      [] instance = "races" -> Races!RemediationTypeOK
      [] instance = "drafts" -> Drafts!DraftsTypeOK
      [] instance = "worker" -> WorkerDrafts!DraftsTypeOK
      [] instance = "reduction" -> Reduction!ReductionTypeOK
      [] instance = "coverage" -> Coverage!ReductionTypeOK
      [] instance = "schema" -> Schema!SchemaTypeOK

\* Drafts recorded over one another neither drop nor overrule what was accepted, the
\* aggregate of a Deep Scan accounts for what all of its workers reported, and every
\* release's database is carried over whole, its rows moved once; every part keeps to the
\* values it declares.
ResultsAreKept ==
    /\ WorkbenchTypeOK
    /\ CASE instance = "drafts" -> Drafts!DraftsAreSound
         [] instance = "worker" -> WorkerDrafts!DraftsAreSound
         [] instance = "reduction" -> Reduction!ReductionsAreSound
         [] instance = "coverage" -> Coverage!ReductionsAreSound
         [] instance = "schema" -> Schema!SchemaIsSound
         [] OTHER -> TRUE

\* A finding that the coordinator accepted into the aggregate stays in it.
FindingsPersist == Reduction!FindingsPersist
=============================================================================
