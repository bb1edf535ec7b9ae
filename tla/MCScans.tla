------------------------------- MODULE MCScans -------------------------------
(* Instances for TLC of the parts that one scan or its caller uses: ScanCost,  *)
(* CustomValidation, ComponentScan, FindingComparison and FindingHistory.  They *)
(* are looked at one at a time.                                               *)
EXTENDS Naturals, Sequences

VARIABLES
    instance,
    origin, text, spent, base, sessions, reported, snapshot, best, delivered, timer, polling,
    rerun, queue, at, unread, stage, erred, due,
    surfacesOf, drafted, disk, results, decision, step, index, cause, budget, failures, ending,
    status, found, upcoming, workerAt, canceled, scanPhase, remaining, previous, groups,
    matching, error, files, compared,
    known, todo, comparisons, verdict,
    completed, saved, client, plan, newly, saving, runs, promised

-----------------------------------------------------------------------------
\* The scan comes first, last or between the others, as their files are read.
By(kind, parent) == [kind |-> kind, parent |-> parent]
Pairs == {<<By("scan", 0), By("fork", 1)>>, <<By("scan", 0), By("turn", 0)>>}
Strangers == {<<By("scan", 0), By("stale", 0), By("child", 2)>>}
Workers == {<<By("worker", 0), By("scan", 0)>>}

Costs == INSTANCE ScanCost WITH
    Threads <- 2, Families <- Pairs, MaxSpent <- 1, Marker <- {}, MaxMarkers <- 0,
    MaxFailures <- 1, FilesTotal <- 1

Forest == INSTANCE ScanCost WITH
    Threads <- 3, Families <- Strangers, MaxSpent <- 1, Marker <- {}, MaxMarkers <- 0,
    MaxFailures <- 0, FilesTotal <- 1

\* The scan's own thread writes one marker at most.
Progress == INSTANCE ScanCost WITH
    Threads <- 2, Families <- Workers, MaxSpent <- 0, Marker <- {<<1, 1>>, <<1, 2>>},
    MaxMarkers <- 2, MaxFailures <- 0, FilesTotal <- 1

Validation == INSTANCE CustomValidation WITH
    Candidate <- 1 .. 2, Surface <- 1 .. 2, MaxFailures <- 1

NoCandidates == INSTANCE CustomValidation WITH
    Candidate <- {}, Surface <- 1 .. 2, MaxFailures <- 0

\* Occurrences are findings of their own, or those of two scans share an identity.
Distinct == <<1, 2, 3, 4>>

ComponentsOf3 == INSTANCE ComponentScan WITH
    Components <- 3, Pool <- {1, 2}, Holds <- <<{1}, {2}, {4}>>, Severity <- <<2, 1, 3, 1>>,
    Identity <- Distinct

Batches == INSTANCE FindingComparison WITH
    Before <- {1, 2}, After <- {3, 4}, KnownGroups <- {{}, {{1, 2}}, {{1, 4}}},
    Historical <- TRUE, Identity <- Distinct

SameBatches == INSTANCE FindingComparison WITH
    Before <- {1, 2}, After <- {3, 4}, KnownGroups <- {{}, {{1, 2}}},
    Historical <- FALSE, Identity <- <<1, 2, 1, 4>>

\* A finding of the first scan comes back in the second, or only in the third.
Soon == INSTANCE FindingHistory WITH
    Scans <- 3, Found <- <<{1, 2}, {3}, {4}>>, MaxRuns <- 2, Identity <- <<1, 2, 1, 3>>

Later == INSTANCE FindingHistory WITH
    Scans <- 3, Found <- <<{1, 2}, {3}, {4}>>, MaxRuns <- 1, Identity <- <<1, 2, 3, 1>>

-----------------------------------------------------------------------------
costVars == <<origin, text, spent, base, sessions, reported, snapshot, best, delivered,
              timer, polling, rerun, queue, at, unread, stage, erred, due>>
validationVars == <<surfacesOf, drafted, disk, results, decision, step, index, cause, budget,
                    failures, ending>>
componentVars == <<status, found, upcoming, workerAt, canceled, scanPhase, remaining, previous,
                   groups, matching, error, files, compared>>
comparisonVars == <<known, todo, comparisons, verdict>>
historyVars == <<completed, saved, client, plan, newly, saving, runs, promised>>
scanVars == <<costVars, validationVars, componentVars, comparisonVars, historyVars>>

ScanInstance == {"cost", "forest", "progress", "validation", "none", "components", "batches",
                 "same", "soon", "later"}

\* The part that an instance is not about does not move from one initial state.
NoCost == Progress!CostInit
NoValidation == NoCandidates!ValidationInit /\ drafted = {}
NoComponents == ComponentsOf3!ComponentInit
NoComparison == Batches!ComparisonInit /\ known = {}
NoHistory == Soon!HistoryInit
NoPairs == NoComparison /\ NoHistory
NoScan == NoCost /\ NoValidation /\ NoComponents /\ NoPairs

OfCost(Init) == Init /\ NoValidation /\ NoComponents /\ NoPairs
OfValidation(Init) == NoCost /\ Init /\ NoComponents /\ NoPairs
OfComparison(Init) == NoCost /\ NoValidation /\ NoComponents /\ Init /\ NoHistory

ScanInit ==
    CASE instance = "cost" -> OfCost(Costs!CostInit)
      [] instance = "forest" -> OfCost(Forest!CostInit)
      [] instance = "progress" -> OfCost(Progress!CostInit)
      [] instance = "validation" -> OfValidation(Validation!ValidationInit)
      [] instance = "none" -> OfValidation(NoCandidates!ValidationInit)
      [] instance = "same" -> OfComparison(SameBatches!ComparisonInit)
      [] instance = "batches" -> OfComparison(Batches!ComparisonInit)
      [] instance \in {"components", "soon", "later"} -> NoScan

OnCost(A) ==
    /\ A
    /\ UNCHANGED <<instance, validationVars, componentVars, comparisonVars, historyVars>>
OnValidation(A) ==
    A /\ UNCHANGED <<instance, costVars, componentVars, comparisonVars, historyVars>>
OnComponents(A) ==
    A /\ UNCHANGED <<instance, costVars, validationVars, comparisonVars, historyVars>>
OnComparison(A) ==
    A /\ UNCHANGED <<instance, costVars, validationVars, componentVars, historyVars>>
OnHistory(A) ==
    A /\ UNCHANGED <<instance, costVars, validationVars, componentVars, comparisonVars>>

ScanNext ==
    \/ instance = "cost" /\ OnCost(Costs!CostNext)
    \/ instance = "forest" /\ OnCost(Forest!CostNext)
    \/ instance = "progress" /\ OnCost(Progress!CostNext) /\ Progress!Markers(2)' <= 1
    \/ instance = "validation" /\ OnValidation(Validation!ValidationNext)
    \/ instance = "none" /\ OnValidation(NoCandidates!ValidationNext)
    \/ instance = "components" /\ OnComponents(ComponentsOf3!ComponentNext)
    \/ instance = "batches" /\ OnComparison(Batches!ComparisonNext)
    \/ instance = "same" /\ OnComparison(SameBatches!ComparisonNext)
    \/ instance = "soon" /\ OnHistory(Soon!HistoryNext)
    \/ instance = "later" /\ OnHistory(Later!HistoryNext)

-----------------------------------------------------------------------------
\* Every part keeps to the values it declares.
ScanTypeOK ==
    CASE instance = "cost" -> Costs!CostTypeOK
      [] instance = "forest" -> Forest!CostTypeOK
      [] instance = "progress" -> Progress!CostTypeOK
      [] instance = "validation" -> Validation!ValidationTypeOK
      [] instance = "none" -> NoCandidates!ValidationTypeOK
      [] instance = "components" -> ComponentsOf3!ComponentTypeOK
      [] instance = "batches" -> Batches!ComparisonTypeOK
      [] instance = "same" -> SameBatches!ComparisonTypeOK
      [] instance = "soon" -> Soon!HistoryTypeOK
      [] instance = "later" -> Later!HistoryTypeOK
      [] OTHER -> TRUE

\* The cost, the events and the progress of a scan are those of its own threads, each
\* counted once, whatever the order in which their files appear, grow and are read.
CostIsAccounted ==
    CASE instance = "cost" -> Costs!CostIsAccounted
      [] instance = "forest" -> Forest!CostIsAccounted
      [] instance = "progress" -> Progress!CostIsAccounted
      [] OTHER -> TRUE

\* What is sealed is the caller's validation of the captured draft, what is recovered the
\* draft itself, and never what a thread left in the documents.
ValidationIsSound ==
    CASE instance = "validation" -> Validation!ValidationIsSound
      [] instance = "none" -> NoCandidates!ValidationIsSound
      [] OTHER -> TRUE

\* Components are scanned once, and all that they found is compared and grouped, or the
\* report says that it is not.
ComponentsAreSound == instance = "components" => ComponentsOf3!ComponentsAreSound

\* A comparison in batches compares every pair and combines what the batches said; and
\* what clients save is accepted, complete, and keeps to what was confirmed before.
MatchingIsSound ==
    CASE instance = "batches" -> Batches!ComparisonIsSound
      [] instance = "same" -> SameBatches!ComparisonIsSound
      [] instance = "soon" -> Soon!HistoryIsSound
      [] instance = "later" -> Later!HistoryIsSound
      [] OTHER -> TRUE
=============================================================================
