---------------------------- MODULE ComponentScan ----------------------------
(***************************************************************************)
(* A scan in components (runComponentScans of component-scan.ts): workers     *)
(* scan the components one by one, and what they found is compared component   *)
(* by component and put into groups.  The caller may abort at any time, and     *)
(* scans, clients, comparisons and writes may fail.                            *)
(*                                                                           *)
(* Abstracted: the plan, which is written before the first scan; the events    *)
(* for observers; a comparison in batches (FindingComparison).                 *)
(***************************************************************************)
EXTENDS FindingGroups, Sequences
LOCAL INSTANCE SequencesExt
LOCAL INSTANCE FiniteSetsExt

CONSTANTS
    Components,     \* number of components
    Pool,           \* the workers
    Holds,          \* occurrences that a component may be found to have
    Severity        \* of an occurrence: the lower the stronger

Component == 1 .. Components
Report == <<"retry", "findings", "summary", "report">>

VARIABLES
    status,         \* of the receipts
    found,          \* results
    upcoming,       \* the next receipt to take
    workerAt,       \* what each worker does: a component, 0 between two, or how it ended
    canceled,       \* options.signal
    scanPhase,      \* "scans", "matching", "writing", or what the caller is told
    remaining,      \* components that are still to be compared
    previous,       \* findings that have been
    groups,         \* findings: sources, and the severity of the finding that stands for them
    matching,       \* what comparisons said
    error,          \* of the matching
    files,          \* written
    compared        \* history: pairs of findings that were compared

componentVars == <<status, found, upcoming, workerAt, canceled, scanPhase, remaining, previous, groups,
                   matching, error, files, compared>>

Final == {"completed", "incomplete", "failed"}
Ended == {"returned", "canceled", "threw"}
Left == {0 - 1, 0 - 2}      \* closed, and failed

ComponentTypeOK ==
    /\ status \in [Component -> Final \cup {"pending", "started"}]
    /\ \A c \in Component : found[c] \subseteq Holds[c]
    /\ upcoming \in 1 .. Components + 1 + Cardinality(Pool)
    /\ workerAt \in [Pool -> Component \cup {0} \cup Left]
    /\ {canceled, error} \subseteq BOOLEAN
    /\ scanPhase \in {"scans", "matching", "writing"} \cup Ended
    /\ Range(remaining) \subseteq Component /\ previous \subseteq Occurrence
    /\ \A g \in groups : g.sources \subseteq Occurrence
    /\ files \subseteq Range(Report)

ComponentInit ==
    /\ status = [c \in Component |-> "pending"] /\ found = [c \in Component |-> {}]
    /\ upcoming = 1 /\ workerAt = [w \in Pool |-> 0] /\ canceled = FALSE /\ scanPhase = "scans"
    /\ remaining = <<>> /\ previous = {} /\ groups = {} /\ matching = Nothing
    /\ error = FALSE /\ files = {} /\ compared = {}

results == <<remaining, previous, groups, matching, error, files, compared>>

Abort ==
    /\ scanPhase \notin Ended /\ ~canceled /\ canceled' = TRUE
    /\ UNCHANGED <<status, found, upcoming, workerAt, scanPhase, results>>

-----------------------------------------------------------------------------
(* The pool. *)
Take(w) ==
    /\ scanPhase = "scans" /\ workerAt[w] = 0 /\ ~canceled /\ upcoming <= Components
    /\ upcoming' = upcoming + 1
    /\ workerAt' = [workerAt EXCEPT ![w] = upcoming]
    /\ status' = [status EXCEPT ![upcoming] = "started"]
    /\ UNCHANGED <<found, canceled, scanPhase, results>>

\* security.run: with complete coverage or without, or an error.
ScanEnds(w) ==
    /\ workerAt[w] \in Component
    /\ \E outcome \in Final, occurrences \in SUBSET Holds[workerAt[w]] :
          /\ outcome = "failed" => occurrences = {}
          /\ status' = [status EXCEPT ![workerAt[w]] = outcome]
          /\ found' = [found EXCEPT ![workerAt[w]] = occurrences]
    /\ workerAt' = [workerAt EXCEPT ![w] = 0]
    /\ UNCHANGED <<upcoming, canceled, scanPhase, results>>

\* No receipt is left, or the signal is up; the client may fail to close, or to begin with.
Leave(w) ==
    /\ scanPhase = "scans" /\ workerAt[w] = 0
    /\ \/ /\ canceled \/ upcoming > Components
          /\ \E end \in Left : workerAt' = [workerAt EXCEPT ![w] = end]
       \/ workerAt' = [workerAt EXCEPT ![w] = 0 - 2]
    /\ UNCHANGED <<status, found, upcoming, canceled, scanPhase, results>>

\* All workers are gone. What was not scanned has failed; each finding is a group.
Settle ==
    /\ scanPhase = "scans" /\ \A w \in Pool : workerAt[w] \in Left
    /\ status' = [c \in Component |-> IF status[c] \in Final THEN status[c] ELSE "failed"]
    /\ groups' = {[sources |-> {o}, severity |-> Severity[o]] : o \in UNION Range(found)}
    /\ LET scans == SelectSeq([c \in Component |-> c], LAMBDA c : found[c] # {}) IN
       IF scans = <<>> THEN UNCHANGED <<remaining, previous>>
       ELSE remaining' = Tail(scans) /\ previous' = found[Head(scans)]
    /\ error' = canceled
    /\ scanPhase' = IF canceled THEN "writing" ELSE "matching"
    /\ UNCHANGED <<found, upcoming, workerAt, canceled, matching, files, compared>>

-----------------------------------------------------------------------------
(* deduplicateFindings *)

\* A plausible mistake: the first finding stands for the group, however severe the others.
BugMerged(selected) ==
    [sources |-> UNION {g.sources : g \in selected},
     severity |-> (CHOOSE g \in selected : Min(g.sources) =
                        Min(UNION {h.sources : h \in selected})).severity]

Merged(selected) ==
    [sources |-> UNION {g.sources : g \in selected},
     severity |-> Min({g.severity : g \in selected})]

\* mergeFindingGroups
MergeFindingGroups(gs, occurrences) ==
    LET selected == {g \in gs : Touches(g.sources, occurrences)} IN
    IF Cardinality(selected) < 2 THEN gs ELSE (gs \ selected) \cup {Merged(selected)}

\* The findings of the next component are compared with all before it.
MatchNext ==
    /\ scanPhase = "matching" /\ remaining # <<>>
    /\ LET current == found[Head(remaining)] IN
       /\ \E r \in Answers(previous, current, {}, TRUE) :
             /\ matching' = Comparison(matching.matches \cup r.matches,
                                       matching.uncertain \cup r.uncertain,
                                       matching.related \cup r.related)
             /\ groups' = FoldSet(LAMBDA m, gs : MergeFindingGroups(gs, m), groups, r.matches)
       /\ previous' = previous \cup current
       /\ compared' = compared \cup (previous \X current)
    /\ remaining' = Tail(remaining)
    /\ UNCHANGED <<status, found, upcoming, workerAt, canceled, scanPhase, error, files>>

\* A comparison fails, by itself or because of the signal.
MatchFails ==
    /\ scanPhase = "matching" /\ remaining # <<>>
    /\ error' = TRUE /\ scanPhase' = "writing"
    /\ UNCHANGED <<status, found, upcoming, workerAt, canceled, remaining, previous, groups, matching,
                   files, compared>>

Matched ==
    /\ scanPhase = "matching" /\ remaining = <<>> /\ scanPhase' = "writing"
    /\ UNCHANGED <<status, found, upcoming, workerAt, canceled, results>>

-----------------------------------------------------------------------------
(* The report. *)
RetryComponents == {c \in Component : status[c] \in {"failed", "incomplete"}}
Needed == IF RetryComponents = {} THEN {"findings", "summary", "report"} ELSE Range(Report)

Write ==
    /\ scanPhase = "writing" /\ ~ Needed \subseteq files
    /\ \E i \in DOMAIN Report :
          /\ Report[i] \in Needed \ files
          /\ \A j \in 1 .. i - 1 : Report[j] \in Needed => Report[j] \in files
          /\ files' = files \cup {Report[i]}
    /\ UNCHANGED <<status, found, upcoming, workerAt, canceled, scanPhase, remaining, previous, groups,
                   matching, error, compared>>

WriteFails ==
    /\ scanPhase = "writing" /\ ~ Needed \subseteq files /\ scanPhase' = "threw"
    /\ UNCHANGED <<status, found, upcoming, workerAt, canceled, results>>

\* The caller is told of the signal first, and of a client that failed.
Conclude ==
    /\ scanPhase = "writing" /\ Needed \subseteq files
    /\ scanPhase' = IF canceled THEN "canceled"
                ELSE IF \E w \in Pool : workerAt[w] = 0 - 2 THEN "threw" ELSE "returned"
    /\ UNCHANGED <<status, found, upcoming, workerAt, canceled, results>>

ComponentNext ==
    \/ Abort \/ \E w \in Pool : Take(w) \/ ScanEnds(w) \/ Leave(w)
    \/ Settle \/ MatchNext \/ MatchFails \/ Matched \/ Write \/ WriteFails \/ Conclude

ComponentSpec == ComponentInit /\ [][ComponentNext]_componentVars

-----------------------------------------------------------------------------
(* What must hold. *)
AllFound == UNION Range(found)

\* Whatever fails, every finding is in one group, which is what the comparisons connect,
\* and the strongest of its findings stands for it.
GroupsAreComplete ==
    scanPhase \notin {"scans"} =>
        /\ {g.sources : g \in groups} =
                UnionFindingGroups(matching.matches \cup {{o} : o \in AllFound})
        /\ \A g \in groups : \A o \in g.sources : g.severity <= Severity[o]

\* Findings of two components were compared unless the report says that matching is
\* incomplete.
ComparedOrSaid ==
    scanPhase \in {"writing"} \cup Ended /\ ~error =>
        \A c, d \in Component : \A o \in found[c], p \in found[d] :
            c < d => <<o, p>> \in compared

\* A component is scanned by one worker, once; at the end it has an outcome, and is in the
\* plan for another try unless its coverage is complete.
ComponentsAreScannedOnce ==
    /\ \A w, v \in Pool : workerAt[w] \in Component /\ workerAt[w] = workerAt[v] => w = v
    /\ \A w \in Pool : workerAt[w] \in Component => status[workerAt[w]] = "started"
    /\ scanPhase # "scans" =>
          \A c \in Component :
              /\ status[c] \in Final
              /\ status[c] # "completed" => c \in RetryComponents
              /\ status[c] = "failed" => found[c] = {}
    /\ scanPhase = "returned" => /\ RetryComponents # {} => "retry" \in files
                             /\ \A c \in Component : c < upcoming

ComponentsAreSound == GroupsAreComplete /\ ComparedOrSaid /\ ComponentsAreScannedOnce
=============================================================================
