---------------------------- MODULE FindingHistory ----------------------------
(***************************************************************************)
(* Which findings of the scans of a repository are one: the comparisons that  *)
(* are saved for pairs of scans, and the clients that make them (matchAllScans *)
(* and matchScanPair of cli.ts, matchCompletedScan of scan-comparison.ts, and   *)
(* list_unmatched_scan_pairs, compare_scans and save_scan_comparison of        *)
(* workbench_scan_history.py).                                                *)
(*                                                                           *)
(* Clients follow each other: one at a time compares and saves, and may die    *)
(* anywhere.  Abstracted: a comparison in batches (FindingComparison), scans   *)
(* whose files are gone, and other repositories.                              *)
(***************************************************************************)
EXTENDS FindingGroups, Sequences
LOCAL INSTANCE SequencesExt

CONSTANTS
    Scans,          \* number of scans, in the order in which they were started
    Found,          \* the occurrences of every scan
    MaxRuns         \* bound of the model: commands that match

Scan == 1 .. Scans

VARIABLES
    completed,      \* scans that are complete
    saved,          \* scan_comparisons: earlier scan, later scan, comparison
    client,         \* the command at work
    plan,           \* its batches to come
    newly,          \* newlyMatchedGroups
    saving,          \* comparisons it is about to save
    runs,
    promised        \* history: pairs that a command without an error owes

historyVars == <<completed, saved, client, plan, newly, saving, runs, promised>>

Pair == {p \in Scan \X Scan : p[1] < p[2]}
SavedPairs == {<<c.before, c.after>> : c \in saved}

HistoryTypeOK ==
    /\ completed \subseteq Scan
    /\ \A c \in saved : <<c.before, c.after>> \in Pair
    /\ Cardinality(saved) = Cardinality(SavedPairs)
    /\ client \in {"none", "all", "force", "pair", "scan"}
    /\ \A i \in DOMAIN plan : plan[i].after \in Scan /\ plan[i].before \subseteq Scan
    /\ newly \subseteq SUBSET {Identity[o] : o \in Occurrence}
    /\ \A i \in DOMAIN saving : <<saving[i].before, saving[i].after>> \in Pair
    /\ runs \in 0 .. MaxRuns /\ promised \subseteq Pair

HistoryInit ==
    /\ completed = {} /\ saved = {} /\ client = "none" /\ plan = <<>> /\ newly = {}
    /\ saving = <<>> /\ runs = 0 /\ promised = {}

-----------------------------------------------------------------------------
(* What is known. *)
FoundIn(scans) == UNION {Found[s] : s \in scans}

\* _saved_finding_links, of scans up to the later one
Links(comparisons) ==
    UNION {{{Identity[b], Identity[a]} : b \in g \cap Found[c.before], a \in g \cap Found[c.after]} :
              <<c, g>> \in {<<d, h>> \in comparisons \X SUBSET Occurrence : h \in d.result.matches}}
UpTo(after) == {c \in saved : c.before <= after /\ c.after <= after}

\* _known_finding_groups
KnownGroups(comparisons) ==
    {k \in UnionFindingGroups(Links(comparisons)) : Cardinality(k) > 1}

\* list_unmatched_scan_pairs
Previous(after, force) ==
    {b \in completed : b < after /\ (force \/ <<b, after>> \notin SavedPairs)}
BatchOf(after, force) ==
    [after |-> after, before |-> Previous(after, force),
     known |-> IF force THEN {} ELSE KnownGroups(UpTo(after))]
Batches(force) ==
    SelectSeq([s \in Scan |-> BatchOf(s, force)],
              LAMBDA b : b.after \in completed /\ b.before # {})

-----------------------------------------------------------------------------
(* Commands. *)
Complete(s) ==
    /\ s \notin completed /\ client = "none"
    /\ completed' = completed \cup {s}
    /\ IF Previous(s, FALSE) = {} THEN UNCHANGED <<client, plan>>
       ELSE client' = "scan" /\ plan' = <<BatchOf(s, FALSE)>>
    /\ UNCHANGED <<saved, newly, saving, runs, promised>>

Begin(kind, batches, pairs) ==
    /\ client = "none" /\ runs < MaxRuns /\ runs' = runs + 1
    /\ client' = kind /\ plan' = batches /\ newly' = {} /\ promised' = pairs
    /\ UNCHANGED <<completed, saved, saving>>

MatchAll(force) ==
    /\ Batches(force) # <<>>
    /\ Begin(IF force THEN "force" ELSE "all", Batches(force),
             {p \in Pair : {p[1], p[2]} \subseteq completed})

\* matchScanPair: what the pair itself says does not count as known.
MatchPair(b, a, force) ==
    /\ b < a /\ {b, a} \subseteq completed /\ (force \/ <<b, a>> \notin SavedPairs)
    /\ Begin("pair", <<[after |-> a, before |-> {b},
            known |-> KnownGroups({c \in UpTo(a) : ~(c.before = b /\ c.after = a)})]>>, {<<b, a>>})

\* The part of an answer that is about one earlier scan.
PartOf(r, before, after) ==
    Comparison({g \cap (Found[before] \cup Found[after]) :
                    g \in {h \in r.matches : Touches(h, Found[before])}},
               {p \in r.uncertain : p[1] \in Found[before]},
               {p \in r.related : p[1] \in Found[before]})

Conflicts(r) == \E p \in r.uncertain : GroupOf(r.matches, p[2]) # {}

Saves(batch, scans, r) ==
    LET part(b) == [before |-> b, after |-> batch.after, result |-> r[b]] IN
    SetToSortSeq({part(b) : b \in scans}, LAMBDA x, y : x.before < y.before)

\* A plausible mistake: what an earlier batch confirmed does not count.
BugKnown(batch) == batch.known

\* What the batches before this one confirmed counts as known.
Known(batch) == UnionFindingGroups(batch.known \cup newly)

\* comparisonFindingGroups
ConfirmedBy(matches) ==
    {k \in {{Identity[o] : o \in g} : g \in matches} : Cardinality(k) > 1}

\* The next batch is compared, and every earlier scan gets its part. Nothing is saved when
\* a part is both certain and uncertain of a finding.
CompareBatch ==
    /\ client \in {"all", "force", "pair"} /\ saving = <<>> /\ plan # <<>>
    /\ LET batch == Head(plan)
           before == FoundIn(batch.before)
           after == Found[batch.after]
       IN \E r \in IF before = {} \/ after = {} THEN {Nothing}
                   ELSE Answers(before, after, Known(batch), client # "pair") :
             LET parts == [b \in batch.before |-> PartOf(r, b, batch.after)] IN
             IF \E b \in batch.before : Conflicts(parts[b])
             THEN /\ client' = "none" /\ plan' = <<>> /\ promised' = {}
                  /\ newly' = {} /\ UNCHANGED saving
             ELSE /\ saving' = Saves(batch, batch.before, parts)
                  /\ newly' = newly \cup ConfirmedBy(r.matches)
                  /\ plan' = Tail(plan) /\ UNCHANGED <<client, promised>>
    /\ UNCHANGED <<completed, saved, runs>>


\* matchCompletedScan: what the scan is certain of is not uncertain for that scan.
ScanPart(r, b, a) ==
    LET part == PartOf(r, b, a) IN
    [part EXCEPT !.uncertain = {p \in @ : GroupOf(part.matches, p[2]) = {}}]

\* Only open findings and false positives of before count, the last one of an identity.
\* Those whose identity came back are one with it, and the others are compared.
CompareCompleted ==
    /\ client = "scan" /\ saving = <<>> /\ plan # <<>>
    /\ LET batch == Head(plan)
           after == Found[batch.after]
       IN \E historical \in SUBSET FoundIn(batch.before) :
             LET same(o, n) == Identity[o] = Identity[n]
                 back == {o \in historical : \E n \in after : same(o, n)}
                 stable == {{o, n} : <<o, n>> \in {p \in back \X after : same(p[1], p[2])}}
                 remaining == {n \in after : ~ \E o \in back : same(o, n)}
                 compared == historical # back /\ remaining # {}
             IN /\ historical # {} /\ \A o, p \in historical : o # p => ~same(o, p)
                /\ \E r \in IF compared
                            THEN Answers(historical \ back, remaining, batch.known, TRUE)
                            ELSE {Nothing} :
                      LET all == [r EXCEPT !.matches = @ \cup stable]
                          parts == [b \in batch.before |-> ScanPart(all, b, batch.after)]
                      IN saving' = Saves(batch,
                            {b \in batch.before : /\ Touches(historical, Found[b])
                                                  /\ compared \/ parts[b].matches # {}}, parts)
    /\ plan' = <<>>
    /\ UNCHANGED <<completed, saved, client, newly, runs, promised>>

\* save_scan_comparison: what the pair said before is replaced.
\* Whether confirmed findings are in one group is not looked at here.
Accepted(c) ==
    /\ MatchesAreValid(Found[c.before], Found[c.after], c.result.matches)
    /\ UncertainIsValid(Found[c.before], Found[c.after], c.result, FALSE)
    /\ RelatedIsValid(Found[c.before], Found[c.after], c.result)
PutComparison(c) == saved' = {d \in saved : ~(d.before = c.before /\ d.after = c.after)} \cup {c}

Save ==
    /\ client # "none" /\ saving # <<>>
    /\ PutComparison(Head(saving)) /\ saving' = Tail(saving)
    /\ UNCHANGED <<completed, client, plan, newly, runs, promised>>

Finish ==
    /\ client # "none" /\ saving = <<>> /\ plan = <<>>
    /\ client' = "none" /\ newly' = {}
    /\ UNCHANGED <<completed, saved, plan, saving, runs, promised>>

Die ==
    /\ client # "none"
    /\ client' = "none" /\ plan' = <<>> /\ newly' = {} /\ saving' = <<>> /\ promised' = {}
    /\ UNCHANGED <<completed, saved, runs>>

HistoryNext ==
    \/ \E s \in Scan : Complete(s)
    \/ \E force \in BOOLEAN : MatchAll(force) \/ \E b, a \in Scan : MatchPair(b, a, force)
    \/ CompareBatch \/ CompareCompleted \/ Save \/ Finish \/ Die

HistorySpec == HistoryInit /\ [][HistoryNext]_historyVars
-----------------------------------------------------------------------------
(* What must hold. *)

\* The workbench accepts every comparison that a client is about to save.
SavesAreAccepted == \A i \in DOMAIN saving : Accepted(saving[i])

\* Nothing that is saved calls findings possible or related that other comparisons, of scans
\* no later than its own, have confirmed to be one, unless everything is matched anew.
Contradicts(c) ==
    \E p \in c.result.uncertain \cup c.result.related :
        \E k \in ConfirmedGroups({}, KnownGroups({d \in UpTo(c.after) :
                    ~(d.before = c.before /\ d.after = c.after)})) :
            {Identity[p[1]], Identity[p[2]]} \subseteq k
ConfirmedIsKept == client # "force" => \A i \in DOMAIN saving : ~Contradicts(saving[i])

\* A command that ends without an error has saved every pair it was asked for.
PromiseIsKept == client = "none" => promised \subseteq SavedPairs

HistoryIsSound == SavesAreAccepted /\ ConfirmedIsKept /\ PromiseIsKept
=============================================================================
