-------------------------- MODULE FindingComparison --------------------------
(***************************************************************************)
(* A comparison that is too large for one turn (matchScanFindings of          *)
(* scan-comparison.ts): the findings of one side are split into halves until   *)
(* each batch fits, every batch is compared on its own, and the answers are    *)
(* combined and validated again.                                              *)
(*                                                                           *)
(* Abstracted: how long a prompt is (a batch fits or it does not).            *)
(***************************************************************************)
EXTENDS FindingGroups, Sequences
LOCAL INSTANCE SequencesExt
LOCAL INSTANCE FiniteSetsExt

CONSTANTS
    Before, After,      \* the occurrences of both sides
    KnownGroups,        \* what may have been confirmed before: sets of groups of identities
    Historical          \* allowHistoricalUncertainty

VARIABLES
    known,              \* knownFindingGroups
    todo,               \* batches to come
    comparisons,        \* batches with their answers
    verdict             \* "none", "failed", "refused" or "done"

comparisonVars == <<known, todo, comparisons, verdict>>

Batch == [before : SUBSET Before, after : SUBSET After]

ComparisonTypeOK ==
    /\ known \in KnownGroups
    /\ Range(todo) \subseteq Batch
    /\ \A i \in DOMAIN comparisons : comparisons[i].batch \in Batch
    /\ verdict \in {"none", "failed", "refused", "done"}

ComparisonInit ==
    /\ known \in KnownGroups
    /\ todo = <<[before |-> Before, after |-> After]>>
    /\ comparisons = <<>> /\ verdict = "none"

\* The findings of a side in their order, and what Math.ceil(length / 2) makes of it.
FirstHalf(s) == {x \in s : Cardinality({y \in s : y < x}) < (Cardinality(s) + 1) \div 2}

Halves(batch, side) ==
    LET first == FirstHalf(batch[side]) IN
    <<[batch EXCEPT ![side] = first], [batch EXCEPT ![side] = @ \ first]>>

\* comparisonBatches: the longer side is split, if it can be.
Split ==
    /\ verdict = "none" /\ todo # <<>>
    /\ \E side \in {"before", "after"} :
          /\ Cardinality(Head(todo)[side]) > 1
          /\ todo' = Halves(Head(todo), side) \o Tail(todo)
    /\ UNCHANGED <<known, comparisons, verdict>>

\* One pair that does not fit, an answer that is not valid, or the signal.
Fail ==
    /\ verdict = "none" /\ todo # <<>>
    /\ verdict' = "failed" /\ UNCHANGED <<known, todo, comparisons>>

Compare ==
    /\ verdict = "none" /\ todo # <<>>
    /\ \E r \in Answers(Head(todo).before, Head(todo).after, known, Historical) :
          comparisons' = Append(comparisons, [batch |-> Head(todo), answer |-> r])
    /\ todo' = Tail(todo)
    /\ UNCHANGED <<known, verdict>>

\* A group joins those it overlaps.
Join(groups, g) ==
    LET overlapping == {h \in groups : Touches(h, g)} IN
    (groups \ overlapping) \cup {UNION overlapping \cup g}

Decided(part(_)) == UNION {part(comparisons[i].answer) : i \in DOMAIN comparisons}

Joined == FoldLeft(LAMBDA groups, c : FoldSet(LAMBDA g, gs : Join(gs, g), groups, c.answer.matches),
                   {}, comparisons)

\* combineComparisons: what became certain in another batch is not uncertain any more.
Combined ==
    LET matched == UNION Joined IN
    Comparison(Joined,
        {p \in Decided(LAMBDA r : r.uncertain) :
            p[1] \notin matched /\ (Historical \/ p[2] \notin matched)},
        Decided(LAMBDA r : r.related))

Conclude ==
    /\ verdict = "none" /\ todo = <<>>
    /\ verdict' = IF Valid(Before, After, known, Combined, Historical) THEN "done" ELSE "refused"
    /\ UNCHANGED <<known, todo, comparisons>>

ComparisonNext == Split \/ Compare \/ Fail \/ Conclude

ComparisonSpec == ComparisonInit /\ [][ComparisonNext]_comparisonVars

-----------------------------------------------------------------------------
(* What must hold. *)
Batches == [i \in DOMAIN comparisons |-> comparisons[i].batch] \o todo

\* Every earlier finding meets every later one in exactly one batch.
PairsMeetOnce ==
    \A p \in Before \X After :
        Cardinality({i \in DOMAIN Batches :
            p[1] \in Batches[i].before /\ p[2] \in Batches[i].after}) = 1

\* The groups are what the answers connect, in whatever batches, and no pair is both certain
\* and uncertain.
Matched == Decided(LAMBDA r : r.matches)
CombinationIsClosure ==
    verdict \in {"done", "refused"} =>
        /\ Combined.matches = UnionFindingGroups(Matched)
        /\ UncertainIsValid(Before, After, Combined, Historical)

\* The combination of valid answers is refused only for a pair that one batch keeps apart
\* and others connect, or for confirmed findings that never met.
RefusalIsExplained ==
    verdict = "refused" =>
        \/ \E p \in Decided(LAMBDA r : r.related), g \in Combined.matches : {p[1], p[2]} \subseteq g
        \/ \E k \in ConfirmedGroups(Before \cup After, known) :
              /\ Cardinality(k) > 1 \/ Cardinality({o \in Occurrence : Identity[o] \in k}) > 1
              /\ ~KeepsConfirmed(Before, After, known, Combined.matches)

ComparisonIsSound == PairsMeetOnce /\ CombinationIsClosure /\ RefusalIsExplained
=============================================================================
