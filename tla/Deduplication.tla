---------------------------- MODULE Deduplication ----------------------------
(***************************************************************************)
(* The search for duplicates among the findings of a scan and their           *)
(* neighbours (sdk/typescript/src/deduplication/deduplication.ts,             *)
(* deduplication-reviewer.ts).                                               *)
(*                                                                           *)
(* Every finding of the scan is screened against its neighbours; the pairs    *)
(* that are nominated are reviewed one by one; what is connected by accepted   *)
(* pairs is a group, unless it holds a rejected pair: then clusters are merged  *)
(* greedily, with counts of support and conflicts that every merge updates.    *)
(* The model that decides may say anything of a pair, also something else of   *)
(* it the second time it is asked.                                           *)
(***************************************************************************)
EXTENDS Naturals, Integers, FiniteSets, FiniteSetsExt

CONSTANTS
    N                   \* the findings are 1 .. N, in the order they are met

Finding == 1 .. N
Pair == {p \in SUBSET Finding : Cardinality(p) = 2}

VARIABLES
    selected,           \* the findings of the scan
    near,               \* the pairs that the service calls potential duplicates
    phase, next,
    nominated, rejected, supported,
    active, cluster,    \* contradictionFreeSubgroups: the live clusters and their members
    support, conflicts, \* kept for each pair of clusters
    open,               \* findings whose component is not grouped yet
    groups

books == <<active, cluster, support, conflicts>>
deduplicationVars == <<selected, near, phase, next, nominated, rejected, supported, books,
                       open, groups>>

DeduplicationTypeOK ==
    /\ selected \subseteq Finding /\ near \subseteq Pair
    /\ phase \in {"screen", "review", "component", "merge", "done"}
    /\ next \in 1 .. N + 1
    /\ {nominated, rejected, supported, conflicts} \subseteq SUBSET Pair
    /\ active \subseteq Finding /\ cluster \in [Finding -> SUBSET Finding]
    /\ support \in [Pair -> Nat] /\ open \subseteq Finding /\ groups \subseteq SUBSET Finding

\* run goes over the findings of the scan in the order they have in its result.
Turns == {turn \in [selected -> 1 .. Cardinality(selected)] :
              \A f, g \in selected : f # g => turn[f] # turn[g]}

\* The findings that name f: itself, if it is of the scan, and those it is near to.
Naming(f) == {g \in selected : g = f \/ {f, g} \in near}

\* findings.set: a finding is met in the first turn that names it; one met for itself
\* comes before the neighbours that are met with it.
MetInTurn(turn) ==
    LET met == [f \in Finding |-> Min({turn[g] : g \in Naming(f)})]
    IN \A f, g \in Finding :
          f < g => /\ met[f] <= met[g]
                   /\ met[f] = met[g] => ~(g \in selected /\ turn[g] = met[g])

DeduplicationInit ==
    /\ selected \in SUBSET Finding /\ near \in SUBSET Pair
    /\ \A f \in Finding : Naming(f) # {}
    /\ \A p \in near : p \cap selected # {}
    /\ \E turn \in Turns : MetInTurn(turn)
    /\ phase = "screen" /\ next = 1
    /\ nominated = {} /\ rejected = {} /\ supported = {}
    /\ active = {} /\ cluster = [f \in Finding |-> {}] /\ support = [p \in Pair |-> 0]
    /\ conflicts = {} /\ open = Finding /\ groups = {}

\* potentialDuplicates and screen: one decision for each neighbour (validateScreening).
\* DISTINCT stays; SAME counts while nobody said otherwise, in whatever order the findings
\* have their turns.  Nothing is asked for a finding that is only a neighbour.
Screen ==
    /\ phase = "screen" /\ next \in Finding /\ next' = next + 1
    /\ LET asked == {p \in near : next \in p \cap selected}
       IN \E same \in SUBSET asked :
            /\ rejected' = rejected \cup (asked \ same)
            /\ nominated' = (nominated \cup (same \ rejected)) \ (asked \ same)
    /\ UNCHANGED <<selected, near, phase, supported, books, open, groups>>

EndScreening ==
    /\ phase = "screen" /\ next \notin Finding /\ phase' = "review"
    /\ UNCHANGED <<selected, near, next, nominated, rejected, supported, books, open, groups>>

\* reviewPair.
ReviewPair ==
    /\ phase = "review" /\ nominated # {}
    /\ LET p == CHOOSE q \in nominated : TRUE
       IN /\ nominated' = nominated \ {p}
          /\ \/ supported' = supported \cup {p} /\ UNCHANGED rejected
             \/ rejected' = rejected \cup {p} /\ UNCHANGED supported
    /\ UNCHANGED <<selected, near, phase, next, books, open, groups>>

EndReview ==
    /\ phase = "review" /\ nominated = {} /\ phase' = "component"
    /\ open' = UNION supported
    /\ UNCHANGED <<selected, near, next, nominated, rejected, supported, books, groups>>

----------------------------------------------------------------------------

\* What is connected with f by accepted pairs: the least set with f that they do not leave.
Closed(set) == \A p \in supported : p \cap set # {} => p \subseteq set
Component(f) ==
    {g \in Finding : \A set \in SUBSET Finding : f \in set /\ Closed(set) => g \in set}

Inside(pairs, set) == {p \in pairs : p \subseteq set}

\* Groups that hold nothing of the scan are left out.
Relevant(sets) == {g \in sets : Cardinality(g) > 1 /\ g \cap selected # {}}

\* Every member is a cluster of its own.
Separate(members) ==
    /\ phase' = "merge" /\ active' = members
    /\ cluster' = [f \in Finding |-> IF f \in members THEN {f} ELSE {}]
    /\ support' = [p \in Pair |-> IF p \in Inside(supported, members) THEN 1 ELSE 0]
    /\ conflicts' = Inside(rejected, members)

\* The next component is a group when nothing in it was rejected.
NextComponent ==
    /\ phase = "component" /\ open # {}
    /\ \E first \in open :
         /\ \A f \in open : first <= f
         /\ LET members == Component(first)
            IN /\ open' = open \ members
               /\ IF Inside(rejected, members) = {}
                    THEN groups' = groups \cup Relevant({members}) /\ UNCHANGED <<phase, books>>
                    ELSE Separate(members) /\ UNCHANGED groups
    /\ UNCHANGED <<selected, near, next, nominated, rejected, supported>>

EndComponents ==
    /\ phase = "component" /\ open = {} /\ phase' = "done"
    /\ UNCHANGED <<selected, near, next, nominated, rejected, supported, books, open, groups>>

----------------------------------------------------------------------------
(* contradictionFreeSubgroups.                                               *)

\* A plausible mistake: only what the two findings say of each other is looked at.
BugMergeable == {p \in Pair : p \subseteq active /\ support[p] > 0 /\ p \notin rejected}

Mergeable == {p \in Pair : p \subseteq active /\ support[p] > 0 /\ p \notin conflicts}
Against(c) == {o \in Finding : {c, o} \in conflicts}

\* What can no longer be merged when b joins a.
Blocked(a, b) == MapThenSumSet(LAMBDA o : support[{b, o}], Against(a) \ (Against(b) \cup {b}))
NewlyBlocked(p) == Blocked(Min(p), Max(p)) + Blocked(Max(p), Min(p))

Score(p) ==
    <<support[p] - NewlyBlocked(p), support[p], 0 - NewlyBlocked(p), 0 - Min(p), 0 - Max(p)>>
After(s, t) == \E i \in 1 .. 5 : s[i] > t[i] /\ \A j \in 1 .. i - 1 : s[j] = t[j]
IsBest(p) == p \in Mergeable /\ \A q \in Mergeable \ {p} : After(Score(p), Score(q))

\* The higher cluster joins the lower, with its support and its conflicts.
Merge ==
    /\ phase = "merge"
    /\ \E left, right \in active :
         /\ left < right /\ IsBest({left, right})
         /\ active' = active \ {right}
         /\ cluster' = [cluster EXCEPT ![left] = @ \cup cluster[right], ![right] = {}]
         /\ support' = [p \in Pair |->
               CASE right \in p -> 0
                 [] right \notin p /\ left \in p ->
                      support[p] + support[(p \ {left}) \cup {right}]
                 [] OTHER -> support[p]]
         /\ conflicts' = {p \in conflicts : right \notin p}
               \cup {(p \ {right}) \cup {left} : p \in {q \in conflicts : right \in q}}
    /\ UNCHANGED <<selected, near, phase, next, nominated, rejected, supported, open, groups>>

EndMerging ==
    /\ phase = "merge" /\ Mergeable = {} /\ phase' = "component"
    /\ groups' = groups \cup Relevant({cluster[c] : c \in active})
    /\ UNCHANGED <<selected, near, next, nominated, rejected, supported, books, open>>

DeduplicationNext ==
    \/ Screen \/ EndScreening \/ ReviewPair \/ EndReview \/ NextComponent \/ EndComponents
    \/ Merge \/ EndMerging

DeduplicationSpec == DeduplicationInit /\ [][DeduplicationNext]_deduplicationVars

----------------------------------------------------------------------------
Between(pairs, c, d) == {p \in pairs : p \cap cluster[c] # {} /\ p \cap cluster[d] # {}}

\* The counts that are kept are those of the clusters as they are now.
BooksAgree ==
    phase = "merge" =>
        \A c, d \in active : c # d =>
            /\ support[{c, d}] = Cardinality(Between(supported, c, d))
            /\ {c, d} \in conflicts <=> Between(rejected, c, d) # {}

\* No finding is in two groups, and no group holds a pair that was ever rejected.
GroupsAreConsistent ==
    /\ \A g \in groups, h \in groups : g # h => g \cap h = {}
    /\ \A g \in groups : Inside(rejected, g) = {}

\* A group holds together by accepted pairs within it.
Connected(set) ==
    \A part \in SUBSET set :
        part \notin {{}, set} =>
            \E p \in Inside(supported, set) : p \cap part # {} /\ ~(p \subseteq part)

GroupsAreSupported == \A g \in groups : Connected(g)

\* An accepted pair of a finding of the scan is separated only when the groups that
\* its findings ended in disagree.
GroupOf(f) == IF \E g \in groups : f \in g THEN CHOOSE g \in groups : f \in g ELSE {f}
Separated(p) ==
    \A f, g \in p :
        GroupOf(f) # GroupOf(g) /\ GroupOf(f) \cap selected # {} /\ GroupOf(g) \cap selected # {} =>
            \E r \in rejected : r \cap GroupOf(f) # {} /\ r \cap GroupOf(g) # {}
NothingIsMissed == phase = "done" => \A p \in supported : Separated(p)

GroupsAreSound == BooksAgree /\ GroupsAreConsistent /\ GroupsAreSupported /\ NothingIsMissed
=============================================================================
