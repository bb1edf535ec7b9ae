---------------------------- MODULE FindingGroups ----------------------------
(***************************************************************************)
(* Groups of findings that are one, and what a comparison of the findings of  *)
(* earlier scans with those of a later one may say (unionFindingGroups and     *)
(* validateComparison of scan-comparison.ts).                                 *)
(*                                                                           *)
(* Abstracted: the reasons of a decision and the shape of the JSON.           *)
(***************************************************************************)
EXTENDS Naturals, FiniteSets

\* findingId of every occurrence
CONSTANT Identity

Occurrence == DOMAIN Identity

Touches(group, other) == group \cap other # {}

RECURSIVE Union(_)
Union(groups) ==
    LET meeting == {p \in groups \X groups : p[1] # p[2] /\ Touches(p[1], p[2])} IN
    IF meeting = {} THEN groups
    ELSE LET p == CHOOSE p \in meeting : TRUE
         IN Union((groups \ {p[1], p[2]}) \cup {p[1] \cup p[2]})

\* unionFindingGroups: what is connected is one group.
UnionFindingGroups(groups) == Union(groups \ {{}})

\* The identities of findings: those that were confirmed, and every finding's own.
ConfirmedGroups(occurrences, known) ==
    UnionFindingGroups(known \cup {{Identity[o]} : o \in occurrences})

GroupOf(matches, o) == {g \in matches : o \in g}

MatchesAreValid(before, after, matches) ==
    /\ \A g \in matches : g \subseteq before \cup after /\ Touches(g, before) /\ Touches(g, after)
    /\ \A g, h \in matches : g # h => ~Touches(g, h)

\* Findings that are known to be one are in one group, or all in none as long as they are
\* on one side.
KeepsConfirmed(before, after, known, matches) ==
    \A k \in ConfirmedGroups(before \cup after, known) :
        LET members == {o \in before \cup after : Identity[o] \in k}
            groups == {GroupOf(matches, o) : o \in members}
        IN /\ Cardinality(groups) <= 1
           /\ Touches(members, before) /\ Touches(members, after) => {} \notin groups

UncertainIsValid(before, after, r, historical) ==
    /\ r.uncertain \subseteq before \X after
    /\ \A p \in r.uncertain :
          /\ GroupOf(r.matches, p[1]) = {}
          /\ historical \/ GroupOf(r.matches, p[2]) = {}

RelatedIsValid(before, after, r) ==
    /\ r.related \subseteq (before \X after) \ r.uncertain
    /\ \A p \in r.related : \A g \in r.matches : ~({p[1], p[2]} \subseteq g)

\* validateComparison
Valid(before, after, known, r, historical) ==
    /\ MatchesAreValid(before, after, r.matches)
    /\ KeepsConfirmed(before, after, known, r.matches)
    /\ UncertainIsValid(before, after, r, historical)
    /\ RelatedIsValid(before, after, r)

-----------------------------------------------------------------------------
(* The answers a model may give. *)
Groupings(before, after) ==
    LET labels == 0 .. Cardinality(before) IN
    {{{o \in before \cup after : f[o] = n} : n \in labels \ {0}} \ {{}} :
        f \in [before \cup after -> labels]}

\* A comparison: groups that are one, pairs that may be one, and pairs that are not.
Comparison(matches, uncertain, related) ==
    [matches |-> matches, uncertain |-> uncertain, related |-> related]
Nothing == Comparison({}, {}, {})

Answers(before, after, known, historical) ==
    LET pairs == before \X after
        groupings == {m \in Groupings(before, after) :
                        /\ MatchesAreValid(before, after, m)
                        /\ KeepsConfirmed(before, after, known, m)}
    IN {r \in UNION {{Comparison(m, {p \in pairs : f[p] = "uncertain"},
                                    {p \in pairs : f[p] = "related"}) :
                        f \in [pairs -> {"no", "uncertain", "related"}]} : m \in groupings} :
            Valid(before, after, known, r, historical)}
=============================================================================
