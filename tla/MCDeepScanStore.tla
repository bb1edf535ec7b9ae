--------------------------- MODULE MCDeepScanStore ---------------------------
(* Instances of DeepScanStore for TLC, checked in one run: each bounds the     *)
(* store in a different direction.  Workers of a kind are interchangeable.    *)
EXTENDS DeepScanStore, TLC

VARIABLE instance

Symmetry == Permutations(Discovery) \cup Permutations(Reducer)

Used(kind) == Cardinality({w \in kind : status[w] # "none"})
Attempts(n) == \A w \in Worker : attempt[w] <= n

\* "wide": every kind of worker but those of earlier versions; "replaced": many
\* adoptions; "retried": workers that are tried again; "legacy": rows of an
\* earlier version.
Bounds ==
    CASE instance = "wide" -> /\ Used(Setup) = 0 /\ generation <= 2 /\ Attempts(1)
                              /\ Used(Discovery \cup Reducer) <= 4
      [] instance = "replaced" -> /\ Used(Setup) = 0 /\ Attempts(1)
                                  /\ Used(Discovery \cup Reducer) <= 3
      [] instance = "retried" -> /\ Used(Setup) = 0 /\ generation <= 2
                                 /\ Used(Discovery \cup Reducer) <= 2
      [] instance = "legacy" -> /\ generation <= 2 /\ Attempts(1)
                                /\ Used(Discovery \cup Reducer) <= 1

InstanceInit == Init /\ instance \in {"wide", "replaced", "retried", "legacy"}
InstanceNext == Next /\ UNCHANGED instance /\ Bounds'
InstanceSpec == InstanceInit /\ [][InstanceNext]_<<vars, instance>>
=============================================================================
