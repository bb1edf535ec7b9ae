--------------------------- MODULE MCMultiscanLock ---------------------------
(* Instances of MultiscanLock for TLC: supervisors are interchangeable. *)
EXTENDS MultiscanLock, TLC

Symmetry == Permutations(Supervisor)
=============================================================================
