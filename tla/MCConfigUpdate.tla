---------------------------- MODULE MCConfigUpdate ----------------------------
(* ConfigUpdate with interchangeable callers. *)
EXTENDS ConfigUpdate, TLC

CONSTANTS a, b, p1, p2

Symmetry == Permutations(Callers) \cup Permutations(BorrowedPorts)
=============================================================================
