--------------------------- MODULE MCModelOfferings ---------------------------
(***************************************************************************)
(* TLC instance of ModelOfferings.                                         *)
(***************************************************************************)
EXTENDS ModelOfferings, TLC

\* Operations, models and benches are named by no other constant, and only
\* safety is checked.
Symmetry == Permutations(Ops) \cup Permutations(Models) \cup Permutations(Benches)

=============================================================================
