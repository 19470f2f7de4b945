---------------------------- MODULE MCModLibrary ----------------------------
(* The mod library for TLC. *)
EXTENDS ModLibrary, TLC

Symmetry == Permutations(Tasks) \cup Permutations(Mods)

\* Bound: beside an inspection one task works on the library, for the steps of an import are
\* those of an upload, and nothing else in the library knows of inspections.
Bound == staged = {} \/ Cardinality({t \in Tasks : pc[t] \notin {"idle", "claimed"}}) <= 1
=============================================================================
