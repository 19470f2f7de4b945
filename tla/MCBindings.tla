----------------------------- MODULE MCBindings -----------------------------
(* The save sources with the plugin's catalog for TLC. *)
EXTENDS Bindings, TLC

Symmetry == Permutations(Tasks)
=============================================================================
