--------------------------- MODULE MCBreedingJobs ---------------------------
(***************************************************************************)
(* BreedingJobs for TLC: one member whose two requests compete for points. *)
(***************************************************************************)
EXTENDS BreedingJobs, TLC

CONSTANT member
OneOwner == [r \in Charges |-> member]
ChargeSymmetry == Permutations(Charges)   \* requests of one member are alike
GrantOrTakeAway == {-1, 1}
=============================================================================
