----------------------------- MODULE MCCheckout -----------------------------
(***************************************************************************)
(* Three runs and two commits: two runs on one commit while a third is on    *)
(* the other, and a branch that moves, or is rewritten, during a clone.     *)
(***************************************************************************)
EXTENDS Checkout, TLC

Symmetry == Permutations(Runs)
=============================================================================
