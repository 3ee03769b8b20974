---------------------------- MODULE MCCountCache ----------------------------
(***************************************************************************)
(* One or two workspaces, two callers, one writer; ttl_s is -1 (caching is   *)
(* off) or 1.  The counts run lets time pass beyond the promised bound, the *)
(* global one needs no clock.                                               *)
(***************************************************************************)
EXTENDS CountCache, TLC

CONSTANTS w1, w2

OneKey == {<<Global, FALSE>>}

\* A label with workspace_id and one without, asked for within w1.
MCAsked == {<<w1, TRUE>>, <<w1, FALSE>>}

MCTtls == {-1, 1}

Symmetry == Permutations(Threads)
=============================================================================
