-------------------------- MODULE MCEmbedDispatch --------------------------
(***************************************************************************)
(* A repository of three slices (the last one short), an empty one, and one *)
(* of a single slice, which takes the path without a pool.                  *)
(***************************************************************************)
EXTENDS EmbedDispatch

MCSizes == <<7, 0, 3>>
=============================================================================
