----------------------------- MODULE MCUpstream -----------------------------
(***************************************************************************)
(* The calls of a group are alike: each runs the same code, and nothing    *)
(* but its own locals tells one from another.                              *)
(***************************************************************************)
EXTENDS UpstreamHistory, TLC

Symmetry == Permutations(Calls)
=============================================================================
