----------------------------- MODULE MCKeyPool -----------------------------
(***************************************************************************)
(* Small pools for KeyPool.                                                *)
(***************************************************************************)
EXTENDS KeyPool, TLC

RequestSymmetry == Permutations(Request)
=============================================================================
