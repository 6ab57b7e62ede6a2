--------------------------- MODULE MCIdempotency ---------------------------
(***************************************************************************)
(* Calls over two keys with room for one entry in the cache.               *)
(***************************************************************************)
EXTENDS Idempotency, TLC

Symmetry == Permutations(Request) \cup Permutations(Key)
=============================================================================
