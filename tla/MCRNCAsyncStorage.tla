-------------------------- MODULE MCRNCAsyncStorage --------------------------
(***************************************************************************)
(* TLC instance of RNCAsyncStorage: long values may be permuted.           *)
(***************************************************************************)
EXTENDS RNCAsyncStorage

LongSymmetry == Permutations(Long)

=============================================================================
