--------------------------- MODULE MCStackNavigator ---------------------------
(***************************************************************************)
(* TLC instance of StackNavigator: keys are made up, so they may be        *)
(* permuted.                                                               *)
(***************************************************************************)
EXTENDS StackNavigator

KeySymmetry == Permutations(Key)

=============================================================================
