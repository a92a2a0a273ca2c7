-------------------------- MODULE MCDelegateAddress --------------------------
(***************************************************************************)
(* The instance of DelegateAddress for TLC: three calls at once, three     *)
(* keys and a second wallet.                                               *)
(***************************************************************************)
EXTENDS DelegateAddress, TLC

Symmetry == Permutations(Call)
=============================================================================
