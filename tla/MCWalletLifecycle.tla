------------------------- MODULE MCWalletLifecycle -------------------------
(***************************************************************************)
(* Finite instances of WalletLifecycle.                                    *)
(***************************************************************************)
EXTENDS WalletLifecycle, TLC

\* Calls are interchangeable.
Symmetry == Permutations(Call)
=============================================================================
