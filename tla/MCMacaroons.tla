----------------------------- MODULE MCMacaroons -----------------------------
(***************************************************************************)
(* The instance of Macaroons for TLC: two passwords, and calls enough to   *)
(* set a wallet up, open it, reset it, and set up and open another.        *)
(***************************************************************************)
EXTENDS Macaroons, TLC
=============================================================================
