-------------------------- MODULE MCVhtlcMigration --------------------------
(***************************************************************************)
(* Finite instances of VhtlcMigration: the sets are small enough to be     *)
(* given in the configurations.                                            *)
(***************************************************************************)
EXTENDS VhtlcMigration
=============================================================================
