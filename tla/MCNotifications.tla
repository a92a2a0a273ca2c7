--------------------------- MODULE MCNotifications ---------------------------
(***************************************************************************)
(* The instance of Notifications for TLC: enough streams for an array that *)
(* grows twice, one of them opened while the loop ranges.                  *)
(***************************************************************************)
EXTENDS Notifications, TLC
=============================================================================
