--------------------------- MODULE MCCheckReceipts ---------------------------
(***************************************************************************)
(* Instances of CheckReceipts for TLC.                                     *)
(***************************************************************************)
EXTENDS CheckReceipts
=============================================================================
