------------------------ MODULE MCUpgradeTransaction ------------------------
(* Three slots, two edits and two stops. *)
EXTENDS UpgradeTransaction
=============================================================================
