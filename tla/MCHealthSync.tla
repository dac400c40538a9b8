---------------------------- MODULE MCHealthSync ----------------------------
(* Two wallpapers, so that a mark of one changes the document of the other. *)
EXTENDS HealthSync
=============================================================================
