--------------------------- MODULE MCPublication ---------------------------
(* Two publishers: the window and a command line. *)
EXTENDS Publication
=============================================================================
