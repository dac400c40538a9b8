----------------------------- MODULE MCStateFile -----------------------------
(* Two Stores, two wallpapers, two changes by somebody else. *)
EXTENDS StateFile
=============================================================================
