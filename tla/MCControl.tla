----------------------------- MODULE MCControl -----------------------------
(* Small grids for the control thread: MCControl*.cfg.                       *)
EXTENDS Control, TLC
============================================================================
