----------------------------- MODULE MCCamera -----------------------------
(* Small buffers and pictures for Camera: MCCamera.cfg.                      *)
EXTENDS Camera, TLC
===========================================================================
