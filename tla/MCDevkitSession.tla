-------------------------- MODULE MCDevkitSession --------------------------
(* Two programs on one board.                                              *)
EXTENDS DevkitSession
============================================================================
