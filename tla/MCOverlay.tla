----------------------------- MODULE MCOverlay -----------------------------
(* Two metadata fields stand for the five that are read alike.             *)
EXTENDS Overlay
=============================================================================
