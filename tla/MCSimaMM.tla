------------------------------ MODULE MCSimaMM ------------------------------
(* Two threads and a table of four slots with a short int.                 *)
EXTENDS SimaMM
=============================================================================
