--------------------------- MODULE MCSdkContainer ---------------------------
(* Two terminals start the SDK while a third stops it.                     *)
EXTENDS SdkContainer
=============================================================================
