------------------------------ MODULE MCGstApp ------------------------------
EXTENDS GstApp

CONSTANTS p1, p2
=============================================================================
