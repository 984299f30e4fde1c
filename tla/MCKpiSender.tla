----------------------------- MODULE MCKpiSender -----------------------------
(* Small pipelines for KpiSender: a decoder (A65), a CVU or MLA plugin     *)
(* (remote core) and a PCIe source, on one or two streams.                 *)
EXTENDS KpiSender

CONSTANTS dec, cvu, pcie, s1, s2

OneStream == [e \in Elements |-> s1]
TwoStreams == [e \in Elements |-> IF e = cvu THEN s2 ELSE s1]
Kind == [e \in Elements |-> IF e = dec THEN "A65" ELSE IF e = cvu THEN "Remote" ELSE "PCIe"]
=============================================================================
