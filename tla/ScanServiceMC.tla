--------------------------- MODULE ScanServiceMC ---------------------------
(***************************************************************************)
(* An instance of ScanService for TLC: every period is delivered in order, *)
(* whatever the lengths of the scans and wherever they start.              *)
(***************************************************************************)
EXTENDS ScanService

CONSTANTS c1, c2

Lengths == [c \in Channels |-> IF c = c1 THEN 3 ELSE 2]
Starts  == [c \in Channels |-> 0 .. Lengths[c] - 2]
============================================================================
