---------------------------- MODULE MCPlannedCuts ----------------------------
(* PlannedCuts in five-bit arithmetic, with every plan argument.           *)
EXTENDS PlannedCuts
=============================================================================
