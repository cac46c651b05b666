----------------------------- MODULE MCSendPath -----------------------------
(* Instances of SendPath for TLC. *)
EXTENDS SendPath

CONSTANTS d1, d2, d3, f1, f2, c1, r1

=============================================================================
