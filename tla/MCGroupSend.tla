----------------------------- MODULE MCGroupSend -----------------------------
(* Instances of GroupSend for TLC. *)
EXTENDS GroupSend, TLC

CONSTANTS p1, p2

(* The members of a group are interchangeable for its sender. *)
Symmetry == Permutations(Peers)
=============================================================================
