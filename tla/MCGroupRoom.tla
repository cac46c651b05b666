----------------------------- MODULE MCGroupRoom -----------------------------
(* Instances of GroupRoom for TLC. *)
EXTENDS GroupRoom, TLC

CONSTANTS f, a, b, c

AllLinks == {l \in SUBSET Devices : Cardinality(l) = 2}
(* c is linked with the founder only. *)
SomeLinks == AllLinks \ {{a, c}, {b, c}}

Upto(all, add, remove, leave, message, reaction, edit, delete, crash) ==
    [all |-> all, create |-> 1, add |-> add, remove |-> remove, leave |-> leave,
     message |-> message, reaction |-> reaction, edit |-> edit, delete |-> delete,
     crash |-> crash]

Talk == Upto(12, 2, 1, 1, 1, 1, 1, 1, 1)
(* A message and a reaction. *)
Racing == Upto(12, 0, 0, 0, 1, 1, 0, 0, 0)
(* An account added later. *)
Joining == Upto(12, 2, 0, 0, 0, 0, 0, 0, 0)

(* The members invited at the creation. *)
Symmetry == Permutations(Invited)
=============================================================================
