--------------------------- MODULE MCSendPathOutbox ---------------------------
(* Instances of SendPathOutbox for TLC. *)
EXTENDS SendPathOutbox

CONSTANTS d1, d2, d3, f1, f2, c1, r1

(* Bound: a day passes only where no page was reloaded and no link made     *)
(* anew before it.                                                          *)
DayAlone == aged = {} \/ (crashes = 0 /\ epoch = 0)
=============================================================================
