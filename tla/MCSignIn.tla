------------------------------- MODULE MCSignIn -------------------------------
(* Instances of SignIn for TLC.                                              *)
EXTENDS SignIn

CONSTANTS t1
LimitDef == [click |-> 3, slip |-> 1, cancel |-> 1, enable |-> 1, out |-> 1, load |-> 1, fail |-> 1]
===============================================================================
