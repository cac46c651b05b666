------------------------------ MODULE MCTabStore ------------------------------
EXTENDS TabStore, TLC
CONSTANTS t1, t2, s1, s2, w1, w2

(* Nothing tells the tabs apart: a random nonce decides by its rank.         *)
Symmetric == Permutations(Tabs)
=============================================================================
