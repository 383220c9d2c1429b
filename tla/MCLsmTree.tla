------------------------------ MODULE MCLsmTree ------------------------------
(***************************************************************************)
(* Three keys and four levels with very small limits for TLC.              *)
(***************************************************************************)
EXTENDS LsmTree

ThreeKeys == 1 .. 3
BigLevels == [l \in 1 .. NumLevels - 2 |-> 10]
FullRange == {<<1, 3>>}
==============================================================================
