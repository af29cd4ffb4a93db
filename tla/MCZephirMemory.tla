--------------------------- MODULE MCZephirMemory ---------------------------
(***************************************************************************)
(* ZephirMemory for TLC: a block of two frames and one heap frame, so that *)
(* the end of the block and a heap frame behind it are reached.  With      *)
(* ValueAndReference and OneReference for the values, and no heap frame,   *)
(* TLC also goes through the zvals that hold a PHP reference.              *)
(***************************************************************************)
EXTENDS ZephirActivations, TLC

CONSTANTS h1, x1, x2, v1, r1

OneHeapFrame  == {h1}
NoHeapFrame   == {}
TwoVars == {x1, x2}
OneValue == {v1}
ValueAndReference == {v1, r1}
NoReference  == {}
OneReference == {r1}

VarSymmetry == Permutations(TwoVars)
=============================================================================
