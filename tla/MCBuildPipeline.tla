-------------------------- MODULE MCBuildPipeline --------------------------
(***************************************************************************)
(* BuildPipeline on two source files of two contents, and on one file      *)
(* for the runs that look for a single disagreement.                       *)
(***************************************************************************)
EXTENDS BuildPipeline, TLC

CONSTANTS f1, f2, o0, o2

TwoFiles == {f1, f2}
OneFile == {f1}

\* Content 2 declares a method that content 1 has not.
Methods == <<0, 1>>

\* Two values of extra-cflags, and one for a user who leaves them alone.
TwoFlags == {o0, o2}
OneFlag == {o0}

Symmetric == Permutations(Files) \cup Permutations(Flags)
=============================================================================
