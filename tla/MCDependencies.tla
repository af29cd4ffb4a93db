--------------------------- MODULE MCDependencies ---------------------------
(***************************************************************************)
(* Dependencies on two classes, two interfaces, one class of another       *)
(* extension and a closure.                                                *)
(***************************************************************************)
EXTENDS Dependencies

CONSTANTS a, b, i, j, e

TwoClasses == {a, b, e}
TwoInterfaces == {i, j}
OneExternal == {e}
=============================================================================
