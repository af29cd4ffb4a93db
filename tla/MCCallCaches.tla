---------------------------- MODULE MCCallCaches ----------------------------
(***************************************************************************)
(* CallCaches for TLC: a class A of an extension, a class B of PHP code    *)
(* that extends it, with a method of its own for two of A's, and a class C *)
(* that is related to neither.                                             *)
(***************************************************************************)
EXTENDS CallCaches, TLC

OnlyA == {"A"}
f == <<"A", "f">>
g == <<"A", "g">>
Methods == {f, g, <<"A", "p">>, <<"B", "f">>, <<"B", "p">>, <<"C", "f">>}
Table3 ==
  "A" :> ("f" :> f @@ "g" :> g @@ "p" :> <<"A", "p">>)
  @@ "B" :> ("f" :> <<"B", "f">> @@ "g" :> g @@ "p" :> <<"B", "p">>)
  @@ "C" :> ("f" :> <<"C", "f">>)
Ancestors3 == "A" :> {"A"} @@ "B" :> {"A", "B"} @@ "C" :> {"C"}
PrivateP == {<<"A", "p">>}
FinalG == {g}

S(in, name, on, class, cycle, fixed) ==
  [in |-> in, name |-> name, on |-> on, class |-> class, cycle |-> cycle, fixed |-> fixed]

\* Sites in f, which objects may override, and in g, which they may not.
InF == {S(f, "f", "this", "A", FALSE, TRUE), S(f, "f", "typed", "A", TRUE, FALSE),
        S(f, "p", "this", "A", TRUE, TRUE),
        S(f, "f", "untyped", NoClass, TRUE, TRUE),
        S(f, "h", "function", NoClass, TRUE, FALSE)}
Either == {S(f, "f", "this", "A", FALSE, TRUE), S(f, "g", "typed", "A", TRUE, TRUE),
           S(g, "f", "new", "A", TRUE, TRUE), S(g, "h", "function", NoClass, FALSE, FALSE)}
InG == {S(g, "f", "new", "A", TRUE, TRUE), S(g, "f", "typed", "A", TRUE, FALSE),
        S(g, "g", "this", "A", FALSE, TRUE),
        S(g, "f", "untyped", NoClass, FALSE, TRUE),
        S(g, "h", "function", NoClass, FALSE, FALSE)}

ThreeSites == {<<r, s, t>> : r \in InF, s \in Either, t \in InG}
=============================================================================
