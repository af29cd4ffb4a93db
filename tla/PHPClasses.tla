----------------------------- MODULE PHPClasses -----------------------------
(***************************************************************************)
(* What PHP's classes decide of a call: the method an object has under a   *)
(* name for the class that calls (get_method), and the objects the         *)
(* variable of a call site may hold.                                       *)
(***************************************************************************)
CONSTANTS
  NoClass,        \* a null class entry
  Ancestors,      \* for each class, itself and those it inherits from
  Table,          \* its function_table, the method it has under each name
  Private,        \* the methods that are private
  Functions       \* the names of the functions

Classes == DOMAIN Table
Has(c, n) == n \in DOMAIN Table[c]

\* get_method: the private method of the class that calls comes first.
Method(scope, c, n) ==
  IF c = NoClass THEN <<NoClass, n>>
  ELSE IF scope \in Ancestors[c] /\ <<scope, n>> \in Private THEN <<scope, n>>
  ELSE Table[c][n]

Found(scope, c, n) ==
  IF c = NoClass THEN n \in Functions
  ELSE /\ Has(c, n)
       /\ Method(scope, c, n) \in Private => Method(scope, c, n)[1] = scope

\* The classes of objects the variable of the site s may hold in a method of
\* an object of the class this.
Receivers(s, this) ==
  CASE s.on = "function" -> {NoClass}
    [] s.on = "this"     -> {this}
    [] s.on = "new"      -> {s.class}
    [] s.on = "typed"    -> {c \in Classes : s.class \in Ancestors[c]}
    [] s.on = "untyped"  -> Classes
=============================================================================
