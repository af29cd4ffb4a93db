--------------------------- MODULE MCVariableInit ---------------------------
(***************************************************************************)
(* VariableInit for TLC: methods with two variables, a branch or a loop    *)
(* with up to two statements in each block, one of them in another, and a  *)
(* statement before and after.                                             *)
(***************************************************************************)
EXTENDS VariableInit

CONSTANTS a, b

TwoVariables == {a, b}

Plain == [op |-> "endif", var |-> a, by |-> "value", reads |-> {}, seen |-> TRUE,
          to |-> 0, elseif |-> FALSE]
Let(x, by, reads) == [Plain EXCEPT !.op = "let", !.var = x, !.by = by, !.reads = reads]
Hidden(x) == [Let(x, "value", {x}) EXCEPT !.seen = FALSE]
Echo(x) == [Plain EXCEPT !.op = "echo", !.reads = {x}]
Return == [Plain EXCEPT !.op = "return"]

\* Bodies, with positions counted from their own first statement.
Shift(m, n) == [i \in 1..Len(m) |-> IF m[i].to = 0 THEN m[i] ELSE [m[i] EXCEPT !.to = @ + n]]
Join(m, n) == m \o Shift(n, Len(m))
Open(op, reads, to) == [Plain EXCEPT !.op = op, !.reads = reads, !.to = to]
If(reads, m) == <<Open("if", reads, Len(m) + 2)>> \o Shift(m, 1) \o <<Plain>>
IfElseif(m) == [If({}, m) EXCEPT ![1].elseif = TRUE]
IfElse(reads, m, n) ==
  <<Open("if", reads, Len(m) + 2)>> \o Shift(m, 1)
    \o <<Open("else", {}, Len(m) + Len(n) + 3)>> \o Shift(n, Len(m) + 2) \o <<Plain>>
While(reads, m) ==
  <<Open("while", reads, Len(m) + 2)>> \o Shift(m, 1) \o <<Open("endwhile", {}, 1)>>

Leave(op) == [Plain EXCEPT !.op = op]
\* break and continue of m, at the place they have in the loop.
Loop(reads, m) ==
  [i \in 1..(Len(m) + 2) |->
     IF While(reads, m)[i].op \in {"break", "continue"}
     THEN [While(reads, m)[i] EXCEPT !.to = Len(m) + 2] ELSE While(reads, m)[i]]

\* for b in a, in an array or in the result of a call; with the variable a of
\* the keys; and over an iterator or a range.
ForOf(by, reads) == [Plain EXCEPT !.op = "for", !.var = b, !.by = by, !.reads = reads]
Traversed == {ForOf("copy", {a}), ForOf("value", {a}), ForOf("call", {}), ForOf("call", {b})}
EndFor(x) == [Plain EXCEPT !.op = "endfor", !.var = x]
For(h, m) == Join(<<h>>, Loop({}, <<Let(b, "value", {})>> \o Shift(m, 1))) \o <<EndFor(b)>>
ForKeys(h, m) ==
  Join(<<h>>, Loop({}, <<Let(a, "value", {}), Let(b, "value", {})>> \o Shift(m, 2)))
    \o <<EndFor(b), EndFor(a)>>
ForIterator(m) ==
  Join(<<ForOf("item", {a})>>, Loop({}, <<Let(b, "item", {})>> \o Shift(m, 1)))
ForRange(m) == Loop({}, <<Let(b, "value", {})>> \o Shift(m, 1))

\* Statements that write a, and others that write b or read a.
Writes == {Let(a, "value", {}), Let(a, "value", {a}), Let(a, "number", {a}),
           Let(a, "inlined", {}), Let(a, "call", {}), Let(a, "call", {a}),
           Let(a, "fetch", {b}), Let(a, "fetch", {a}), Let(a, "copy", {b})}
Simple == Writes \cup {Let(b, "value", {}), Let(b, "copy", {a}), Echo(a)}
One == {<<s>> : s \in Simple}
Two == {<<s, t>> : s \in {Let(a, "number", {}), Let(a, "call", {}), Echo(a)}, t \in Simple}
Bodies == {<< >>} \cup One \cup Two

Compound ==
  {IfElse(r, m, n) : r \in {{}, {a}}, m \in Bodies, n \in One}
    \cup {If({}, m) : m \in One} \cup {IfElseif(m) : m \in One}
    \cup {While(r, m) : r \in {{}, {a}}, m \in Bodies}
Nested ==
  {While({}, Join(IfElse({}, <<s>>, <<t>>), m)) : s, t \in Writes, m \in {<< >>} \cup One}
    \cup {IfElse({}, Join(IfElse({}, <<s>>, <<t>>), <<u>>), <<u>>) : s, t, u \in Writes}
    \cup {IfElse({}, Join(While({}, <<s>>), <<Return>>), <<t>>) : s, t \in Writes}

\* Blocks of a loop that leave a alone, and those that write it and go on.
Inner ==
  {<< >>, <<Echo(a), Echo(b)>>, <<Let(b, "copy", {a})>>, <<Let(b, "call", {b})>>,
   <<Let(b, "value", {b})>>, If({}, <<Leave("break")>>) \o <<Echo(b)>>,
   If({b}, <<Leave("continue")>>) \o <<Let(b, "fetch", {a})>>}
Outer ==
  {<<w>> : w \in Writes} \cup {IfElse({}, <<w>>, <<Leave(op)>>) : w \in Writes, op \in {"break", "continue"}}

\* What comes after a loop assigns the variables that it clears.
After == {Let(b, "value", {}), Let(b, "call", {}), Let(b, "fetch", {a})}
Fors ==
  {For(h, m) \o <<s>> : h \in Traversed, m \in Inner, s \in After}
    \cup {For(h, m) \o <<s>> : h \in Traversed \ {ForOf("copy", {a})}, m \in Outer, s \in After}
    \cup {ForKeys(h, m) \o <<Let(a, by, {}), Let(b, "copy", {a})>> :
            h \in Traversed \ {ForOf("copy", {a})}, m \in Inner, by \in {"value", "call"}}
    \cup {For(h, Join(For(k, m), <<Let(b, "copy", {a})>>)) \o <<Let(b, "value", {})>> :
            h, k \in Traversed, m \in {<< >>, <<Let(b, "value", {b})>>}}
    \cup {Join(<<Let(b, by, {})>>, ForIterator(m)) : by \in {"value", "call"}, m \in Inner \cup Outer}
    \cup {For(ForOf("copy", {a}), <<w, Leave("break")>>) \o <<Let(b, "value", {})>> : w \in Writes}
    \cup {ForRange(m) : m \in Inner \cup Outer}
    \cup {IfElse({}, For(h, m), <<Let(b, "value", {})>>) \o <<Let(b, "value", {})>> :
            h \in Traversed, m \in Inner}

Composed ==
  {Join(Join(m, c), <<Echo(a), Let(a, "value", {}), Echo(b)>>) :
     m \in {<< >>} \cup {<<s>> : s \in {Let(a, "value", {}), Let(b, "value", {}), Let(a, "fetch", {a})}},
     c \in Compound \cup Nested}
    \cup {Join(Join(m, c), <<Echo(a), Echo(b)>>) : m \in {<< >>, <<Let(a, "value", {})>>}, c \in Fors}

\* The statements that a path comes to with the zval of x emptied; the least set
\* S of EmptyIn, if there is one.
EmptyAt(m, x) ==
  LET Reached[n \in Nat] ==
        IF n = 0 THEN {}
        ELSE LET S == Reached[n - 1] IN
             UNION {GoesTo(m, i) : i \in {i \in 1..Len(m) :
                      Empties(m, i, x) \/ (i \in S /\ ~Assigns(m, i, x))}}
  IN  Reached[Len(m) + 1]

\* Those of which the properties are proved.
Verified ==
  {m \in Composed :
     /\ ItemsCounted(m) /\ ArraysKept(m) /\ MovedSafely(m) /\ Detected(m)
     /\ \A x \in Variables : EmptyIn(m, x, EmptyAt(m, x))}

\* The smallest methods whose source the compiler does not keep to, SameReads
\* being violated: a variable in the array or among the arguments of new that it
\* is assigned, and what moves out of a branch that reads or keeps it.
Others ==
  {<<Let(a, "value", {})>> \o m : m \in
     {<<Hidden(a)>>,
      Shift(IfElse({}, <<Let(a, "value", {a})>>, <<Let(a, "value", {})>>), 1),
      Shift(IfElse({}, <<Echo(a), Let(a, "value", {})>>, <<Let(a, "value", {})>>), 1),
      Shift(IfElseif(<<Let(a, "value", {})>>), 1) \o <<Echo(a)>>}}

\* A branch in which a second let uses up the skip of the other branch: the value
\* of the first is lost, ValuesOwned being violated.
OtherSkips ==
  {IfElse({}, <<Let(a, "value", {}), s>>, <<Let(a, "number", {})>>) :
     s \in {Let(a, "value", {}), Let(a, "number", {a}), Let(a, "inlined", {})}}

\* A variable that only a loop over an iterator has initialised is initialised
\* for a first time, and its first value is lost.
OtherItems == {ForIterator(<< >>) \o <<Let(b, by, {})>> : by \in {"value", "fetch"}}

\* An array whose variable is assigned while it is traversed.
OtherFors ==
  {Join(<<Let(a, "value", {})>>, For(ForOf("copy", {a}), <<w>>)) : w \in Writes}
    \cup {Join(<<Let(b, "value", {})>>, For(ForOf("copy", {b}), << >>))}
=============================================================================
