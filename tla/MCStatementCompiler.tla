------------------------- MODULE MCStatementCompiler -------------------------
(***************************************************************************)
(* StatementCompiler for TLC: families of method bodies.  Verified is the  *)
(* set of the shapes the compiler translates faithfully; each of the other *)
(* sets holds the smallest bodies of a shape it does not.                  *)
(***************************************************************************)
EXTENDS StatementCompiler, ZepSource

Thrown == {"RuntimeException", "LogicException"}
AnyClass == "Exception"

\* Statements and blocks of up to two of them, echoing and calling with ids
\* from i on.
Simple(i)  == {Echo(i), Call(i), Return, Throw("LogicException")}
One(i)     == {<<s>> : s \in Simple(i)}
Blocks(i)  == {<< >>} \cup One(i) \cup {<<s, t>> : s \in {Echo(i), Call(i)}, t \in Simple(i + 1)}
Leaving(i) == {<<Return>>, <<Throw("LogicException")>>, <<Call(i), Return>>}
InLoop(i)  == Blocks(i) \cup {<<s, t>> : s \in {Echo(i), Call(i)}, t \in {Break, Continue}}
                \cup {<<If(<<Arm(Cond(i), <<t>>)>>, << >>), Call(i + 1)>> : t \in {Break, Continue}}
Conds(i)   == {Cond(i), CallCond(i)}

Ifs ==
  {If(<<Arm(c, b)>>, e) : c \in Conds(1), b \in Blocks(2), e \in Blocks(4)}
    \cup {If(<<Arm(c, b), Arm(Cond(3), d)>>, e) :
            c \in Conds(1), b \in One(2), d \in One(4), e \in {<< >>} \cup One(5)}

Whiles == {While(c, b) : c \in Conds(1), b \in InLoop(2)}

DoWhiles ==
  {DoWhile(b, Cond(1)) : b \in InLoop(2)} \cup {DoWhile(b, CallCond(1)) : b \in Blocks(2)}

Loops ==
  {Loop(<<If(<<Arm(c, b)>>, e), s>>) :
     c \in Conds(1), b \in {<<Break>>} \cup Leaving(2), e \in {<< >>, <<Continue>>},
     s \in {Echo(4), Call(4)}}

\* Clauses that leave the switch or have no statements, in any order, but for
\* a default without statements and a last case without statements.
Clauses ==
  {[i \in 1..3 |-> [value |-> order[i], body |-> bodies[i]]] :
     order \in {p \in [1..3 -> 0..2] : \A i, j \in 1..3 : p[i] = p[j] => i = j},
     bodies \in [1..3 -> {<< >>, <<Echo(2), Break>>, <<Call(3), Return>>}]}
Switches ==
  {Switch(1, cs) : cs \in {cs \in Clauses : \A i \in 1..3 : cs[i].body = << >> =>
                                              i # 3 /\ cs[i].value # 0}}
    \cup {Switch(1, <<Case(1, <<Echo(2), Break>>), Case(2, <<Echo(3)>>)>>)}

\* Every exception is caught, each catch but the last leaves the method, and
\* no try block is inside another.
Tries ==
  {Try(b, << >>) : b \in {<< >>, <<Echo(1)>>, <<Call(1), Echo(2)>>}}
    \cup {Try(b, <<Catch(<<AnyClass>>, h)>>) : b \in Blocks(1), h \in Blocks(3)}
    \cup {Try(b, <<Catch(<<"LogicException">>, l), Catch(<<AnyClass>>, h)>>) :
            b \in Blocks(1), l \in Leaving(3), h \in One(5)}
    \cup {Try(b, <<Catch(<<"LogicException", AnyClass>>, l)>>) :
            b \in Blocks(1), l \in Leaving(3)}

\* Blocks of a loop over an iterator that the method does not leave from inside.
Staying(i) ==
  {<< >>, <<Echo(i)>>, <<Try(<<Call(i)>>, <<Catch(<<AnyClass>>, <<Continue>>)>>), Echo(i + 2)>>}
    \cup {<<If(<<Arm(Cond(i), <<t>>)>>, << >>), Echo(i + 1)>> : t \in {Break, Continue}}

Fors ==
  {For(1, over, {}, b) : over \in {"array", "range"}, b \in InLoop(2)}
    \cup {For(1, "iterator", {}, b) : b \in Staying(2)}
    \cup {For(7, over, {}, <<For(1, inner, {}, b), Echo(8)>>) :
            over, inner \in {"array", "range", "iterator"}, b \in Staying(2)}

\* An iterator that throws in a loop, with nothing before the catch or the end
\* of the method but the end of another loop over an iterator.
Throwing ==
  {For(1, "iterator", {"move"}, b) : b \in Staying(2)}
    \cup {For(7, "iterator", {}, <<For(1, "iterator", {"move"}, b)>>) : b \in Staying(2)}
Caught == {Try(<<s>>, <<Catch(<<AnyClass>>, <<Echo(9)>>)>>) : s \in Throwing}

\* A statement inside another.
Nested ==
  {While(Cond(8), <<s, Echo(9)>>) :
     s \in {Try(b, <<Catch(<<AnyClass>>, h)>>) : b \in InLoop(1), h \in InLoop(3)}
             \cup {Switch(1, <<Case(1, <<Echo(2), t>>), Default(<<u>>)>>) :
                     t, u \in {Break, Continue}}}
    \cup {Try(<<s, Call(8)>>, <<Catch(<<AnyClass>>, <<Echo(9)>>)>>) : s \in Whiles \cup Loops}
    \cup {If(<<Arm(CallCond(8), <<s>>)>>, <<s, Echo(9)>>) : s \in DoWhiles}

\* The bodies compiled faithfully: what follows the statement restores the
\* frame, or nothing follows and hasChildReturnStatementType looks at all of it.
Compilable ==
  {<<s, t>> : s \in Ifs \cup Whiles \cup DoWhiles \cup Loops \cup Fors \cup Switches \cup Tries
                      \cup Caught \cup Nested,
              t \in {Echo(10)}}
    \cup {<<s>> : s \in {i \in Ifs : Len(i.arms) = 1} \cup Loops \cup Throwing \cup Switches
                       \cup {f \in Fors : \A t \in Range(f.body) : t \notin {Return, Throw("LogicException")}}}
    \cup {<<Try(<<Call(11)>>, <<Catch(<<AnyClass>>, << >>)>>), s, Echo(10)>> : s \in Tries}
    \cup Blocks(1)

\* What the compilers refuse: a break or continue that is inside no loop, among them
\* a continue in a switch, and a loop without an end.
Refused ==
  {<<s, Echo(9)>> :
     s \in {Break, Continue, If(<<Arm(Cond(1), <<Break>>)>>, << >>),
            Try(<<Call(1)>>, <<Catch(<<AnyClass>>, <<Break>>)>>),
            Switch(1, <<Case(1, <<Continue>>)>>), Loop(<<Call(2)>>),
            Loop(<<If(<<Arm(Cond(1), <<Echo(2)>>), Arm(Cond(3), <<Break>>)>>, << >>)>>)}}
    \cup {<<s, t>> : s \in {While(Cond(1), <<Break>>), Switch(1, <<Case(1, <<Break>>)>>)},
                     t \in {Break, Continue}}

Verified == Compilable \cup Refused

\* A body that is refused means nothing.
Meaning(body) == IF body \in Refused THEN Finished(NoException) ELSE Start(body)

\* A last statement that is neither return nor throw, and of which only some paths
\* leave the method.
LastStatements ==
  {<<Echo(1), Try(<<Throw("LogicException")>>, << >>)>>,
   <<While(Cond(1), <<Return>>)>>,
   <<If(<<Arm(Cond(1), <<Return>>), Arm(Cond(2), <<Echo(3)>>)>>, <<Return>>)>>}

\* Exceptions nobody catches, catches that go on, try blocks in one another.
OtherTries ==
  {<<Try(<<Call(1)>>, <<Catch(<<"LogicException">>, <<Echo(2)>>)>>), Echo(3)>>,
   <<Try(<<Call(1)>>, <<Catch(<<"LogicException">>, <<Echo(2)>>),
                        Catch(<<AnyClass>>, <<Echo(3)>>)>>), Echo(4)>>,
   <<Try(<<Call(1)>>, <<Catch(<<"LogicException", AnyClass>>, <<Echo(2)>>)>>), Echo(3)>>,
   <<Try(<<Try(<<Call(1)>>, <<Catch(<<AnyClass>>, <<Echo(2)>>)>>), Call(3)>>,
         <<Catch(<<AnyClass>>, <<Echo(4)>>)>>), Echo(5)>>}

\* Clauses that fall through into one another.
OtherSwitches ==
  {<<Switch(1, <<Case(1, <<Echo(2)>>), Case(2, <<Echo(3), Break>>)>>), Echo(4)>>,
   <<Switch(1, <<Default(<<Echo(2), Break>>), Case(1, << >>)>>), Echo(4)>>}

\* An elseif whose condition calls, and one without statements.
OtherIfs ==
  {<<If(<<Arm(Cond(1), <<Echo(2)>>), Arm(CallCond(3), <<Echo(4)>>)>>, << >>), Echo(5)>>,
   <<If(<<Arm(Cond(1), <<Echo(2)>>), Arm(Cond(3), << >>)>>, <<Echo(4)>>), Echo(5)>>}

\* Iterators whose exceptions are not caught where they are thrown.
OtherFors ==
  {<<For(1, "iterator", {m}, <<Echo(2)>>), Echo(3)>> : m \in {"getIterator", "current", "move"}}

\* Loops over an iterator that a return, a throw or a failed call leaves:
\* IteratorsReleased does not hold of these; SameAsSource and RestoredOnce do.
Abandoned ==
  {<<For(1, "iterator", {}, <<If(<<Arm(Cond(2), <<s>>)>>, << >>)>>), Echo(4)>> :
     s \in {Return, Throw("LogicException"), Call(3)}}

\* A call that fails jumps into a loop over an iterator that is destroyed, since
\* the try block of the loop was the last one; SameAsSource does not hold.
Reentered ==
  {<<Try(<<For(1, "iterator", {}, <<Try(<<Call(2)>>, <<Catch(<<AnyClass>>, <<Continue>>)>>)>>), Call(3)>>,
         <<Catch(<<AnyClass>>, << >>)>>)>>}

-----------------------------------------------------------------------------
\* The statements of a body, and those of their blocks.
BlocksOf(s) ==
  CASE s.kind \in LoopKinds -> {s.body}
    [] s.kind = "if"     -> {s.else} \cup {a.body : a \in Range(s.arms)}
    [] s.kind = "switch" -> {c.body : c \in Range(s.clauses)}
    [] s.kind = "try"    -> {s.body} \cup {c.body : c \in Range(s.catches)}
    [] OTHER -> {}

RECURSIVE StatementsOf(_)
StatementsOf(block) ==
  UNION {{s} \cup UNION {StatementsOf(b) : b \in BlocksOf(s)} : s \in Range(block)}

AllStatements == UNION {StatementsOf(body) : body \in Bodies}

RECURSIVE StandsAt(_, _)
StandsAt(x, s) ==
  LET all(b, y) == \A i \in 1..Len(b) : StandsAt(y, b[i]) IN
  /\ s.kind = "return" => ~x.deep
  /\ Calls(s) => MayFail(x)
  /\ OverIterator(s) => "current" \notin s.throws
  /\ CASE s.kind \in LoopKinds \cup {"try"} ->
              /\ \E y \in Places : /\ Enters(x, s, IF s.kind = "try" THEN "try" ELSE "body", y)
                                  /\ all(s.body, y)
              /\ s.kind = "try" => \A c \in Range(s.catches) : all(c.body, x)
       [] OTHER -> \A b \in BlocksOf(s) : all(b, x)
\* What may stand at each place; with the @@, TLC computes it once.
Standing == [x \in Places |-> {s \in AllStatements : StandsAt(x, s)}] @@ << >>

RECURSIVE Leaves(_)
Leaves(s) ==
  \/ s.kind \in {"return", "throw"}
  \/ s.kind = "if" /\ \A b \in BlocksOf(s) : b # << >> /\ Leaves(b[Len(b)])
LastOnes == {s \in AllStatements : Leaves(s)}

\* The bodies that are compiled faithfully are among those of KeptHolds.
ASSUME VerifiedSheltered == Bodies = Verified => Sheltered(Standing, LastOnes)
=============================================================================
